---------------------------- MODULE OverrunProofs ----------------------------
(***************************************************************************)
(* How far an invite can be overrun, for every number of handlers, rows,   *)
(* mailboxes and platforms: what holds where no statement fails, what also *)
(* needs that no task is cancelled, and what is left when both happen.     *)
(*                                                                         *)
(* The argument for the bound: a handler that was admitted by an invite    *)
(* inserts one account and then marks the invite, so that each pair of a   *)
(* handler and an invite admits once.  A pair is spent when it has         *)
(* admitted, or cannot any more; pairs stay spent, and every account of a  *)
(* mailbox has spent one more of its pairs.                                *)
(***************************************************************************)
EXTENDS OnboardingProofs, FiniteSetTheorems

Open(i) == IsInvite(i) /\ ~invites[i].is_used

Serves(h, i, pc) == calls[h].pc = pc /\ calls[h].invite = i

\* The pairs that will not insert an account for m any more: the handler is not
\* about to, and cannot come to it with that invite again.
Spent(m) ==
  {p \in Handlers \X InvitesOf(m) :
     /\ ~Serves(p[1], p[2], "create")
     /\ Open(p[2]) => Serves(p[1], p[2], "mark")}

OverrunInv == \A m : Cardinality(AccountsOf(m)) <= Cardinality(Spent(m))

-----------------------------------------------------------------------------
(* What a step does to a handler and an invite *)

\* The ways a call goes on where no statement fails, as far as the invite it
\* has found is concerned: it stays, begins or ends without one, finds one,
\* inserts, marks, or dies.
Stays(h) == calls'[h] = calls[h]
Begins(h) ==
  /\ calls[h].pc = "idle"
  /\ calls'[h].invite = NULL
  /\ calls'[h].pc # "mark"
  /\ calls'[h].pc # "done" => calls'[h].reply = "none"
Finds(h) ==
  /\ calls[h].pc = "lookup" /\ calls'[h].pc = "create"
  /\ calls'[h].reply = calls[h].reply
  /\ calls'[h].invite \in InviteIds /\ Open(calls'[h].invite)
Inserts(h) ==
  /\ calls[h].pc = "create" /\ calls'[h].pc = "mark"
  /\ calls'[h].invite = calls[h].invite
  /\ calls'[h].reply = calls[h].reply
Consumes(h) ==
  /\ Marks(h)
  /\ calls'[h].pc = "done"
  /\ calls'[h].invite = calls[h].invite
Ends(h) ==
  /\ calls[h].pc # "mark"
  /\ calls'[h].pc \in {"idle", "done"}
  /\ calls'[h].invite \in {calls[h].invite, NULL}
  /\ calls'[h].op = "Register" /\ calls'[h].reply = "OK" => calls'[h].invite = NULL
Dies(h) ==
  /\ "cancel" \in Faults
  /\ calls'[h].pc = "idle"
  /\ calls'[h].invite = NULL
  /\ calls'[h].reply = "none"

Moves(h) ==
  Stays(h) \/ Begins(h) \/ Finds(h) \/ Inserts(h) \/ Consumes(h) \/ Ends(h) \/ Dies(h)

\* An account is inserted by a Register that has found an invite and goes on to
\* mark it, or by the superadmin's.
InsertsFollowed ==
  UNCHANGED admins \/ \E h \in Handlers : Admits(h) /\ (calls[h].invite = NULL \/ Inserts(h))

CleanStep == (\A h \in Handlers : Moves(h)) /\ InsertsFollowed

\* A step of h leaves the other handlers where they are.
LEMMA OthersStay ==
  ASSUME TypeOK, NEW h \in Handlers, NEW c, calls' = [calls EXCEPT ![h] = c], Moves(h)
  PROVE  \A k \in Handlers : Moves(k)
<1>1. \A k \in Handlers \ {h} : calls'[k] = calls[k]
  BY DEF TypeOK, AdminServiceTypeOK
<1>2. QED
  BY <1>1 DEF Moves, Stays

LEMMA RequestsMove ==
  ASSUME TypeOK, NEW h \in Handlers, Requests(h)
  PROVE  CleanStep
<1>1. ASSUME NEW c, c.invite = NULL, c.pc # "mark", c.pc # "done" => c.reply = "none",
             calls[h].pc = "idle", calls' = [calls EXCEPT ![h] = c]
      PROVE  \A k \in Handlers : Moves(k)
  <2>1. calls'[h] = c
    BY <1>1 DEF TypeOK, AdminServiceTypeOK
  <2>2. Moves(h)
    BY <1>1, <2>1 DEF Moves, Begins
  <2>3. QED
    BY <1>1, <2>2, OthersStay
<1>2. ASSUME NEW r \in RegisterRequests, ReceiveRegister(h, r)
      PROVE  \A k \in Handlers : Moves(k)
  <2>1. \E pc \in {"lookup", "create", "done"}, status \in {"none", "INVALID_ARGUMENT"} :
          /\ calls' = [calls EXCEPT ![h] =
               [[NoCall EXCEPT !.op = "Register", !.email = r.email, !.valid = r.valid,
                               !.platform_id = IF r.platform_id = Malformed THEN NULL
                                               ELSE r.platform_id]
                  EXCEPT !.pc = pc, !.reply = status]]
          /\ pc # "done" => status = "none"
    BY <1>2 DEF ReceiveRegister
  <2>2. QED
    BY <1>1, <1>2, <2>1 DEF NoCall, ReceiveRegister, At
<1>3. ASSUME NEW r \in LoginRequests, Login(h, r)
      PROVE  \A k \in Handlers : Moves(k)
  <2>1. \E status :
          calls' = [calls EXCEPT ![h] =
            [NoCall EXCEPT !.op = "Login", !.pc = "done", !.email = r.email, !.reply = status]]
    BY <1>3 DEF Login
  <2>2. QED
    BY <1>1, <1>3, <2>1 DEF NoCall, Login, At
<1>4. ASSUME NEW t \in tokens, NEW a \in AdminIds, NEW r \in UpdateRequests,
             ReceiveUpdate(h, t, a, r)
      PROVE  \A k \in Handlers : Moves(k)
  <2>1. \E status : \E pc \in {"write", "done"} :
          /\ calls' = [calls EXCEPT ![h] =
               [[NoCall EXCEPT !.op = "Update", !.target = a, !.fields = r.fields]
                  EXCEPT !.pc = pc, !.reply = status]]
          /\ pc # "done" => status = "none"
    BY <1>4 DEF ReceiveUpdate
  <2>2. QED
    BY <1>1, <1>4, <2>1 DEF NoCall, ReceiveUpdate, At
<1>5. UNCHANGED admins
  BY DEF Requests, ReceiveRegister, Login, ReceiveUpdate, tables
<1>6. QED
  BY <1>2, <1>3, <1>4, <1>5 DEF Requests, CleanStep, InsertsFollowed

LEMMA AnswerMoves ==
  ASSUME TypeOK, NEW h \in Handlers, NEW status, Answer(h, status), calls[h].pc # "mark",
         calls[h].op = "Register" /\ status = "OK" => calls[h].invite = NULL
  PROVE  \A k \in Handlers : Moves(k)
<1>1. calls[h] \in Call /\ calls \in [Handlers -> Call]
  BY DEF TypeOK, AdminServiceTypeOK
<1>2. PICK c : c = [calls[h] EXCEPT !.pc = "done", !.reply = status]
  OBVIOUS
<1>3. calls' = [calls EXCEPT ![h] = c] /\ calls'[h] = c
  BY <1>1, <1>2 DEF Answer, Call
<1>4. c.pc = "done" /\ c.reply = status /\ c.invite = calls[h].invite /\ c.op = calls[h].op
  BY <1>1, <1>2 DEF Call
<1>5. Moves(h)
  BY <1>3, <1>4 DEF Moves, Ends
<1>6. QED
  BY <1>3, <1>5, OthersStay

LEMMA StatementsMove ==
  ASSUME IInv, NEW h \in Handlers, HandlerStep(h)
  PROVE  CleanStep
<1>1. calls[h] \in Call /\ calls \in [Handlers -> Call] /\ TypeOK
  BY DEF IInv, TypeOK, AdminServiceTypeOK
<1>2. CASE CheckInvite(h)
  <2>1. UNCHANGED admins /\ calls[h].pc = "lookup"
    BY <1>2 DEF CheckInvite, At, tables
  <2>2. CASE Answer(h, "PERMISSION_DENIED") \/ Answer(h, "INVALID_ARGUMENT")
    BY <1>1, <2>1, <2>2, AnswerMoves DEF CleanStep, InsertsFollowed
  <2>3. ASSUME NEW i \in ValidInvites(calls[h].email),
               calls' = [calls EXCEPT ![h].pc = "create", ![h].invite = i]
        PROVE  CleanStep
    <3>1. i \in InviteIds /\ Open(i)
      BY <2>3 DEF ValidInvites, Open
    <3>2. PICK c : c = [calls[h] EXCEPT !.pc = "create", !.invite = i]
      OBVIOUS
    <3>3. calls' = [calls EXCEPT ![h] = c] /\ calls'[h] = c
      BY <1>1, <2>3, <3>2 DEF Call
    <3>4. c.pc = "create" /\ c.invite = i /\ c.reply = calls[h].reply
      BY <1>1, <3>2 DEF Call
    <3>5. Moves(h)
      BY <2>1, <3>1, <3>3, <3>4 DEF Moves, Finds
    <3>6. QED
      BY <1>1, <2>1, <3>3, <3>5, OthersStay DEF CleanStep, InsertsFollowed
  <2>4. QED
    BY <1>2, <2>2, <2>3 DEF CheckInvite
<1>3. CASE CreateAdmin(h)
  <2>1. calls[h].pc = "create"
    BY <1>3 DEF CreateAdmin, At
  <2>2. CASE UNCHANGED admins /\ (Answer(h, "ALREADY_EXISTS") \/ Answer(h, "UNKNOWN"))
    BY <1>1, <2>1, <2>2, AnswerMoves DEF CleanStep, InsertsFollowed
  <2>3. CASE Admits(h) /\ calls[h].invite = NULL /\ Answer(h, "OK")
    BY <1>1, <2>1, <2>3, AnswerMoves DEF CleanStep, InsertsFollowed
  <2>4. CASE Admits(h) /\ calls' = [calls EXCEPT ![h].pc = "mark"]
    <3>1. PICK c : c = [calls[h] EXCEPT !.pc = "mark"]
      OBVIOUS
    <3>2. calls' = [calls EXCEPT ![h] = c] /\ calls'[h] = c
      BY <1>1, <2>4, <3>1 DEF Call
    <3>3. c.pc = "mark" /\ c.invite = calls[h].invite /\ c.reply = calls[h].reply
      BY <1>1, <3>1 DEF Call
    <3>4. Inserts(h)
      BY <2>1, <3>2, <3>3 DEF Inserts
    <3>5. QED
      BY <1>1, <2>4, <3>2, <3>4, OthersStay DEF CleanStep, InsertsFollowed, Moves
  <2>5. QED
    BY <1>3, <2>2, <2>3, <2>4 DEF CreateAdmin, Admits, At
<1>4. CASE MarkInvite(h)
  <2>1. Marks(h) /\ UNCHANGED admins
    BY <1>4 DEF MarkInvite, Marks, At
  <2>2. PICK c : c = [calls[h] EXCEPT !.pc = "done", !.reply = "OK"]
    OBVIOUS
  <2>3. calls' = [calls EXCEPT ![h] = c] /\ calls'[h] = c
    BY <1>1, <1>4, <2>2 DEF Call, MarkInvite, Answer
  <2>4. c.pc = "done" /\ c.invite = calls[h].invite
    BY <1>1, <2>2 DEF Call
  <2>5. Moves(h)
    BY <2>1, <2>3, <2>4 DEF Moves, Consumes
  <2>6. QED
    BY <1>1, <2>1, <2>3, <2>5, OthersStay DEF CleanStep, InsertsFollowed
<1>5. CASE UpdateAdmin(h)
  <2>1. UNCHANGED admins /\ calls[h].pc = "write"
    BY <1>5 DEF UpdateAdmin, At, tables
  <2>2. calls[h].op = "Update"
    BY <2>1 DEF IInv, CallsSound, CallSound
  <2>3. \E status : Answer(h, status)
    BY <1>5 DEF UpdateAdmin
  <2>4. QED
    BY <1>1, <2>1, <2>2, <2>3, AnswerMoves DEF CleanStep, InsertsFollowed
<1>6. QED
  BY <1>2, <1>3, <1>4, <1>5 DEF HandlerStep

\* Every step, where no statement fails.
LEMMA EveryStepIsClean ==
  ASSUME IInv, "statement" \notin Faults, [Next]_vars
  PROVE  CleanStep
<1>1. TypeOK
  BY DEF IInv
<1>2. CASE UNCHANGED <<admins, calls>>
  BY <1>2 DEF CleanStep, Moves, Stays, InsertsFollowed
<1>3. ASSUME NEW h \in Handlers, Requests(h)
      PROVE  CleanStep
  BY <1>1, <1>3, RequestsMove
<1>4. ASSUME NEW h \in Handlers, HandlerStep(h)
      PROVE  CleanStep
  BY <1>4, StatementsMove
<1>5. ASSUME NEW h \in Handlers, Abandon(h) \/ Collect(h)
      PROVE  CleanStep
  <2>1. UNCHANGED admins /\ calls' = [calls EXCEPT ![h] = NoCall]
    BY <1>5 DEF Abandon, Collect, tables
  <2>2. calls'[h] = NoCall
    BY <1>1, <2>1 DEF TypeOK, AdminServiceTypeOK
  <2>3. Moves(h)
    BY <1>5, <2>2 DEF Moves, Ends, Dies, Abandon, Collect, At, NoCall
  <2>4. QED
    BY <1>1, <2>1, <2>3, OthersStay DEF CleanStep, InsertsFollowed
<1>6. CASE InviteServiceNext
  BY <1>2, <1>6 DEF InviteServiceNext, CreateInvite, DeleteInvite, InviteStatementFails,
     CollectInvite, adminServiceVars, tables
<1>7. \A h \in Handlers : ~StatementFails(h)
  BY DEF StatementFails
<1>8. ASSUME NEW t \in tokens, ExpireToken(t)
      PROVE  CleanStep
  BY <1>2, <1>8 DEF ExpireToken, tables
<1>9. CASE UNCHANGED vars
  BY <1>2, <1>9 DEF vars, tables, adminServiceVars
<1>10. QED
  BY <1>3, <1>4, <1>5, <1>6, <1>7, <1>8, <1>9 DEF Next, AdminServiceNext

-----------------------------------------------------------------------------
(* What a step does to the invites *)

\* An invite that is used or deleted admits nobody any more: nothing makes it
\* unused, and a deleted row does not come back under its id.
LEMMA ClosedInvitesStay ==
  ASSUME IInv, [Next]_vars, NEW i \in InviteIds, Issued(i), ~Open(i)
  PROVE  Issued(i)' /\ ~Open(i)'
<1>1. InvitesEffect
  BY TableEffects DEF StatementEffect
<1>2. invites \in [InviteIds -> InviteRow \cup {NULL}] /\ invites[i] \in InviteRow
  BY DEF IInv, TypeOK, TablesTypeOK, Issued
<1> USE DEF Open, IsInvite, Issued
<1>3. CASE UNCHANGED invites
  BY <1>3
<1>4. ASSUME NEW h \in Handlers, Marks(h)
      PROVE  Issued(i)' /\ ~Open(i)'
  BY <1>2, <1>4, NullIsNoRow DEF Marks, SetInviteUsed, InviteRow
<1>5. ASSUME NEW t \in tokens, NEW r \in CreateRequests, Issues(t, r)
      PROVE  Issued(i)' /\ ~Open(i)'
  BY <1>2, <1>5 DEF Issues, InsertInvite
<1>6. ASSUME NEW j \in InviteIds, IsInvite(j), RemoveInvite(j)
      PROVE  Issued(i)' /\ ~Open(i)'
  BY <1>2, <1>6, NullIsNoRow DEF RemoveInvite, InviteRow
<1>7. QED
  BY <1>1, <1>3, <1>4, <1>5, <1>6 DEF InvitesEffect

\* A used or deleted invite is never open again, whatever fails: an invite that
\* is issued anew has a row of its own.
THEOREM InvitesDoNotReopen ==
  Spec => [][\A i \in InviteIds : Issued(i) /\ ~Open(i) => (Issued(i) /\ ~Open(i))']_vars
<1>1. IInv /\ [Next]_vars =>
        \A i \in InviteIds : Issued(i) /\ ~Open(i) => (Issued(i) /\ ~Open(i))'
  BY ClosedInvitesStay
<1>2. QED
  BY <1>1, Invariant, PTL DEF Spec

LEMMA InvitesStay == IInv /\ [Next]_vars => RowsStay
BY TableEffects, TablesStay DEF StatementEffect, IInv

LEMMA MarkedIsClosed ==
  ASSUME IInv, NEW h \in Handlers, Marks(h), NEW i, i = calls[h].invite
  PROVE  i \in InviteIds /\ Issued(i) /\ ~Open(i)'
<1>1. i \in InviteIds /\ Issued(i)
  BY MarkedInviteHasAccount DEF Marks
<1>2. invites \in [InviteIds -> InviteRow \cup {NULL}]
  BY DEF IInv, TypeOK, TablesTypeOK
<1>3. QED
  BY <1>1, <1>2 DEF Marks, SetInviteUsed, Open, IsInvite, Issued, InviteRow

-----------------------------------------------------------------------------
(* An answered Register has used its invite *)

\* The inductive invariant: an invite that a call carries was issued, so that
\* no later one takes its id; a call is answered when it ends, not before; and
\* once it is answered, its invite is closed.
CallAnswered(c) ==
  /\ c.invite # NULL => Issued(c.invite)
  /\ c.pc \notin {"idle", "done"} => c.reply = "none"
  /\ c.op = "Register" /\ c.reply = "OK" /\ c.invite # NULL => ~Open(c.invite)

AnsweredInv == \A h \in Handlers : CallAnswered(calls[h])

LEMMA AnsweredStep ==
  ASSUME IInv, "statement" \notin Faults, [Next]_vars, AnsweredInv
  PROVE  AnsweredInv'
<1> SUFFICES ASSUME NEW h \in Handlers
             PROVE  CallAnswered(calls[h])'
  BY DEF AnsweredInv
<1>1. PICK c \in Call : c = calls[h]
  BY DEF IInv, TypeOK, AdminServiceTypeOK
<1>2. PICK d : d = calls'[h]
  OBVIOUS
<1>3. CallAnswered(c) /\ c.invite \in InviteIds \cup {NULL}
  BY <1>1 DEF AnsweredInv, Call
<1>4. \A i \in InviteIds : Issued(i) => Issued(i)' /\ (~Open(i) => ~Open(i)')
  BY InvitesStay, ClosedInvitesStay DEF RowsStay, Issued
<1>5. SUFFICES CallAnswered(d)'
  BY <1>2
<1>6. CASE Stays(h)
  BY <1>1, <1>2, <1>3, <1>4, <1>6 DEF Stays, CallAnswered
<1>7. CASE Begins(h)
  BY <1>2, <1>7 DEF Begins, CallAnswered
<1>8. CASE Finds(h)
  <2>1. /\ c.pc = "lookup" /\ d.pc = "create" /\ d.reply = c.reply
        /\ d.invite \in InviteIds /\ Open(d.invite)
    BY <1>1, <1>2, <1>8 DEF Finds
  <2>2. Issued(d.invite)'
    BY <1>4, <2>1 DEF Open, IsInvite
  <2>3. QED
    BY <1>3, <2>1, <2>2 DEF CallAnswered
<1>9. CASE Inserts(h)
  BY <1>1, <1>2, <1>3, <1>4, <1>9 DEF Inserts, CallAnswered
<1>10. CASE Consumes(h)
  <2>1. d.pc = "done" /\ d.invite = c.invite
    BY <1>1, <1>2, <1>10 DEF Consumes
  <2>2. c.invite \in InviteIds /\ Issued(c.invite) /\ ~Open(c.invite)'
    BY <1>1, <1>10, MarkedIsClosed DEF Consumes
  <2>3. QED
    BY <1>4, <2>1, <2>2 DEF CallAnswered
<1>11. CASE Ends(h)
  BY <1>1, <1>2, <1>3, <1>4, <1>11 DEF Ends, CallAnswered
<1>12. CASE Dies(h)
  BY <1>2, <1>12 DEF Dies, CallAnswered
<1>13. Moves(h)
  BY EveryStepIsClean DEF CleanStep
<1>14. QED
  BY <1>6, <1>7, <1>8, <1>9, <1>10, <1>11, <1>12, <1>13 DEF Moves

\* As long as no statement fails, also when calls are cancelled: a Register that
\* looks for an invite after another was answered does not find that one's.
THEOREM AnsweredInvitesAreClosed ==
  ASSUME "statement" \notin Faults
  PROVE  Spec => AnsweredInvitesAdmitNobody
<1> DEFINE Excluded ==
      \A g, h \in Handlers :
        Admitted(g) /\ At(h, "lookup") /\ calls'[h].pc = "create" =>
          calls'[h].invite # calls[g].invite
<1>1. Init => AnsweredInv
  BY DEF Init, AdminServiceInit, NoCall, AnsweredInv, CallAnswered
<1>2. IInv /\ AnsweredInv /\ [Next]_vars => AnsweredInv'
  BY AnsweredStep
<1>3. IInv /\ AnsweredInv /\ [Next]_vars => Excluded
  <2> SUFFICES ASSUME IInv, AnsweredInv, [Next]_vars, NEW g \in Handlers, NEW h \in Handlers,
                      Admitted(g), At(h, "lookup"), calls'[h].pc = "create"
               PROVE  calls'[h].invite # calls[g].invite
    OBVIOUS
  <2>1. ~Open(calls[g].invite)
    BY DEF AnsweredInv, CallAnswered, Admitted
  <2>2. Moves(h)
    BY EveryStepIsClean DEF CleanStep
  <2>3. Finds(h)
    BY <2>2 DEF Moves, Stays, Begins, Finds, Inserts, Consumes, Ends, Dies, At
  <2>4. QED
    BY <2>1, <2>3 DEF Finds
<1>4. IInv /\ AnsweredInv /\ [Next]_vars => [Excluded]_vars
  BY <1>3
<1>5. QED
  BY <1>1, <1>2, <1>4, Invariant, PTL DEF Spec, AnsweredInvitesAdmitNobody

-----------------------------------------------------------------------------
(* The bound *)

PairSpent(h, i) == ~Serves(h, i, "create") /\ (Open(i) => Serves(h, i, "mark"))

\* A pair that is spent stays spent: its handler marks the invite before it
\* does anything else, and a closed invite is not found again.
LEMMA SpentPairStays ==
  ASSUME IInv, Faults = {}, [Next]_vars, NEW h \in Handlers, NEW i \in InviteIds, Issued(i),
         PairSpent(h, i)
  PROVE  PairSpent(h, i)'
<1>1. PICK c : c = calls[h]
  OBVIOUS
<1>2. PICK d : d = calls'[h]
  OBVIOUS
<1>3. i # NULL
  BY TablesAssumption
<1>4. ~(c.pc = "create" /\ c.invite = i) /\ (Open(i) => c.pc = "mark" /\ c.invite = i)
  BY <1>1 DEF PairSpent, Serves
<1>5. ~Open(i) => ~Open(i)'
  BY ClosedInvitesStay
<1>6. SUFFICES /\ ~(d.pc = "create" /\ d.invite = i)
               /\ Open(i)' => d.pc = "mark" /\ d.invite = i
  BY <1>2 DEF PairSpent, Serves
<1>7. CASE Stays(h)
  BY <1>1, <1>2, <1>4, <1>5, <1>7 DEF Stays
<1>8. CASE Begins(h)
  BY <1>1, <1>2, <1>3, <1>4, <1>5, <1>8 DEF Begins
<1>9. CASE Finds(h)
  BY <1>1, <1>2, <1>4, <1>5, <1>9 DEF Finds
<1>10. CASE Inserts(h)
  BY <1>1, <1>2, <1>4, <1>5, <1>10 DEF Inserts
<1>11. CASE Consumes(h)
  <2>1. c.invite = i => ~Open(i)'
    BY <1>1, <1>11, MarkedIsClosed DEF Consumes
  <2>2. d.pc = "done"
    BY <1>2, <1>11 DEF Consumes
  <2>3. QED
    BY <1>4, <1>5, <2>1, <2>2
<1>12. CASE Ends(h)
  BY <1>1, <1>2, <1>4, <1>5, <1>12 DEF Ends
<1>13. Moves(h) /\ ~Dies(h)
  BY EveryStepIsClean DEF CleanStep, Dies
<1>14. QED
  BY <1>7, <1>8, <1>9, <1>10, <1>11, <1>12, <1>13 DEF Moves

LEMMA SpentStays ==
  ASSUME IInv, Faults = {}, [Next]_vars, NEW m
  PROVE  Spent(m) \subseteq Spent(m)'
<1> SUFFICES ASSUME NEW h \in Handlers, NEW i \in InvitesOf(m), PairSpent(h, i)
             PROVE  i \in InvitesOf(m)' /\ PairSpent(h, i)'
  BY DEF Spent, PairSpent
<1>1. i \in InviteIds /\ Issued(i)
  BY DEF InvitesOf
<1>2. i \in InvitesOf(m)'
  BY <1>1, InvitesStay DEF RowsStay, InvitesOf, Issued, Mailbox
<1>3. QED
  BY <1>1, <1>2, SpentPairStays

\* Every account of a mailbox has spent a pair that was not spent before.
LEMMA AccountsAreSpent ==
  ASSUME IInv, Faults = {}, [Next]_vars, NEW m
  PROVE  \/ AccountsOf(m)' \subseteq AccountsOf(m)
         \/ /\ \E n : AccountsOf(m)' \subseteq AccountsOf(m) \cup {n}
            /\ \E p \in Spent(m)' : p \notin Spent(m)
<1>1. CASE UNCHANGED admins
  BY <1>1 DEF AccountsOf, Members, IsAdmin
<1>2. ASSUME NEW h \in Handlers, Admits(h), calls[h].invite = NULL \/ Inserts(h)
      PROVE  \/ AccountsOf(m)' \subseteq AccountsOf(m)
             \/ /\ \E n : AccountsOf(m)' \subseteq AccountsOf(m) \cup {n}
                /\ \E p \in Spent(m)' : p \notin Spent(m)
  <2>1. PICK c \in Call : c = calls[h]
    BY DEF IInv, TypeOK, AdminServiceTypeOK
  <2>2. c.pc = "create" /\ CallSound(c)
    BY <1>2, <2>1 DEF Admits, IInv, CallsSound
  <2>3. PICK row \in AdminRow : /\ row = NewAdmin(c) /\ row.email = c.email
                                /\ row.is_superadmin <=> IsSuper(c.email)
    BY <2>1, <2>2, NewAdminRow DEF IInv
  <2>4. PICK n \in AdminIds : ~IsAdmin(n) /\ admins' = [admins EXCEPT ![n] = row]
    BY <1>2, <2>1, <2>3 DEF Admits, InsertAdmin
  <2>5. /\ admins'[n] = row
        /\ \A a \in AdminIds \ {n} : admins'[a] = admins[a]
    BY <2>4 DEF IInv, TypeOK, TablesTypeOK
  <2>6. AccountsOf(m)' \subseteq AccountsOf(m) \cup {n}
    BY <2>5 DEF AccountsOf, Members, IsAdmin, Mailbox
  <2>7. CASE c.invite = NULL \/ Mailbox(row.email) # m
    <3>1. row.is_superadmin \/ Mailbox(row.email) # m
      BY <2>2, <2>3, <2>7 DEF CallSound
    <3>2. n \notin AccountsOf(m)'
      BY <2>5, <3>1 DEF AccountsOf, Members, Mailbox
    <3>3. QED
      BY <2>6, <3>2
  <2>8. CASE c.invite # NULL /\ Mailbox(row.email) = m
    <3>1. c.invite \in InvitesOf(m)
      BY <2>2, <2>3, <2>8 DEF Call, CallSound, InviteMatches, InvitesOf
    <3>2. c.invite \in InvitesOf(m)'
      BY <3>1, InvitesStay DEF RowsStay, InvitesOf, Issued, Mailbox
    <3>3. Serves(h, c.invite, "create")
      BY <2>1, <2>2 DEF Serves
    <3>4. calls'[h].pc = "mark" /\ calls'[h].invite = c.invite
      BY <1>2, <2>1, <2>8 DEF Inserts
    <3>5. <<h, c.invite>> \in Spent(m)'
      BY <3>2, <3>4 DEF Spent, Serves
    <3>6. <<h, c.invite>> \notin Spent(m)
      BY <3>3 DEF Spent
    <3>7. QED
      BY <2>6, <3>5, <3>6
  <2>9. QED
    BY <2>7, <2>8
<1>3. InsertsFollowed
  BY EveryStepIsClean DEF CleanStep
<1>4. QED
  BY <1>1, <1>2, <1>3 DEF InsertsFollowed

LEMMA ParametersAreFinite ==
  ASSUME NEW m
  PROVE  /\ IsFiniteSet(AccountsOf(m)) /\ IsFiniteSet(Spent(m)) /\ IsFiniteSet(InvitesOf(m))
         /\ Cardinality(Spent(m)) <= Cardinality(Handlers) * Cardinality(InvitesOf(m))
<1>1. IsFiniteSet(AccountsOf(m))
  BY IdsAreFinite, FS_Subset DEF AccountsOf, Members
<1>2. IsFiniteSet(InvitesOf(m))
  BY IdsAreFinite, FS_Subset DEF InvitesOf
<1>3. /\ IsFiniteSet(Handlers \X InvitesOf(m))
      /\ Cardinality(Handlers \X InvitesOf(m)) = Cardinality(Handlers) * Cardinality(InvitesOf(m))
  BY <1>2, HandlersAreFinite, FS_Product
<1>4. Spent(m) \subseteq Handlers \X InvitesOf(m)
  BY DEF Spent
<1>5. QED
  BY <1>1, <1>2, <1>3, <1>4, FS_Subset

LEMMA OverrunStep ==
  ASSUME IInv, Faults = {}, [Next]_vars, OverrunInv
  PROVE  OverrunInv'
<1> SUFFICES ASSUME NEW m
             PROVE  Cardinality(AccountsOf(m)') <= Cardinality(Spent(m)')
  BY DEF OverrunInv
<1>1. PICK A, B, S, T : A = AccountsOf(m) /\ B = AccountsOf(m)' /\ S = Spent(m) /\ T = Spent(m)'
  OBVIOUS
<1>2. IsFiniteSet(A) /\ IsFiniteSet(S)
  BY <1>1, ParametersAreFinite
<1>3. IsFiniteSet(B) /\ IsFiniteSet(T)
  <2>1. (IsFiniteSet(AccountsOf(m)) /\ IsFiniteSet(Spent(m)))'
    BY ParametersAreFinite, PTL
  <2>2. QED
    BY <1>1, <2>1
<1>4. Cardinality(A) <= Cardinality(S) /\ S \subseteq T
  BY <1>1, SpentStays DEF OverrunInv
<1>5. /\ Cardinality(A) \in Nat /\ Cardinality(B) \in Nat
      /\ Cardinality(S) \in Nat /\ Cardinality(T) \in Nat
      /\ Cardinality(S) <= Cardinality(T)
  BY <1>2, <1>3, <1>4, FS_CardinalityType, FS_Subset
<1>6. CASE B \subseteq A
  <2>1. Cardinality(B) <= Cardinality(A)
    BY <1>2, <1>6, FS_Subset
  <2>2. Cardinality(B) <= Cardinality(T)
    BY <1>4, <1>5, <2>1
  <2>3. QED
    BY <1>1, <2>2
<1>7. ASSUME NEW n, B \subseteq A \cup {n}, NEW p \in T, p \notin S
      PROVE  Cardinality(B) <= Cardinality(T)
  <2>1. Cardinality(B) <= Cardinality(A \cup {n}) /\ Cardinality(A \cup {n}) <= Cardinality(A) + 1
    BY <1>2, <1>5, <1>7, FS_AddElement, FS_Subset, FS_CardinalityType
  <2>2. Cardinality(S \cup {p}) = Cardinality(S) + 1 /\ S \cup {p} \subseteq T
    BY <1>2, <1>4, <1>7, FS_AddElement
  <2>3. Cardinality(S) + 1 <= Cardinality(T)
    BY <1>3, <2>2, FS_Subset
  <2>4. A \cup {n} = A \/ Cardinality(A \cup {n}) = Cardinality(A) + 1
    BY <1>2, FS_AddElement
  <2>5. QED
    BY <1>4, <1>5, <2>1, <2>3, <2>4
<1>8. QED
  BY <1>1, <1>6, <1>7, AccountsAreSpent

LEMMA OverrunIsInvariant ==
  ASSUME Faults = {}
  PROVE  Spec => []OverrunInv
<1>1. Init => OverrunInv
  <2>1. Init => \A m : AccountsOf(m) = {}
    BY DEF Init, TablesInit, AccountsOf, Members, IsAdmin
  <2>2. \A m : Cardinality(Spent(m)) \in Nat
    BY ParametersAreFinite, FS_CardinalityType
  <2>3. QED
    BY <2>1, <2>2, FS_EmptySet DEF OverrunInv
<1>2. IInv /\ OverrunInv /\ [Next]_vars => OverrunInv'
  BY OverrunStep
<1>3. QED
  BY <1>1, <1>2, Invariant, PTL DEF Spec

\* Without faults the check and the mark of an invite, which no transaction
\* holds together, let through at most one account per Register in progress.
THEOREM OverrunIsBounded ==
  ASSUME Faults = {}
  PROVE  Spec => []OverrunBound
<1>1. OverrunInv => OverrunBound
  <2> SUFFICES ASSUME OverrunInv, NEW m
               PROVE  Cardinality(AccountsOf(m))
                        <= Cardinality(Handlers) * Cardinality(InvitesOf(m))
    BY DEF OverrunBound
  <2>1. /\ Cardinality(AccountsOf(m)) \in Nat /\ Cardinality(Spent(m)) \in Nat
        /\ Cardinality(Handlers) \in Nat /\ Cardinality(InvitesOf(m)) \in Nat
    BY ParametersAreFinite, HandlersAreFinite, FS_CardinalityType
  <2>2. PICK k \in Nat : k = Cardinality(Handlers) * Cardinality(InvitesOf(m))
    BY <2>1
  <2>3. Cardinality(Spent(m)) <= k
    BY <2>2, ParametersAreFinite
  <2>4. Cardinality(AccountsOf(m)) <= Cardinality(Spent(m))
    BY DEF OverrunInv
  <2>5. Cardinality(AccountsOf(m)) <= k
    BY <2>1, <2>2, <2>3, <2>4
  <2>6. QED
    BY <2>2, <2>5
<1>2. QED
  BY <1>1, OverrunIsInvariant, PTL

\* What services/admin.py:146 means, an invite for each account, is kept where
\* one Register is served at a time: it is overlapping calls, and only they,
\* that break it when nothing fails.
THEOREM SerialRegistersAdmitOnce ==
  ASSUME Faults = {}, Cardinality(Handlers) = 1
  PROVE  Spec => []OneAccountPerInvite
<1>1. OverrunBound => OneAccountPerInvite
  <2>1. \A m : Cardinality(InvitesOf(m)) \in Nat
    BY ParametersAreFinite, FS_CardinalityType
  <2>2. QED
    BY <2>1 DEF OverrunBound, OneAccountPerInvite
<1>2. QED
  BY <1>1, OverrunIsBounded, PTL

\* What is left of the bound when statements fail and calls are cancelled: the
\* unique index, hence one account of a mailbox for each platform.
THEOREM PlatformsCapAccounts ==
  ASSUME IsFiniteSet(Platforms)
  PROVE  Spec => [](\A m \in Mailboxes : Cardinality(AccountsOf(m)) <= Cardinality(Platforms))
<1>1. ASSUME OneAccountPerPlatform, NEW m
      PROVE  Cardinality(AccountsOf(m)) <= Cardinality(Platforms)
  <2> DEFINE site == [a \in AccountsOf(m) |-> admins[a].platform_id]
  <2>1. site \in [AccountsOf(m) -> Platforms]
    BY <1>1 DEF OneAccountPerPlatform, AccountsOf
  <2>2. \A a, b \in AccountsOf(m) : site[a] = site[b] => a = b
    BY <1>1 DEF OneAccountPerPlatform, AccountsOf
  <2>3. site \in Injection(AccountsOf(m), Platforms)
    BY <2>1, <2>2 DEF Injection, IsInjective
  <2>4. QED
    BY <2>3, FS_Injection
<1>2. OneAccountPerPlatform =>
        \A m \in Mailboxes : Cardinality(AccountsOf(m)) <= Cardinality(Platforms)
  BY <1>1
<1>3. QED
  BY <1>2, SilosHoldOneAccount, PTL
=============================================================================
