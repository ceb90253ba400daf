-------------------------- MODULE DirectoryProofs --------------------------
(***************************************************************************)
(* Proofs about Directory: a user that is locked out is shown nothing      *)
(* more, and no read crosses platforms.  Claims agree with rows because    *)
(* neither is_superadmin nor platform_id of a row changes; what is proved  *)
(* is that each path through Get and List decides on them, or on a token,  *)
(* before it shows something.                                              *)
(***************************************************************************)
EXTENDS Directory, TLAPS

\* A superadmin may be shown everything, any other account the accounts of its own
\* platform.  Here a plain user counts like an admin of its platform: what the code
\* says of the two is OnlyAdminsSeeOthers, which it does not keep.
MaySee(me, i) ==
  \/ Records[me].is_superadmin
  \/ i \in Accounts /\ Records[i].platform_id = Records[me].platform_id

TenantsStayApart ==
  \A h \in Readers : \A i \in reads[h].shown :
    LET me == reads[h].caller.sub IN Exists(me) /\ MaySee(me, i)

\* What is known of a read on its way, c the record of its reader.
Sound(c) ==
  /\ c.caller # NULL => Exists(c.caller.sub)
  /\ c.pc \in {"fetch", "authorize"} =>
       /\ c.target \in Ids
       /\ c.table # "admins" => c.caller # NULL
       /\ c.table = "admin_invites" => IsSuperadmin(c.caller)
  /\ c.pc = "authorize" => Records[c.target].table = c.table
  /\ c.pc = "list" =>
       /\ c.caller # NULL
       /\ \/ IsSuperadmin(c.caller)
          \/ c.table # "admin_invites" /\ c.scope = c.caller.platform_id
  /\ c.pc # "done" => c.shown = {}
  /\ \A i \in c.shown :
       c.caller # NULL /\ Exists(c.caller.sub) /\ MaySee(c.caller.sub, i)

IInv ==
  /\ TypeOK
  /\ \A t \in tokens : Exists(t.sub)
  /\ \A h \in Readers : Sound(reads[h])

\* What a token says is what the row says.
LEMMA ClaimsAreRows ==
  ASSUME NEW t \in Claims
  PROVE  /\ t # NULL => t.sub \in Accounts /\ t.sub \in Ids
         /\ IsSuperadmin(t) => Records[t.sub].is_superadmin
         /\ t.platform_id = Records[t.sub].platform_id
         /\ ~IsSuperadmin(t) => t.platform_id # NULL /\ t.platform_id \in PlatformIds
         /\ t.platform_id \in PlatformIds \cup {NULL}
<1>1. PICK i \in Accounts : t = ClaimsOf(i)
  BY DEF Claims
<1>2. i \in Ids /\ Records[i] \in Record
  BY DirectoryAssumption DEF Accounts
<1>3. t.sub = i /\ t.platform_id = Records[i].platform_id
  BY <1>1 DEF ClaimsOf
<1>4. IsSuperadmin(t) <=> Records[i].is_superadmin
  BY <1>1, <1>2, DirectoryAssumption DEF ClaimsOf, IsSuperadmin, Users, Record
<1>5. QED
  BY <1>2, <1>3, <1>4, DirectoryAssumption DEF Record

\* Rows of accounts stay, so what was decided on one stays true.
LEMMA RowsKeepInvariant ==
  ASSUME IInv, tokens' \subseteq Claims, UNCHANGED reads,
         StatusOK',
         \A i \in Accounts : Exists(i) => Exists(i)',
         \A t \in tokens' : Exists(t.sub)'
  PROVE  IInv'
<1>1. \A h \in Readers : Sound(reads[h])'
  <2> TAKE h \in Readers
  <2> DEFINE c == reads[h]
  <2>1. Sound(c) /\ c \in Read
    BY DEF IInv, TypeOK
  <2>2. c.caller # NULL => c.caller \in Claims
    BY <2>1 DEF Read
  <2>3. c.caller # NULL => (Exists(c.caller.sub) => Exists(c.caller.sub)')
    BY <2>2, ClaimsAreRows DEF Exists
  <2>4. c' = c
    OBVIOUS
  <2>5. QED
    BY <2>1, <2>3, <2>4 DEF Sound, MaySee, IsSuperadmin, Exists
<1>2. QED BY <1>1 DEF IInv, TypeOK

\* A step of a read is judged by the record it leaves.
LEMMA ReadKeepsInvariant ==
  ASSUME IInv, NEW h \in Readers, NEW c \in Read, Sound(c),
         reads' = [reads EXCEPT ![h] = c], UNCHANGED <<status, tokens>>
  PROVE  IInv'
<1>1. \A g \in Readers : reads'[g] = IF g = h THEN c ELSE reads[g]
  BY DEF IInv, TypeOK
<1>2. \A g \in Readers : Sound(reads[g])'
  <2> TAKE g \in Readers
  <2>1. CASE g = h
    BY <2>1, <1>1 DEF Sound, Exists
  <2>2. CASE g # h
    BY <2>2, <1>1 DEF Sound, Exists, IInv
  <2>3. QED BY <2>1, <2>2
<1>3. QED BY <1>2 DEF IInv, TypeOK, StatusOK, Exists

Statuses == {"OK", "INVALID_ARGUMENT", "PERMISSION_DENIED", "UNAUTHENTICATED",
             "NOT_FOUND", "INTERNAL", "UNKNOWN"}
Tables == {"admins", "users", "admin_invites"}

\* An answer may show what its caller's row may see.
LEMMA AnswerKeepsInvariant ==
  ASSUME IInv, NEW h \in Readers, NEW st \in Statuses, NEW rows \in SUBSET Ids,
         Answer(h, st, rows), UNCHANGED <<status, tokens>>,
         \A i \in rows : reads[h].caller # NULL /\ MaySee(reads[h].caller.sub, i)
  PROVE  IInv'
<1> DEFINE c == [reads[h] EXCEPT !.pc = "done", !.reply = st, !.shown = rows]
<1>1. reads[h] \in Read /\ Sound(reads[h])
  BY DEF IInv, TypeOK
<1>2. c \in Read /\ c.pc = "done" /\ c.caller = reads[h].caller /\ c.shown = rows
  BY <1>1 DEF Read, Statuses
<1>3. Sound(c)
  BY <1>1, <1>2 DEF Sound
<1>4. reads' = [reads EXCEPT ![h] = c]
  BY DEF Answer, IInv, TypeOK
<1> HIDE DEF c
<1>5. QED BY <1>2, <1>3, <1>4, ReadKeepsInvariant

LEMMA RefuseKeepsInvariant ==
  ASSUME IInv, NEW h \in Readers, NEW st \in Statuses, NEW table \in Tables,
         NEW t \in tokens \cup {NULL}, Refuse(h, table, t, st),
         UNCHANGED <<status, tokens>>
  PROVE  IInv'
<1> DEFINE c == [NoRead EXCEPT !.pc = "done", !.table = table, !.caller = t, !.reply = st]
<1>1. c \in Read
  BY DEF IInv, TypeOK, Read, NoRead, Statuses, Tables
<1>2. Sound(c)
  BY DEF Sound, NoRead, IInv
<1>3. QED BY <1>1, <1>2, ReadKeepsInvariant DEF Refuse

LEMMA SelectKeepsInvariant ==
  ASSUME IInv, NEW h \in Readers, NEW table \in Tables,
         NEW t \in tokens \cup {NULL}, NEW i \in Ids,
         table # "admins" => t # NULL,
         table = "admin_invites" => IsSuperadmin(t),
         Select(h, table, t, i), UNCHANGED <<status, tokens>>
  PROVE  IInv'
<1> DEFINE c == [NoRead EXCEPT !.pc = "fetch", !.table = table, !.caller = t, !.target = i]
<1>1. c \in Read
  BY DEF IInv, TypeOK, Read, NoRead, Tables
<1>2. Sound(c)
  BY DEF Sound, NoRead, IInv
<1>3. QED BY <1>1, <1>2, ReadKeepsInvariant DEF Select

\* The three ways a Get begins.
LEMMA GetKeepsInvariant ==
  ASSUME IInv, NEW h \in Readers, NEW t \in tokens \cup {NULL}, NEW i \in Ids \cup {NULL},
         GetAdmin(h, t, i) \/ GetUser(h, t, i) \/ GetInvite(h, t, i)
  PROVE  IInv'
<1>0. /\ t # NULL => t.sub \in Ids
      /\ UNCHANGED <<status, tokens>>
      /\ "admins" \in Tables /\ "users" \in Tables /\ "admin_invites" \in Tables
      /\ \A st \in {"UNAUTHENTICATED", "PERMISSION_DENIED", "INVALID_ARGUMENT"} : st \in Statuses
  BY ClaimsAreRows DEF IInv, TypeOK, GetAdmin, GetUser, GetInvite, Tables, Statuses
<1>1. CASE GetAdmin(h, t, i)
  <2>1. CASE \E st \in {"UNAUTHENTICATED", "PERMISSION_DENIED"} : Refuse(h, "admins", t, st)
    BY <2>1, <1>0, RefuseKeepsInvariant
  <2>2. CASE i # NULL /\ Select(h, "admins", t, i)
    BY <2>2, <1>0, SelectKeepsInvariant
  <2>3. CASE t # NULL /\ Select(h, "admins", t, t.sub)
    BY <2>3, <1>0, SelectKeepsInvariant
  <2>4. QED BY <1>1, <2>1, <2>2, <2>3 DEF GetAdmin
<1>2. CASE GetUser(h, t, i)
  <2>1. CASE Refuse(h, "users", t, "UNAUTHENTICATED")
    BY <2>1, <1>0, RefuseKeepsInvariant
  <2>2. CASE t # NULL /\ Select(h, "users", t, IF i = NULL THEN t.sub ELSE i)
    <3> DEFINE u == IF i = NULL THEN t.sub ELSE i
    <3>1. u \in Ids
      BY <2>2, <1>0
    <3> HIDE DEF u
    <3>2. Select(h, "users", t, u)
      BY <2>2 DEF u
    <3>3. QED BY <2>2, <3>1, <3>2, <1>0, SelectKeepsInvariant
  <2>3. QED BY <1>2, <2>1, <2>2 DEF GetUser
<1>3. CASE GetInvite(h, t, i)
  <2>1. CASE \E st \in {"UNAUTHENTICATED", "PERMISSION_DENIED", "INVALID_ARGUMENT"} :
               Refuse(h, "admin_invites", t, st)
    BY <2>1, <1>0, RefuseKeepsInvariant
  <2>2. CASE t # NULL /\ IsSuperadmin(t) /\ i # NULL /\ Select(h, "admin_invites", t, i)
    BY <2>2, <1>0, SelectKeepsInvariant
  <2>3. QED BY <1>3, <2>1, <2>2 DEF GetInvite
<1>4. QED BY <1>1, <1>2, <1>3

\* A list goes on only with a scope that its token allows.
LEMMA ListKeepsInvariant ==
  ASSUME IInv, NEW h \in Readers, NEW t \in tokens \cup {NULL},
         NEW p \in PlatformIds \cup {NULL}, NEW table \in Tables, List(h, table, t, p)
  PROVE  IInv'
<1>0. UNCHANGED <<status, tokens>>
  BY DEF List
<1>1. CASE \E st \in {"UNAUTHENTICATED", "PERMISSION_DENIED"} : Refuse(h, table, t, st)
  BY <1>0, <1>1, RefuseKeepsInvariant DEF Statuses
<1>2. CASE /\ t # NULL
           /\ IsSuperadmin(t) \/ table # "admin_invites"
           /\ reads' = [reads EXCEPT ![h] =
                [NoRead EXCEPT !.pc = "list", !.table = table, !.caller = t,
                               !.scope = Scope(t, p)]]
  <2> DEFINE c == [NoRead EXCEPT !.pc = "list", !.table = table, !.caller = t,
                                 !.scope = Scope(t, p)]
  <2>1. t \in Claims /\ Exists(t.sub)
    BY <1>2 DEF IInv, TypeOK
  <2>2. Scope(t, p) \in PlatformIds \cup {NULL}
    BY <2>1, ClaimsAreRows DEF Scope
  <2>3. c \in Read
    BY <2>1, <2>2 DEF Read, NoRead, Tables
  <2>4. Sound(c)
    BY <1>2, <2>1 DEF Sound, NoRead, Scope
  <2>5. QED BY <1>0, <1>2, <2>3, <2>4, ReadKeepsInvariant
<1>3. QED BY <1>1, <1>2 DEF List

\* What a Get shows after the SELECT, and what the rows of a list are.
LEMMA FetchKeepsInvariant ==
  ASSUME IInv, NEW h \in Readers, Fetch(h)
  PROVE  IInv'
<1>0. UNCHANGED <<status, tokens>>
  BY DEF Fetch
<1>1. CASE Answer(h, "NOT_FOUND", {})
  BY <1>0, <1>1, AnswerKeepsInvariant DEF Statuses
<1>2. CASE /\ Records[reads[h].target].table = reads[h].table
           /\ reads' = [reads EXCEPT ![h].pc = "authorize"]
  <2> DEFINE c == [reads[h] EXCEPT !.pc = "authorize"]
  <2>1. reads[h] \in Read /\ Sound(reads[h]) /\ reads[h].pc = "fetch"
    BY DEF IInv, TypeOK, Fetch, At
  <2>2. c \in Read
    BY <2>1 DEF Read
  <2>3. Sound(c)
    BY <2>1, <1>2 DEF Sound, Read
  <2>4. reads' = [reads EXCEPT ![h] = c]
    BY <1>2
  <2>5. QED BY <1>0, <2>2, <2>3, <2>4, ReadKeepsInvariant
<1>3. QED BY <1>1, <1>2 DEF Fetch

LEMMA AuthorizeKeepsInvariant ==
  ASSUME IInv, NEW h \in Readers, Authorize(h)
  PROVE  IInv'
<1> DEFINE c == reads[h]
<1>0. /\ UNCHANGED <<status, tokens>> /\ c.pc = "authorize"
      /\ c \in Read /\ Sound(c)
  BY DEF Authorize, At, IInv, TypeOK
<1>1. CASE \E st \in {"UNAUTHENTICATED", "PERMISSION_DENIED"} : Answer(h, st, {})
  BY <1>0, <1>1, AnswerKeepsInvariant DEF Statuses
<1>2. CASE /\ c.caller # NULL
           /\ c.table = "admin_invites" \/ MayGet(c.caller, c.target)
           /\ Answer(h, "OK", {c.target})
  <2>1. c.caller \in Claims /\ c.target \in Ids /\ Records[c.target].table = c.table
    BY <1>0, <1>2 DEF Read, Sound
  <2>2. CASE IsSuperadmin(c.caller)
    <3>1. MaySee(c.caller.sub, c.target)
      BY <2>1, <2>2, ClaimsAreRows DEF MaySee
    <3>2. QED BY <1>0, <1>2, <2>1, <3>1, AnswerKeepsInvariant DEF Statuses
  <2>3. CASE ~IsSuperadmin(c.caller)
    <3>1. c.table # "admin_invites" /\ c.target \in Accounts
      BY <1>0, <2>1, <2>3 DEF Sound, Accounts
    <3>2. MaySee(c.caller.sub, c.target)
      BY <1>2, <2>1, <2>3, <3>1, ClaimsAreRows DEF MaySee, MayGet
    <3>3. QED BY <1>0, <1>2, <2>1, <3>2, AnswerKeepsInvariant DEF Statuses
  <2>4. QED BY <2>2, <2>3
<1>3. QED BY <1>1, <1>2 DEF Authorize

\* What a list has streamed when it ends or fails.
LEMMA RowsAreScoped ==
  ASSUME IInv, NEW h \in Readers, reads[h].pc = "list",
         NEW st \in Statuses, NEW rows \in SUBSET Matching(reads[h]),
         Answer(h, st, rows), UNCHANGED <<status, tokens>>
  PROVE  IInv'
<1> DEFINE c == reads[h]
<1>1. c \in Read /\ Sound(c)
  BY DEF IInv, TypeOK
<1>3. c.caller # NULL /\ c.caller \in Claims
  BY <1>1 DEF Read, Sound
<1>4. ASSUME NEW i \in rows PROVE MaySee(c.caller.sub, i)
  <2>1. i \in Ids /\ Records[i].table = c.table /\ c.scope \in {NULL, Records[i].platform_id}
    BY DEF Matching
  <2>2. CASE IsSuperadmin(c.caller)
    BY <1>3, <2>2, ClaimsAreRows DEF MaySee
  <2>3. CASE ~IsSuperadmin(c.caller)
    <3>1. c.table # "admin_invites" /\ c.scope = c.caller.platform_id
      BY <1>1, <2>3 DEF Sound
    <3>2. i \in Accounts
      BY <2>1, <3>1 DEF Accounts
    <3>3. QED BY <1>3, <2>1, <2>3, <3>1, <3>2, ClaimsAreRows DEF MaySee
  <2>4. QED BY <2>2, <2>3
<1>5. rows \in SUBSET Ids
  BY DEF Matching
<1>6. QED BY <1>3, <1>4, <1>5, AnswerKeepsInvariant

LEMMA SelectRowsKeepsInvariant ==
  ASSUME IInv, NEW h \in Readers, SelectRows(h) \/ StatementFails(h)
  PROVE  IInv'
<1>1. UNCHANGED <<status, tokens>> /\ {"OK", "INTERNAL", "UNKNOWN"} \subseteq Statuses
  BY DEF SelectRows, StatementFails, Statuses
<1>2. PICK st \in {"OK", "INTERNAL", "UNKNOWN"} :
        \/ Answer(h, st, {})
        \/ reads[h].pc = "list" /\ \E rows \in SUBSET Matching(reads[h]) : Answer(h, st, rows)
  <2>1. CASE SelectRows(h)
    BY <2>1 DEF SelectRows, At
  <2>2. CASE StatementFails(h)
    BY <2>2 DEF StatementFails, At
  <2>3. QED BY <2>1, <2>2
<1>3. CASE Answer(h, st, {})
  BY <1>1, <1>3, AnswerKeepsInvariant
<1>4. CASE reads[h].pc = "list" /\ \E rows \in SUBSET Matching(reads[h]) : Answer(h, st, rows)
  BY <1>1, <1>4, RowsAreScoped
<1>5. QED BY <1>2, <1>3, <1>4

LEMMA ReadStepKeepsInvariant ==
  ASSUME IInv, NEW h \in Readers, ReadStep(h)
  PROVE  IInv'
<1>2. CASE Leave(h)
  <2>1. NoRead \in Read /\ Sound(NoRead)
    BY DEF NoRead, Read, Sound
  <2>2. QED BY <1>2, <2>1, ReadKeepsInvariant DEF Leave
<1>3. QED
  BY <1>2, GetKeepsInvariant, ListKeepsInvariant, FetchKeepsInvariant,
     AuthorizeKeepsInvariant, SelectRowsKeepsInvariant DEF ReadStep, Tables

LEMMA StepKeepsInvariant == IInv /\ [Next]_vars => IInv'
<1> SUFFICES ASSUME IInv, [Next]_vars PROVE IInv'
  OBVIOUS
<1>0. /\ StatusOK
      /\ tokens \subseteq Claims /\ \A t \in tokens : Exists(t.sub) /\ t.sub \in Accounts
  BY ClaimsAreRows, DirectoryAssumption DEF IInv, TypeOK, Claims, ClaimsOf
<1>1. CASE \E i \in Ids : Create(i) \/ SetActive(i) \/ DeleteInvite(i)
  <2>1. StatusOK' /\ UNCHANGED <<tokens, reads>>
    BY <1>0, <1>1 DEF Create, SetActive, DeleteInvite, Turn, StatusOK
  <2>2. \A i \in Accounts : Exists(i) => Exists(i)'
    BY <1>0, <1>1 DEF StatusOK, Create, SetActive, DeleteInvite, Turn, Exists, Accounts, Invites
  <2>3. \A t \in tokens' : Exists(t.sub)'
    <3> SUFFICES ASSUME NEW t \in tokens PROVE Exists(t.sub)'
      BY <2>1
    <3> DEFINE u == t.sub
    <3>1. u \in Accounts /\ Exists(u)
      BY <1>0
    <3>2. QED BY <2>2, <3>1 DEF Exists
  <2>4. QED BY <1>0, <2>1, <2>2, <2>3, RowsKeepInvariant
<1>2. CASE \E i \in Ids : Login(i)
  BY <1>0, <1>2, RowsKeepInvariant DEF Login, Claims, ClaimsOf, Exists, StatusOK
<1>3. CASE \E t \in tokens : ExpireToken(t)
  BY <1>0, <1>3, RowsKeepInvariant DEF ExpireToken, Exists, StatusOK
<1>4. CASE \E h \in Readers : ReadStep(h)
  BY <1>4, ReadStepKeepsInvariant
<1>5. CASE UNCHANGED vars
  BY <1>0, <1>5, RowsKeepInvariant DEF vars, Exists, StatusOK
<1>6. QED BY <1>1, <1>2, <1>3, <1>4, <1>5 DEF Next

LEMMA Invariance == Spec => []IInv
<1>1. Init => IInv
  BY DEF Init, IInv, TypeOK, StatusOK, Sound, NoRead, Read
<1>2. QED BY <1>1, StepKeepsInvariant, PTL DEF Spec

\* Rows, tokens and reads hold what the code can store there.
THEOREM TypeCorrect == Spec => []TypeOK
<1>1. IInv => TypeOK
  BY DEF IInv
<1>2. QED BY <1>1, Invariance, PTL

\* A read that has passed its check, or shows something, is not of a user that
\* was locked out.
LEMMA ReadKeepsLockout ==
  ASSUME IInv, NEW u \in Users, LockedOut(u), NEW h \in Readers, NEW c,
         PassedCheck(c) => c.caller.sub # u,
         c.shown # {} => c.caller.sub # u,
         reads' = [reads EXCEPT ![h] = c], UNCHANGED <<status, tokens>>
  PROVE  /\ LockedOut(u)'
         /\ \A g \in Readers :
              reads'[g].shown # {} /\ reads'[g].caller.sub = u => reads'[g] = reads[g]
<1>1. \A g \in Readers : reads'[g] = IF g = h THEN c ELSE reads[g]
  BY DEF IInv, TypeOK
<1>2. \A g \in Readers : PassedCheck(reads'[g]) => reads'[g].caller.sub # u
  BY <1>1 DEF LockedOut
<1>3. status' = status /\ tokens' = tokens
  OBVIOUS
<1>4. LockedOut(u)'
  BY <1>2, <1>3 DEF LockedOut, PassedCheck
<1>5. QED BY <1>1, <1>4

\* A read begins with a token that decodes, or is a Get of admins, which has yet
\* to decode one.
LEMMA BeginKeepsLockout ==
  ASSUME IInv, NEW u \in Users, LockedOut(u), NEW h \in Readers,
         NEW t \in tokens \cup {NULL},
         \/ \E i \in Ids \cup {NULL} : GetAdmin(h, t, i) \/ GetUser(h, t, i) \/ GetInvite(h, t, i)
         \/ \E p \in PlatformIds \cup {NULL}, table \in Tables : List(h, table, t, p)
  PROVE  /\ LockedOut(u)'
         /\ \A g \in Readers :
              reads'[g].shown # {} /\ reads'[g].caller.sub = u => reads'[g] = reads[g]
<1>1. UNCHANGED <<status, tokens>>
  BY DEF GetAdmin, GetUser, GetInvite, List
<1>2. t # NULL => t.sub # u
  BY DEF LockedOut
<1>3. CASE \E table \in Tables, st \in Statuses : Refuse(h, table, t, st)
  <2>1. PICK table \in Tables, st \in Statuses : Refuse(h, table, t, st)
    BY <1>3
  <2> DEFINE c == [NoRead EXCEPT !.pc = "done", !.table = table, !.caller = t, !.reply = st]
  <2>2. c.pc = "done" /\ c.shown = {}
    BY DEF NoRead
  <2>3. reads' = [reads EXCEPT ![h] = c]
    BY <2>1 DEF Refuse
  <2> HIDE DEF c
  <2>4. QED BY <1>1, <2>2, <2>3, ReadKeepsLockout DEF PassedCheck
<1>4. CASE \E i, table : Select(h, table, t, i) /\ (table # "admins" => t # NULL)
  <2>1. PICK i, table : Select(h, table, t, i) /\ (table # "admins" => t # NULL)
    BY <1>4
  <2> DEFINE c == [NoRead EXCEPT !.pc = "fetch", !.table = table, !.caller = t, !.target = i]
  <2>2. c.shown = {} /\ c.caller = t /\ c.table = table /\ c.pc = "fetch"
    BY DEF NoRead
  <2>3. reads' = [reads EXCEPT ![h] = c]
    BY <2>1 DEF Select
  <2> HIDE DEF c
  <2>4. QED BY <1>1, <1>2, <2>1, <2>2, <2>3, ReadKeepsLockout DEF PassedCheck
<1>5. CASE \E p, table : /\ t # NULL
                         /\ reads' = [reads EXCEPT ![h] =
                              [NoRead EXCEPT !.pc = "list", !.table = table, !.caller = t,
                                             !.scope = Scope(t, p)]]
  <2>1. PICK p, table : reads' = [reads EXCEPT ![h] =
          [NoRead EXCEPT !.pc = "list", !.table = table, !.caller = t, !.scope = Scope(t, p)]]
    BY <1>5
  <2> DEFINE c == [NoRead EXCEPT !.pc = "list", !.table = table, !.caller = t,
                                 !.scope = Scope(t, p)]
  <2>2. c.shown = {} /\ c.caller = t
    BY DEF NoRead
  <2>3. reads' = [reads EXCEPT ![h] = c]
    BY <2>1
  <2> HIDE DEF c
  <2>4. QED BY <1>1, <1>2, <1>5, <2>2, <2>3, ReadKeepsLockout
<1>6. QED
  BY <1>3, <1>4, <1>5 DEF GetAdmin, GetUser, GetInvite, List, Tables, Statuses

\* What follows shows rows to a caller whose token was decoded in time only.
LEMMA GoOnKeepsLockout ==
  ASSUME IInv, NEW u \in Users, LockedOut(u), NEW h \in Readers,
         Fetch(h) \/ Authorize(h) \/ SelectRows(h) \/ StatementFails(h) \/ Leave(h)
  PROVE  /\ LockedOut(u)'
         /\ \A g \in Readers :
              reads'[g].shown # {} /\ reads'[g].caller.sub = u => reads'[g] = reads[g]
<1> DEFINE r == reads[h]
<1>1. UNCHANGED <<status, tokens>> /\ r \in Read /\ Sound(r)
  BY DEF Fetch, Authorize, SelectRows, StatementFails, Leave, IInv, TypeOK
<1>2. PassedCheck(r) => r.caller.sub # u
  BY DEF LockedOut
<1>3. CASE \E st \in Statuses : Answer(h, st, {})
  <2>1. PICK st \in Statuses : Answer(h, st, {})
    BY <1>3
  <2> DEFINE c == [r EXCEPT !.pc = "done", !.reply = st, !.shown = {}]
  <2>2. c.pc = "done" /\ c.shown = {}
    BY <1>1 DEF Read
  <2>3. reads' = [reads EXCEPT ![h] = c]
    BY <2>1 DEF Answer, IInv, TypeOK
  <2> HIDE DEF c
  <2>4. QED BY <1>1, <2>2, <2>3, ReadKeepsLockout DEF PassedCheck
<1>4. CASE r.caller.sub # u /\ \E st \in Statuses, rows \in SUBSET Ids : Answer(h, st, rows)
  <2>1. PICK st \in Statuses, rows \in SUBSET Ids : Answer(h, st, rows)
    BY <1>4
  <2> DEFINE c == [r EXCEPT !.pc = "done", !.reply = st, !.shown = rows]
  <2>2. c.caller = r.caller
    BY <1>1 DEF Read
  <2>3. reads' = [reads EXCEPT ![h] = c]
    BY <2>1 DEF Answer, IInv, TypeOK
  <2> HIDE DEF c
  <2>4. QED BY <1>1, <1>4, <2>2, <2>3, ReadKeepsLockout
<1>5. CASE Fetch(h) /\ reads' = [reads EXCEPT ![h].pc = "authorize"]
  <2> DEFINE c == [r EXCEPT !.pc = "authorize"]
  <2>1. /\ c.pc = "authorize" /\ c.caller = r.caller /\ c.table = r.table
        /\ c.shown = r.shown /\ r.pc = "fetch"
    BY <1>1, <1>5 DEF Read, Fetch, At
  <2>2. c.shown = {} /\ (PassedCheck(c) => PassedCheck(r))
    BY <1>1, <2>1 DEF Sound, PassedCheck
  <2>3. reads' = [reads EXCEPT ![h] = c]
    BY <1>5
  <2> HIDE DEF c
  <2>4. QED BY <1>1, <1>2, <2>1, <2>2, <2>3, ReadKeepsLockout
<1>6. CASE Leave(h)
  BY <1>1, <1>6, ReadKeepsLockout DEF Leave, NoRead, PassedCheck
<1>7. CASE Fetch(h)
  BY <1>3, <1>5, <1>7 DEF Fetch, Statuses
<1>8. CASE Authorize(h)
  <2>1. r.pc = "authorize"
    BY <1>8 DEF Authorize, At
  <2>2. CASE /\ r.caller # NULL /\ (r.table = "admins" => r.caller \in tokens)
             /\ Answer(h, "OK", {r.target})
    <3>1. r.caller.sub # u
      BY <1>2, <2>1, <2>2 DEF PassedCheck, LockedOut
    <3>2. {r.target} \in SUBSET Ids
      BY <1>1, <2>1 DEF Sound
    <3>3. QED BY <1>4, <2>2, <3>1, <3>2 DEF Statuses
  <2>3. CASE \E st \in Statuses : Answer(h, st, {})
    BY <1>3, <2>3
  <2>4. QED BY <1>8, <2>2, <2>3 DEF Authorize, Statuses
<1>9. CASE SelectRows(h) \/ StatementFails(h)
  <2>1. CASE r.pc = "list"
    <3>1. r.caller.sub # u
      BY <1>2, <2>1 DEF PassedCheck
    <3>2. \E st \in Statuses, rows \in SUBSET Ids : Answer(h, st, rows)
      BY <1>9 DEF SelectRows, StatementFails, Statuses, Matching
    <3>3. QED BY <1>4, <3>1, <3>2
  <2>2. CASE r.pc # "list"
    BY <1>3, <1>9, <2>2 DEF SelectRows, StatementFails, At, Statuses
  <2>3. QED BY <2>1, <2>2
<1>10. QED BY <1>6, <1>7, <1>8, <1>9

\* For every population of the tables and any number of reads in progress: a user
\* that is deactivated and has neither a token nor a read past its check gets
\* neither back, and is shown nothing more, before it is activated again.
THEOREM LockoutIsKept == Spec => LockoutHolds
<1> DEFINE Kept(u) ==
      /\ LockedOut(u)' \/ status'[u] = "active"
      /\ \A h \in Readers :
           reads'[h].shown # {} /\ reads'[h].caller.sub = u => reads'[h] = reads[h]
<1>1. IInv /\ [Next]_vars => [\A u \in Users : LockedOut(u) => Kept(u)]_vars
  <2> SUFFICES ASSUME IInv, [Next]_vars, NEW u \in Users, LockedOut(u) PROVE Kept(u)
    OBVIOUS
  <2>0. /\ status \in [Ids -> {"absent", "active", "inactive", "deleted"}]
        /\ status[u] = "inactive" /\ u \in Ids /\ \A t \in tokens : t.sub # u
    BY DEF IInv, TypeOK, StatusOK, LockedOut, Users
  <2>1. CASE \E i \in Ids : Create(i) \/ SetActive(i) \/ DeleteInvite(i)
    <3>1. UNCHANGED <<tokens, reads>> /\ status'[u] \in {"inactive", "active"}
      BY <2>0, <2>1 DEF Create, SetActive, DeleteInvite, Turn
    <3>2. QED BY <3>1 DEF LockedOut, PassedCheck
  <2>2. CASE \E i \in Ids : Login(i)
    <3>1. /\ UNCHANGED <<status, reads>>
          /\ \A t \in tokens' : t.sub # u
      BY <2>0, <2>2 DEF Login, ClaimsOf
    <3>2. QED BY <3>1 DEF LockedOut, PassedCheck
  <2>3. CASE \E t \in tokens : ExpireToken(t)
    <3>1. /\ UNCHANGED <<status, reads>>
          /\ \A t \in tokens' : t.sub # u
      BY <2>0, <2>3 DEF ExpireToken
    <3>2. QED BY <3>1 DEF LockedOut, PassedCheck
  <2>4. CASE \E h \in Readers : ReadStep(h)
    BY <2>4, BeginKeepsLockout, GoOnKeepsLockout DEF ReadStep, Tables
  <2>5. CASE UNCHANGED vars
    BY <2>5 DEF vars, LockedOut, PassedCheck
  <2>6. QED BY <2>1, <2>2, <2>3, <2>4, <2>5 DEF Next
<1>2. QED BY <1>1, Invariance, PTL DEF Spec, LockoutHolds

\* For every population of the tables and any number of reads in progress, Get
\* and List show no account a row of another platform, and nobody but
\* superadmins an invite.
THEOREM ReadsAreScoped == Spec => []TenantsStayApart
<1>1. IInv => TenantsStayApart
  BY DEF IInv, Sound, TenantsStayApart
<1>2. QED BY <1>1, Invariance, PTL
=============================================================================
