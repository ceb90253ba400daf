----------------------- MODULE PlatformServiceProofs -----------------------
(***************************************************************************)
(* Proofs about PlatformService.  There are two ways to write: inserting a *)
(* row whose domain is in no other, and setting fields of one row under    *)
(* the same condition.  One lemma says what each does to all rows.         *)
(***************************************************************************)
EXTENDS PlatformService, TLAPS

IInv == TypeOK /\ OneDomain

\* What a write may do: rows stay, and at most one of them changes.
OneRowWritten ==
  /\ \A p \in PlatformIds : platforms[p] # NULL => platforms'[p] # NULL
  /\ \A p, q \in PlatformIds :
       platforms'[p] # platforms[p] /\ platforms'[q] # platforms[q] => p = q

Rows == [PlatformIds -> PlatformRow \cup {NULL}]

\* The one row that is written gets a domain no other row has.
LEMMA WriteOneRow ==
  ASSUME IInv, NEW p \in PlatformIds, NEW row \in PlatformRow,
         ~DomainConflict(p, row.domain), platforms' = [platforms EXCEPT ![p] = row]
  PROVE  platforms' \in Rows /\ OneDomain' /\ OneRowWritten
<1>1. platforms \in Rows
  BY DEF IInv, TypeOK, Rows
<1>2. platforms' \in Rows
  BY <1>1 DEF Rows
<1>3. \A q \in PlatformIds : platforms'[q] = IF q = p THEN row ELSE platforms[q]
  BY <1>1 DEF Rows
<1>4. row # NULL
  BY PlatformServiceAssumption
<1>5. OneRowWritten
  BY <1>3, <1>4 DEF OneRowWritten
<1>6. \A q \in PlatformIds \ {p} :
        platforms[q] # NULL => Lower[platforms[q].domain] # Lower[row.domain]
  BY DEF DomainConflict, IsPlatform
<1>7. \A q, s \in PlatformIds :
        /\ platforms[q] # NULL /\ platforms[s] # NULL
        /\ Lower[platforms[q].domain] = Lower[platforms[s].domain]
        => q = s
  BY DEF IInv, OneDomain, IsPlatform
<1>8. OneDomain'
  <2> SUFFICES ASSUME NEW q \in PlatformIds, NEW s \in PlatformIds,
                      platforms'[q] # NULL, platforms'[s] # NULL,
                      Lower[platforms'[q].domain] = Lower[platforms'[s].domain]
               PROVE  q = s
    BY DEF OneDomain, IsPlatform
  <2>1. CASE q = p \/ s = p
    BY <2>1, <1>3, <1>6
  <2>2. CASE q # p /\ s # p
    BY <2>2, <1>3, <1>7
  <2>3. QED BY <2>1, <2>2
<1>9. QED BY <1>2, <1>5, <1>8

LEMMA InsertIsOneRow ==
  ASSUME IInv, NEW name \in Names, NEW domain \in Domains,
         ~DomainConflict(NULL, domain), InsertPlatform(name, domain)
  PROVE  platforms' \in Rows /\ OneDomain' /\ OneRowWritten
<1> DEFINE row == [name |-> name, domain |-> domain]
<1>1. PICK p \in PlatformIds : platforms' = [platforms EXCEPT ![p] = row]
  BY DEF InsertPlatform
<1>2. row \in PlatformRow /\ row.domain = domain
  BY DEF PlatformRow
<1>3. ~DomainConflict(p, row.domain)
  BY <1>2, PlatformServiceAssumption DEF DomainConflict
<1> HIDE DEF row
<1>4. QED BY <1>1, <1>2, <1>3, WriteOneRow

LEMMA ChangeIsOneRow ==
  ASSUME IInv, NEW p \in PlatformIds, NEW r \in Requests, IsPlatform(p),
         r.domain = NULL \/ ~DomainConflict(p, r.domain),
         platforms' = Changed(p, r)
  PROVE  platforms' \in Rows /\ OneDomain' /\ OneRowWritten
<1> DEFINE old == platforms[p]
           row == [name |-> Given(r.name, old.name), domain |-> Given(r.domain, old.domain)]
<1>1. platforms \in Rows /\ old \in PlatformRow
  BY DEF IInv, TypeOK, Rows, IsPlatform
<1>2. /\ r.name \in Names \cup {NULL} /\ r.domain \in Domains \cup {NULL}
      /\ old.name \in Names /\ old.domain \in Domains
  BY <1>1 DEF Requests, PlatformRow
<1>3. row \in PlatformRow
  BY <1>2 DEF PlatformRow, Given
<1>4. old = [name |-> old.name, domain |-> old.domain]
  BY <1>1 DEF PlatformRow
<1>5. platforms' = [platforms EXCEPT ![p] = row]
  <2> DEFINE named == [platforms EXCEPT ![p] = [name |-> row.name, domain |-> old.domain]]
  <2>0. \A name : [old EXCEPT !.name = name] = [name |-> name, domain |-> old.domain]
    BY <1>1 DEF PlatformRow
  <2>1. [platforms EXCEPT ![p].name = row.name] = named
    BY <2>0
  <2>2. platforms' = [named EXCEPT ![p].domain = row.domain]
    BY <1>1, <1>4, <2>1 DEF Changed
  <2>3. named[p] = [name |-> row.name, domain |-> old.domain]
    BY <1>1 DEF Rows
  <2>4. [named[p] EXCEPT !.domain = row.domain] = row
    BY <2>3
  <2>5. platforms' = [named EXCEPT ![p] = row]
    BY <2>2, <2>4
  <2>6. QED BY <2>5, <1>1 DEF Rows
<1>6. ~DomainConflict(p, row.domain)
  <2>1. CASE r.domain = NULL
    BY <2>1, <1>1 DEF IInv, OneDomain, DomainConflict, IsPlatform, Given
  <2>2. CASE r.domain # NULL
    BY <2>2 DEF Given
  <2>3. QED BY <2>1, <2>2
<1> HIDE DEF row
<1>7. QED BY <1>3, <1>5, <1>6, WriteOneRow

\* _require_superadmin returns for superadmins only.
LEMMA OnlySuperadminsPass ==
  ASSUME NEW caller \in Callers, RequireSuperadmin(caller) = "OK"
  PROVE  caller = "superadmin"
BY PlatformServiceAssumption DEF Callers, RequireSuperadmin

\* Every step leaves the rows alone, or is a superadmin's write of one row.
LEMMA StepWrites ==
  ASSUME IInv, Next
  PROVE  /\ answered' \in Call
         /\ \/ UNCHANGED platforms
            \/ /\ platforms' \in Rows /\ OneDomain' /\ OneRowWritten
               /\ answered'.caller = "superadmin"
<1>1. CASE Collect
  BY <1>1 DEF Collect, NoCall, Call
<1>2. ASSUME NEW c \in Callers, NEW n \in Names, NEW d \in Domains, Create(c, n, d)
      PROVE  /\ answered' \in Call
             /\ \/ UNCHANGED platforms
                \/ /\ platforms' \in Rows /\ OneDomain' /\ OneRowWritten
                   /\ answered'.caller = "superadmin"
  <2>1. RequireSuperadmin(c) \in {"OK", "INTERNAL", "UNAUTHENTICATED", "PERMISSION_DENIED"}
    BY PlatformServiceAssumption DEF RequireSuperadmin, Callers
  <2>2. answered'.caller = c /\ answered' \in Call
    BY <1>2, <2>1 DEF Create, Answer, Call
  <2>3. \/ UNCHANGED platforms
        \/ RequireSuperadmin(c) = "OK" /\ ~DomainConflict(NULL, d) /\ InsertPlatform(n, d)
    BY <1>2 DEF Create
  <2>4. QED BY <2>2, <2>3, InsertIsOneRow, OnlySuperadminsPass
<1>3. ASSUME NEW c \in Callers, NEW p \in PlatformIds, NEW r \in Requests, Update(c, p, r)
      PROVE  /\ answered' \in Call
             /\ \/ UNCHANGED platforms
                \/ /\ platforms' \in Rows /\ OneDomain' /\ OneRowWritten
                   /\ answered'.caller = "superadmin"
  <2>1. RequireSuperadmin(c) \in {"OK", "INTERNAL", "UNAUTHENTICATED", "PERMISSION_DENIED"}
    BY PlatformServiceAssumption DEF RequireSuperadmin, Callers
  <2>2. answered'.caller = c /\ answered' \in Call
    BY <1>3, <2>1 DEF Update, Answer, Call
  <2>3. \/ UNCHANGED platforms
        \/ /\ RequireSuperadmin(c) = "OK" /\ IsPlatform(p)
           /\ r.domain = NULL \/ ~DomainConflict(p, r.domain)
           /\ platforms' = Changed(p, r)
    BY <1>3 DEF Update
  <2>4. QED BY <2>2, <2>3, ChangeIsOneRow, OnlySuperadminsPass
<1>4. QED BY <1>1, <1>2, <1>3 DEF Next

LEMMA Invariance == Spec => []IInv
<1>1. Init => IInv
  BY DEF Init, IInv, TypeOK, OneDomain, IsPlatform, NoCall, Call
<1>2. IInv /\ [Next]_vars => IInv'
  <2>1. CASE Next
    BY <2>1, StepWrites DEF IInv, TypeOK, OneDomain, IsPlatform, Rows
  <2>2. CASE UNCHANGED vars
    BY <2>2 DEF vars, IInv, TypeOK, OneDomain, IsPlatform
  <2>3. QED BY <2>1, <2>2
<1>3. QED BY <1>1, <1>2, PTL DEF Spec

\* The platforms table and the answers hold what the code can store there.
THEOREM TypeCorrect == Spec => []TypeOK
<1>1. IInv => TypeOK
  BY DEF IInv
<1>2. QED BY <1>1, Invariance, PTL

\* A domain, in any spelling, has at most one platform, whatever is retried.
THEOREM DomainsAreUnique == Spec => []OneDomain
<1>1. IInv => OneDomain
  BY DEF IInv
<1>2. QED BY <1>1, Invariance, PTL

\* Ids that admins, invites and users hold go on naming their platforms.
THEOREM PlatformsStay == Spec => ReferencesStay
<1>1. IInv /\ [Next]_vars =>
        [/\ \A p \in PlatformIds : IsPlatform(p) => IsPlatform(p)'
         /\ \A p, q \in PlatformIds :
              platforms'[p] # platforms[p] /\ platforms'[q] # platforms[q] => p = q
         /\ platforms' # platforms => answered'.caller = "superadmin"]_vars
  <2>1. CASE Next
    BY <2>1, StepWrites DEF OneRowWritten, IsPlatform
  <2>2. CASE UNCHANGED vars
    BY <2>2
  <2>3. QED BY <2>1, <2>2
<1>2. QED BY <1>1, Invariance, PTL DEF Spec, ReferencesStay
=============================================================================
