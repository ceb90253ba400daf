--------------------------- MODULE PlatformService ---------------------------
(***************************************************************************)
(* platform-service: a superadmin creates and renames platforms, over the  *)
(* `platforms` table of migration 100000.  The token is checked without    *)
(* the database and each call issues one statement, so a call is one step; *)
(* `answered` keeps the last call until its client has read the answer.    *)
(* Get and List only read, and need no token.                              *)
(***************************************************************************)
EXTENDS FiniteSets

CONSTANTS
  PlatformIds,      \* bound: the platform rows that can be inserted
  Names,
  Domains, Lower,   \* what requests name as domain_name, and lower() of it
  Storable,         \* the domains the CHECK valid_domain_name accepts
  SecretConfigured, \* JWT_SECRET is in the environment of the service
  Faults,           \* subset of {"statement"}
  NULL

\* What the authorization header holds: nothing that decodes, a token without
\* is_superadmin, or a superadmin's.
Callers == {"unauthenticated", "other", "superadmin"}

PlatformRow == [name : Names, domain : Domains]
Requests == [name : Names \cup {NULL}, domain : Domains \cup {NULL}]

ASSUME PlatformServiceAssumption ==
  /\ Lower \in [Domains -> Domains]
  /\ Storable \subseteq Domains
  /\ SecretConfigured \in BOOLEAN
  /\ Faults \subseteq {"statement"}
  /\ NULL \notin Names \cup Domains \cup PlatformIds \cup PlatformRow

VARIABLES
  platforms,   \* id -> row, NULL before it is inserted
  answered     \* the call answered last

vars == <<platforms, answered>>

NoCall == [op |-> "none", caller |-> NULL, id |-> NULL, reply |-> "none"]

Call ==
  [op : {"none", "Create", "Update"}, caller : Callers \cup {NULL}, id : PlatformIds \cup {NULL},
   reply : {"none", "OK", "INTERNAL", "UNAUTHENTICATED", "PERMISSION_DENIED",
            "ALREADY_EXISTS", "NOT_FOUND", "UNKNOWN"}]

\* Every variable holds what the code can store there.
TypeOK ==
  /\ platforms \in [PlatformIds -> PlatformRow \cup {NULL}]
  /\ answered \in Call

Init ==
  /\ platforms = [p \in PlatformIds |-> NULL]
  /\ answered = NoCall

IsPlatform(p) == platforms[p] # NULL

Answer(op, caller, id, status) ==
  answered' = [op |-> op, caller |-> caller, id |-> id, reply |-> status]

\* Mutant: the index does not fold case.
ExactConflict(p, domain) ==
  \E q \in PlatformIds \ {p} : IsPlatform(q) /\ platforms[q].domain = domain

\* The unique index on lower(domain_name); p is the row written.
DomainConflict(p, domain) ==
  \E q \in PlatformIds \ {p} : IsPlatform(q) /\ Lower[platforms[q].domain] = Lower[domain]

\* _require_superadmin: what it aborts with, "OK" when it returns the payload.
RequireSuperadmin(caller) ==
  CASE ~SecretConfigured          -> "INTERNAL"
    [] SecretConfigured /\ caller = "unauthenticated" -> "UNAUTHENTICATED"
    [] SecretConfigured /\ caller = "other"           -> "PERMISSION_DENIED"
    [] SecretConfigured /\ caller = "superadmin"      -> "OK"

-----------------------------------------------------------------------------
InsertPlatform(name, domain) ==
  \E p \in PlatformIds :
    /\ ~IsPlatform(p)
    /\ platforms' = [platforms EXCEPT ![p] = [name |-> name, domain |-> domain]]

\* Create validates nothing that can fail: PlatformCreate wants two strings and a
\* dict, which is what a decoded request holds, so its INVALID_ARGUMENT is never
\* sent.  The unique violation is ALREADY_EXISTS, every other error of the
\* database INTERNAL.  A lost connection may hide a commit, and may surface as
\* an exception that has no handler.
Create(caller, name, domain) ==
  LET auth == RequireSuperadmin(caller)
      answer(status) == Answer("Create", caller, NULL, status)
      stored == domain \in Storable /\ ~DomainConflict(NULL, domain)
  IN /\ answered = NoCall
     /\ \/ auth # "OK" /\ answer(auth) /\ UNCHANGED platforms
        \/ auth = "OK" /\ domain \notin Storable /\ answer("INTERNAL") /\ UNCHANGED platforms
        \/ /\ auth = "OK" /\ domain \in Storable /\ DomainConflict(NULL, domain)
           /\ answer("ALREADY_EXISTS")
           /\ UNCHANGED platforms
        \/ auth = "OK" /\ stored /\ answer("OK") /\ InsertPlatform(name, domain)
        \/ /\ "statement" \in Faults /\ auth = "OK"
           /\ answer("INTERNAL") \/ answer("UNKNOWN")
           /\ (stored /\ InsertPlatform(name, domain)) \/ UNCHANGED platforms

\* Mutant: an omitted field is written as NULL.
Verbatim(value, old) == value

\* SET of the fields that are given.
Given(value, old) == IF value = NULL THEN old ELSE value

\* Mutant: the row is inserted anew, under another id.
Replaced(p, r) ==
  [q \in PlatformIds |->
     IF q = p THEN NULL
     ELSE IF q = CHOOSE n \in PlatformIds : n # p
            THEN [name |-> Given(r.name, platforms[p].name),
                  domain |-> Given(r.domain, platforms[p].domain)]
            ELSE platforms[q]]

\* SET of the fields that are given, WHERE id = p.
Changed(p, r) ==
  [platforms EXCEPT ![p].name = Given(r.name, @), ![p].domain = Given(r.domain, @)]

\* Update: no error of the database has a handler.
Update(caller, p, r) ==
  LET auth == RequireSuperadmin(caller)
      answer(status) == Answer("Update", caller, p, status)
      rejected == r.domain # NULL /\ (r.domain \notin Storable \/ DomainConflict(p, r.domain))
  IN /\ answered = NoCall
     /\ \/ auth # "OK" /\ answer(auth) /\ UNCHANGED platforms
        \/ auth = "OK" /\ ~IsPlatform(p) /\ answer("NOT_FOUND") /\ UNCHANGED platforms
        \/ auth = "OK" /\ IsPlatform(p) /\ rejected /\ answer("UNKNOWN") /\ UNCHANGED platforms
        \/ /\ auth = "OK" /\ IsPlatform(p) /\ ~rejected
           /\ answer("OK")
           /\ platforms' = Changed(p, r)
        \/ /\ "statement" \in Faults /\ auth = "OK"
           /\ answer("UNKNOWN")
           /\ \/ IsPlatform(p) /\ ~rejected /\ platforms' = Changed(p, r)
              \/ UNCHANGED platforms

\* The client has read the answer.
Collect ==
  /\ answered # NoCall
  /\ answered' = NoCall
  /\ UNCHANGED platforms

Next ==
  \/ \E c \in Callers :
       \/ \E n \in Names, d \in Domains : Create(c, n, d)
       \/ \E p \in PlatformIds, r \in Requests : Update(c, p, r)
  \/ Collect

Spec == Init /\ [][Next]_vars

-----------------------------------------------------------------------------
(* Properties *)

\* A domain, in any spelling, has one platform: a Create that is retried
\* after its answer was lost does not make a second one, and no Update takes
\* a domain that is in use.
OneDomain ==
  \A p, q \in PlatformIds :
    IsPlatform(p) /\ IsPlatform(q) /\ Lower[platforms[p].domain] = Lower[platforms[q].domain]
      => p = q

\* Admins, invites and users refer to platforms by id: an id keeps naming a
\* platform, one call touches one platform, and only a superadmin's call.
ReferencesStay ==
  [][/\ \A p \in PlatformIds : IsPlatform(p) => IsPlatform(p)'
     /\ \A p, q \in PlatformIds :
          platforms'[p] # platforms[p] /\ platforms'[q] # platforms[q] => p = q
     /\ platforms' # platforms => answered'.caller = "superadmin"]_vars
=============================================================================
