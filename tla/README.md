# Platform microservices in TLA+

This directory specifies the platform microservices of this repository in TLA+:
how platforms, admins, invites and users come into being and change when several
gRPC calls, several services and failures interleave over one PostgreSQL database.
TLC checks small instances; TLAPS proves the central theorems for all of them.

Paths below are relative to the root of the repository.

## 1. The system

### Components

| part | state it keeps | operations | in the model |
|---|---|---|---|
| `db-service` | the tables `platforms`, `admins`, `admin_invites`, `users` with their CHECKs, foreign keys and unique indices | migrations | `Tables`, and the table parts of `UserService` and `PlatformService` |
| `admin-service` | none of its own; signs tokens | Register, Login, Get, Update, List | `AdminService`; Get and List in `Directory` and `Paging` |
| `admin-invite-service` | none of its own; verifies tokens | Create, Get, Delete, List | `AdminInviteService`; Get and List in `Directory` and `Paging` |
| `user-service` | none of its own; signs and verifies tokens | Register, Login, Get, Update, List | `UserService`; Get and List in `Directory` and `Paging` |
| `platform-service` | none of its own; verifies tokens | Create, Get, Update, List | `PlatformService`; the pages of List in `Paging` |
| connection pool (`app/db/pool.py` of every service) | an asyncpg pool of ten connections | setup, acquire, release, close | `ConnectionPool` |
| server start and stop (`app/server.py`) | the gRPC server, the calls in progress | serve, stop(grace=5), close | `ServerLifecycle` |
| `proxy-service` | Envoy configuration | route by path prefix | not modelled |
| logging, traces, metrics, generated stubs | – | – | not modelled |

### How the parts interact

The services never call each other. They share

* **tables**: `admin-invite-service` inserts and deletes rows of `admin_invites`;
  `admin-service` reads such a row in Register, inserts an admin, and marks the row
  used. Rows of `admins`, `admin_invites` and `users` refer to `platforms`, and
  invites refer to the admin who issued them.
* **tokens**: HS256 tokens with a common secret. `admin-service` signs what it read
  from the row at Login; the other services believe the claims and do not read the
  row.

Each service is one asyncio process. A handler runs alone until it awaits, and what
it awaits is a statement in a transaction of its own. So the hard behaviour is what
happens *between two statements of one handler*: other calls of the same service,
calls of the other services, a statement that raises (perhaps after its commit), or
the end of the task (the client is gone, the deadline passed, the process died).

| where | the two steps | what may come between |
|---|---|---|
| `AdminService._register` | read the invite; insert the admin; mark the invite | another Register on the same invite; Delete and Create of the invite; a crash; a failing mark |
| `UserService.Update` | read and authorize; write | other updates of the row, Register of the same mailbox |
| `*Table.update` with nothing to set | acquire a connection; acquire another | every other call doing the same |
| a token | Login; use | changes of the row the claims were read from |
| `AdminService.Get` | (decode the token;) select the row; decode the token | the token expires |
| List with limit and offset | one page; the next | inserts, deletes, updates of the column the rows are ordered by |
| a cancelled call | the task is cancelled; its connections are back in the pool | ROLLBACK and reset at Postgres; the finalizer of the generators a stream leaves |
| `serve` | the grace period ends; the pool is closed | the tasks of the aborted calls, which still hold connections |

### What makes each part correct

* Onboarding: only invited mailboxes get accounts; an invite is used up exactly when
  it admitted somebody; one superadmin; one account per mailbox and platform; what a
  client is told is true; claims agree with rows.
* Users: one account per mailbox; the authorization of an update holds when the write
  happens; overlapping updates do not undo each other; only admins switch accounts.
* Platforms: one platform per domain; ids stay valid; only superadmins write.
* Pool: no connection is lost or returned twice, however a call ends; nobody waits
  for ever.
* Process: the pool is not closed under a call that may go on; a stop ends.
* Reads: a read shows an account what its role may see; deactivation takes effect, and
  whoever is locked out stays so; who reads all pages misses no more than what moved
  while it read.

## 2. Modules

In the order they were planned and written.

| module | what it is |
|---|---|
| `Tables` | `admins` and `admin_invites`: rows, constraints, and one operator per SQL statement |
| `AdminService` | one action per statement of Register, Login and Update; `calls` is what each task remembers across an await, `tokens` the claims that decode |
| `AdminInviteService` | Create and Delete, one step each; `inviteCall` holds the last answer |
| `Onboarding` | composes the two over the shared tables; properties, fairness, the refinement mapping |
| `InviteGate` | the abstract promise of onboarding |
| `ConnectionPool` | calls that hold none, one or two connections, and the generators that outlive a call |
| `ServerLifecycle` | the process around the pool: start, SIGINT, grace period, close, kill |
| `UserService` | Register, Login, Update of users over `users` |
| `PlatformService` | Create and Update of platforms over `platforms` |
| `Directory` | Get and List of accounts and invites: what is decided on which token and which row |
| `Paging` | a client that reads a table page by page beside its writers |
| `MCOnboarding`, `MCUserService`, `MCPlatformService`, `MCDirectory`, `MCPaging` | request sets, tables and symmetries for TLC |
| `OnboardingProofs`, `OverrunProofs`, `GateProofs`, `UserServiceProofs`, `LifecycleProofs` (also of the pool), `PlatformServiceProofs`, `DirectoryProofs`, `PagingProofs` | the proofs |

### Correspondence

* **A row** is a record of the fields some decision reads. Names, `properties` and
  timestamps of admins are left out; `valid` in a request says whether the fields
  that are left out pass pydantic. Users keep one name and a password, because an
  update that loses one of them is what `NoLostUpdate` is about; `last_name` behaves
  like `first_name`. Row ids stand for `gen_random_uuid()`. Deleted invites keep
  a tombstone, so that an id is never given twice and history can be spoken of.
* **Letter case** is in the model: `Lower` is `lower(email)`, and "Bob" and "bob" are
  one mailbox. Indices and lookups fold case, exactly where the SQL does.
* **The unique indices** are guards of the inserting statement: `AdminConflict` has
  the two partial indices of migration 100001, `InviteConflict` the global index of
  100002 (it covers used invites, so a mailbox is invited anew only after a Delete),
  `EmailConflict` the global index of 100003.
* **Statuses** are those the handler aborts with. An exception without a handler is
  what gRPC makes of it, `UNKNOWN`. The `error` member that Delete returns
  in an OK response is written `NOT_FOUND`.
* **Faults** are a constant set. `"statement"`: a statement raises, and an INSERT or
  UPDATE may have been committed all the same. `"cancel"`: the task ends where it
  awaits. There are no message losses beyond these two: a lost request was never
  received, a lost answer is one nobody collects.
* **Time** is not modelled: `ExpireToken` lets a token expire at any moment.
* **A call that ends early** leaves each `async with` it is in, and Postgres answers a
  ROLLBACK and a reset before the connection is back: `Cancel` only begins that, and
  `Release` is the answer. A List that is cancelled while the server sends a row is
  suspended at its `yield` and is not told: its task ends (`LeaveStream`), and the
  generators of the handler and of the table keep their connection (`orphans`) until the
  event loop finalizes them (`Finalize`). `aborted` are the calls that were cancelled,
  by their client or by `server.stop`, and whose task has not ended.
* **The process** (`ServerLifecycle`) extends `ConnectionPool`: a call is accepted,
  uses the pool any number of times, and ends; `phase` says where `serve` is. What the
  libraries do is taken from their documentation: `grpc.aio`'s `stop(grace)` accepts no
  new call, waits for those in progress, cancels them when the time is up, and may
  return before the cancelled tasks have run; asyncpg's `pool.close()` waits until every
  connection was given back. `asyncio.run` turns the first SIGINT into a cancellation of
  `serve`. SIGTERM, a second SIGINT and everything else that ends the process is `Kill`.
* **Reads** (`Directory`) have tables of their own. Of a row only its table,
  `is_superadmin` and `platform_id` decide who sees it, and none of the three ever
  changes, so they are a constant function of the id; `status` says whether the row is
  there and active. A list that fails has perhaps streamed some of its rows. That the claims of a token are those of the row is what `Onboarding`
  and `UserService` prove (`TokensMatchRows`, `TokensKeepTheirScope`).
* **Pages** (`Paging`) are sets: `before` is what OFFSET skips, `page` what LIMIT
  returns, and the keys in `before` are no greater than those in `page`, nor these than
  those after it. Nothing else constrains the order of rows with equal keys.
* **Login** refuses missing credentials and a missing or malformed `platform_id` before
  it looks at the table (`BadLogin`, `Scoped`), and answers `INTERNAL` when it comes to
  sign and there is no `JWT_SECRET` (`SecretConfigured`). Without the secret no token is
  ever signed, and calls that need one change nothing; the runs have it, the proofs do
  not ask.
* **Create of platforms** has no `INVALID_ARGUMENT`: `PlatformCreate` wants two strings
  and a dict, which is what a decoded request holds, so that its `ValidationError`
  (`platform-service/app/services/platform.py:204`) cannot be raised.
* **Update of admins** never changes a row: `AdminTable.update` builds `AdminRead`
  inside the transaction from the JSON text asyncpg returns for `properties`, pydantic
  rejects it, the transaction rolls back and the call ends in `UNKNOWN`. The unit
  tests of the repository replace the table with a double and do not meet it.
  `UpdateAdmin` models the code as it is. `TokensMatchRows` rests on it: once Update
  commits, tokens can be stale, which its mutant shows.

## 3. Runs

| run | module | what it checks | expected |
|---|---|---|---|
| `onboarding` | `MCOnboarding` | `OverrunBound`, `AnsweredInvitesAdmitNobody`, `AdmissionConsumesInvite`: without faults an invite admits at most one account per overlapping call, lets nobody through the check any more once its Register was answered, and gets marked | holds |
| `faults` | `MCOnboarding` | `InvitedBeforeAdmitted`, `UsedInviteHasAccount`, `OneSuperadmin`, `OneAccountPerPlatform`, `RepliesTellTheTruth`, and the refinement `KeepsTheGate`, with both faults | holds |
| `requests` | `MCOnboarding` | `TypeOK`, `OneAccountPerPlatform`, `TokensMatchRows`, `InvitersAreSuperadmins`, with everything a client can send wrong | holds |
| `users` | `MCUserService` | `TypeOK`, `OneAccountPerMailbox`, `WritesStayAuthorized`, `TokensKeepTheirScope`, `OnlyAdminsSwitchAccounts`, `NoLostUpdate`, with faults | holds |
| `platforms` | `MCPlatformService` | `TypeOK`, `OneDomain`, `ReferencesStay` | holds |
| `lifecycle` | `ServerLifecycle` | of the pool `TypeOK`, `ConnectionsConserved`, `NotBlocked`, `OnlyCancelUnblocks`; of the process `LifeTypeOK`, `GraceIsKept`, `ClosingOnlyDrains` and `ShutdownEnds` | holds |
| `directory` | `MCDirectory` | `TypeOK`, `LockoutHolds`, `DeactivationTakesEffect`: a user who stays deactivated ends up without a token, and from then on no read shows it anything, not one that began in time either | holds |
| `paging` | `MCPaging` | `MissesAreBounded` | holds |
| `single_use` | `MCOnboarding` | `OneAccountPerInvite` | violated |
| `update` | `MCOnboarding` | `UpdateReturnsTheRecord` | violated |
| `pool_blocked` | `ConnectionPool` | `UpdateReturns` | violated |
| `plain_user` | `MCDirectory` | `OnlyAdminsSeeOthers` | violated |

Every property of a passing run is broken by some plausible change of the code; these
variants stand in the modules, marked "Mutant", before the definition they vary.

### Where code and documentation disagree

* `single_use`. "Otherwise require an unused invite row for that email"
  (`admin-service/app/services/admin.py:146`). Two Register calls for two platforms
  find the same invite unused and both create an account. The unique index prevents
  it only for one platform. For the same reason an invite that is deleted after it was
  read still admits. What does hold is `OverrunBound`: at most one account per
  overlapping call and invite, hence one when calls do not overlap
  (`SerialRegistersAdmitOnce`). Once the first call was answered the check lets nobody
  else through (`AnsweredInvitesAdmitNobody`), but a call that had passed it by then
  goes on to its account. One of the two accounts is on a platform that the invite does
  not name, since Register never compares the two, although it is to use "the invite
  email and `platform_id`" (`README.md:178`).
* `update`. "Apply partial updates to an admin and return the updated record"
  (`admin-service/app/db/tables/admin.py:264`); see above.
* `pool_blocked`. `update` with nothing to set awaits `self.get(id)` with a connection
  in hand. As many such calls as the pool has connections wait for each other without
  a timeout. With fewer calls in progress than connections it cannot happen
  (`NotBlocked`); once it has happened only the end of a waiting update, or of the
  process, resolves it (`OnlyCancelUnblocks`). A stop of the server does
  (`ShutdownEnds`), since it aborts the waiting calls.
* `plain_user`. "Authorize via helper: allow superadmin, owner, or same-platform admin"
  (`admin-service/app/services/admin.py:882`, `user-service/app/services/user.py:700`;
  the same in the error texts at `admin.py:845` and `user.py:649`). The rule for the
  same platform compares `platform_id` and no role (`admin.py:835`, `user.py:637`), and
  the role check before it lets a token without a role pass; such is the token that
  Login of `user-service` signs. So a plain user may Get every account of its platform,
  through both services. `test_get_forbidden_for_user_role`
  (`user-service/tests/test_user_service_unit.py:653`) uses a token with the role
  "user", which no Login signs. What does hold is that no read crosses platforms
  (`ReadsAreScoped`).

Noticed while reading, without a run: Delete of an invite does not read the
`platform_id` that "must be provided to scope the delete operation"
(`admin-invite-service/app/proto/admin_invite.proto:62`); the comment "Only superadmin may change is_active on
behalf of others" (`user-service/app/services/user.py:783`) stands before code that lets
an admin of the user's platform do it too (`user.py:804-835`, whose own comment says
that admins "may only change `is_active`"), and `OnlyAdminsSwitchAccounts` says what the
code does; List orders by one column without
a tie-breaker, so that of rows that are equal in it some may be on no page even when
nothing is written, which is why `MissesAreBounded` speaks of the others;
`docker-compose.yml` starts `platform-service`
without `JWT_SECRET`, so that Create and Update answer `INTERNAL` even to a superadmin
(`RequireSuperadmin` has the branch); it also sets `SUPER_ADMIN_EMAIL` to another
domain than the one `admin-service/README.md` registers; and `user.proto` declares package `admin` while Envoy routes
`/user.UserService`. When `mark_used` raises, Register logs it and answers OK with the
invite still open (`StatementFails`): then another Register of the mailbox is admitted,
on another platform (`OneAccountPerPlatform`, checked with faults), which is why
`OverrunBound` and `AnsweredInvitesAdmitNobody` are stated where no statement fails.

### Bounds

* Onboarding: one invitable mailbox in two spellings and the superadmin. Mailboxes
  interact only through equality, so a second invitable one adds no conflict; that the
  superadmin's mailbox may be invited too is in `faults` and `requests`. Two overlapping calls show
  every race between two statements. Two platforms let one mailbox hold two accounts;
  `onboarding` has three, so that three accounts could stand against the two that
  `OverrunBound` allows for one invite. Two invites let one be deleted and issued
  anew, in `faults` and `requests`. `AdminIds` has room for every account the mailboxes can get, so it prunes
  nothing; `InviteIds` bounds how often an invite is issued anew.
* `requests` has one call at a time: its question is what single requests do.
* `onboarding` has one invite for one of its platforms, since Register never reads for
  which, and no symmetry, since it checks a liveness property.
* `users`: two users, two mailboxes (one in two spellings), three platform ids of which
  two exist, two overlapping calls. A conflict involves two rows and two calls.
* `platforms`: three rows, three spellings of two domains, one domain the CHECK refuses.
* `lifecycle`: three calls, two connections, so that two updates can block the pool
  while a third call waits for it, and a pool that is not blocked is often full. The
  proofs cover every other size.
* `directory` and `plain_user`: a superadmin, an admin, a user of the admin's platform, one of another
  platform, and an invite. A read changes nothing, so reads do not disturb each other
  and one at a time shows all there is.
* `paging`: any table of up to five rows, pages of two, so that three pages are read;
  two deletions or moves at any place, and any number of inserts.

Deadlock is checked in every passing run.

### Fairness

`FairSpec` of `Onboarding` has weak fairness on the steps a handler takes when its
statement was answered (`HandlerStep`): the event loop resumes it, and a running
database answers. Nothing is assumed of clients, of Delete, or of the order in which
handlers are resumed. `FairSpec` of `ConnectionPool` has strong fairness per handler,
because asyncpg serves waiting tasks in turn and clients read their streams to the end;
the counterexample of `pool_blocked` holds although fairness is that strong.

`LifeFairSpec` assumes what the stop itself needs: the timer of the grace period fires,
`stop` returns, cancelled tasks run, the event loop finalizes the generators that
cancelled streams left, and `close` notices that all connections are back. Of Postgres
it assumes that it answers the ROLLBACK and the reset with which a cancelled call gives
a connection back; that it answers anything else, that handlers go on or that clients
read is not assumed, and no fairness makes an operator start or interrupt a process. `FairSpec` of `Directory` lets every token expire
some day, because both Logins set `exp`.

## 4. Proofs

TLAPS proves, for every number of mailboxes, platforms, calls, rows and connections,
and with every set of faults where no other is named:

| module | theorems |
|---|---|
| `OnboardingProofs` | `TypeCorrect`, `OnlyInvitedAreAdmitted`, `InvitesAreNotWasted`, `SuperadminIsUnique`, `SilosHoldOneAccount`, `AnswersAreTrue`, `ClaimsAreCurrent`, `OnlySuperadminsInvite`, `RowsStand` |
| `OverrunProofs` | where no statement fails: `AnsweredInvitesAreClosed`; without faults: `OverrunIsBounded`, `SerialRegistersAdmitOnce`; with all of them: `InvitesDoNotReopen`, `PlatformsCapAccounts` |
| `GateProofs` | `OnboardingKeepsTheGate`: `Onboarding` implements `InviteGate`; `GateIsSafe`, `OnboardingIsSafe` |
| `UserServiceProofs` | `TypeCorrect`, `MailboxesAreUnique`, `ChecksStayValid`, `ScopesAreCurrent`, `UpdatesSurvive`, `OthersSwitchAccounts`, `RowsStand` |
| `LifecycleProofs` | of `ConnectionPool`: `PoolTypeCorrect`, `Conservation`, `NoBlockade`, `BlockedPoolStaysBlocked`; of `ServerLifecycle`: `PoolSurvivesRestarts`, `OnlyAbortsUnblock`, `LifeTypeCorrect`, `StopKeepsGrace`, `StopOnlyDrains` |
| `PlatformServiceProofs` | `TypeCorrect`, `DomainsAreUnique`, `PlatformsStay` |
| `DirectoryProofs` | `TypeCorrect`, `LockoutIsKept`, `ReadsAreScoped` |
| `PagingProofs` | `TypeCorrect`, `FewRowsAreMissed`, `InsertsHideNothing` |

Every invariant and every safety property that a passing run checks is the conclusion
of one of these theorems.

**Onboarding.** `InvitedBeforeAdmitted` is not inductive: when Register inserts the
admin, the invite it read may be used or deleted. The inductive invariant `IInv` adds
`CallsSound`: a call that waits to insert a platform admin remembers an invite that
*was issued* for its mailbox, and a call that waits to mark one has an account to show
for it. Ids are never given twice, so what a call remembers stays true whatever others
do. `RowsConsistent` repeats the CHECK of migration 100001, and `TokensMatchRows`
carries `InvitersAreSuperadmins`, since Create believes the claim.

**Overrun.** `EveryStepIsClean` lists what a step may do to a call where no statement
fails: a call that was admitted by an invite can only go on to mark it, unless it is
cancelled. That an answered call's invite is found by nobody needs to be known of invites
that were deleted too: no later invite takes their id. So `AnsweredInv` says that the invite a call carries was issued, that a call is answered
when it ends and not before, and that the invite of an answered one is closed;
`ClosedInvitesStay` keeps it closed. `OverrunBound` counts pairs of a handler and an
invite. `Spent(m)` are the pairs that will not insert an account of `m` any more: the
invite is closed, or the handler is about to mark it, and in either case the handler does
not wait to insert. `OverrunInv`, "no more accounts than spent pairs", is inductive:
spent pairs stay spent (`SpentStays`), and an INSERT spends the pair it rests on
(`AccountsAreSpent`). A handler that is cancelled between INSERT and mark
is the one step that would give a pair back, and a failing mark is another, which is why
both faults are excluded. What they leave is the index: one account for each platform
(`PlatformsCapAccounts`).

**Refinement.** `Gate` maps `claimed`, `invited`, `members` and `consumed` to the
superadmin's existence, the mailboxes with an invite ever issued, the pairs of mailbox
and platform, and the mailboxes whose standing invite is used. The proof has one lemma
per statement: insert of the superadmin is `Claim`, of another admin `Join`, of an
invite `Invite`, marking is `Consume` or a stutter, deleting a used invite `Forget`,
and all else stutters. `GateIsSafe` shows that the promise is worth keeping:
`InviteGate` alone admits only the invited, and invites nobody before there is a
superadmin, which for onboarding follows without looking at the services again.

**Users.** What makes the read-then-write of Update safe is that no statement deletes
a row or changes its `platform_id`, and that this is the one field the authorization
looks at (`SamePlatform`, `UsersStay`). `IInv` adds that a waiting write carries a
target that exists and a well-formed change.

**Pool.** `Conservation` counts with cardinalities: a step changes the membership
of one handler in `Outer` and `Inner` and `free` by the same number. `NoBlockade`
follows by counting: the waiting handlers hold one connection each, which is
fewer than there are. `TypeOK` of the pool, that its queue never holds more than the pool
has, follows only together with `Conservation`. In a blocked pool all handlers are idle or
wait for a connection (`BlockedStays`), so that nothing but the end of a waiting update or
of the process unblocks it.

**Process.** The actions of the process are those of the pool with guards added, so that
what is proved of the pool carries over (`LifeStepsArePoolSteps`, a lemma that says
nothing more about the code). What is about the process is what the guards achieve. For `GraceIsKept`
and `ClosingOnlyDrains` the invariant says that from the end of the grace period on all
calls are aborted ones (`AllAborted`), which needs that none is accepted any more.

**Platforms.** Both statements write one row whose domain is in no other (`WriteOneRow`);
`OneDomain` and `ReferencesStay` follow from that lemma.

**Reads.** `Sound` says what is known of a read at each place it waits: that its caller
has an account, that an invite is only fetched for a superadmin, that a list goes on with
the scope its token allows. `ClaimsAreRows` connects token and row. `ReadsAreScoped`
says of an account that is not a superadmin's only that it is shown nothing of another
platform; plain users count like admins in it, for the reason that `plain_user` shows.
`LockoutIsKept` follows step by step: a read begins with a token that decodes, which a
locked out user does not have, or is a Get of admins, which has to decode one before it
shows anything (`ReadKeepsLockout`); and no Login signs another.

**Pages.** `MissesAreBounded` speaks of the end of the walk; the invariant
(`MissedSoFar` in `IInv`) speaks of any moment: of the rows that are left alone, those
that lie before the offset and were not seen are at most `moves`. An insert, a deletion
or a move changes by at most one how many rows lie before such a row
(`WriteEffect`), and only a deletion or a move can bring it before the offset.

**What the modules take from each other.** `Directory` holds what decides about a read as
constant functions of the row, and other modules hold `Platforms` constant. `RowsStand` of
the two proof modules and `ReferencesStay` are the theorems that this rests on.

**Assumptions.** The named `ASSUME`s of the modules: `Lower` is a function on
the addresses, request sets hold well-formed requests, `NULL` and `Malformed` are no
values, the pool has at least one connection, the calls in progress are finitely many
(`HandlersAreFinite`), and so are the ids (`IdsAreFinite`: a UUID has 128 bits). TLC
evaluates them in every run. Hypotheses of a theorem, such as `Faults = {}`, stand in its
statement; `onboarding` is an instance that satisfies those about faults.

**Only model-checked**: the liveness properties `AdmissionConsumesInvite`, `ShutdownEnds`
and `DeactivationTakesEffect`, since fairness and ENABLED are out of the prover's reach,
and the four violations, which are counterexamples.

## 5. Not modelled

* Get and List of `platform-service` as reads: they ask for no token and change nothing.
* Filters of List other than `platform_id`; they narrow the rows down, and `SelectRows`
  lets any part of the rows be shown.
* How a migration is applied and rolled back: yoyo's transactions and locks are external
  and nothing under `src/` runs beside them; the schema they leave is modelled.
* A composition of all services over one database. They share tokens and the rows they
  refer to. Platform rows never disappear (`ReferencesStay`, proved), so `Platforms`, a
  constant of the other modules, is any stage of a set that only grows.
* Envoy, observability, generated stubs. Envoy forwards a call or drops it; a dropped
  call is the fault `"cancel"`.
* Addresses that pydantic accepts and the CHECK `valid_email` refuses, or the reverse;
  ids that are not UUIDs. They end in an error and change nothing.
* A deployment without `SUPER_ADMIN_EMAIL`, where nobody becomes superadmin and nothing
  else can happen to admins.
* bcrypt, JWT encoding: a password is right or wrong, a token decodes or does not.

## 6. Plan

Done: `Tables`, `AdminService`, `AdminInviteService`, `Onboarding`, `InviteGate`;
`ConnectionPool`, `ServerLifecycle`; `UserService`; `PlatformService`; `Directory`;
`Paging`; and the proofs listed above.

Open, and proof again: an abstract specification of reads, which decides in one step what
`Directory` decides in two, implemented by it wherever the token does not expire in
between; and the step from `UserService` to `Directory`, whose `SetActive` and `Login` its
actions are to implement.
