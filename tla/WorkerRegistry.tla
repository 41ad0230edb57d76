--------------------------- MODULE WorkerRegistry ---------------------------
(***************************************************************************)
(* Which worker may have which repository.  A route reserves a place in a  *)
(* worker's repository cache before the worker has cloned anything; claims *)
(* move Work between workers; every registration replaces what the server  *)
(* believes of a worker and gives unused places back (selectRunRoute,      *)
(* RegisterWorker, task_claim.go).  A registration is a snapshot that is   *)
(* applied later, while Work is routed, cloned and ended beside it.        *)
(*                                                                         *)
(* The load that ranks eligible workers, runtimes and capacity are left to *)
(* WorkLifecycle, the limit on retained worktrees to WorktreeCustody: any  *)
(* eligible worker may be chosen.  Managed repositories are GitHub ones,   *)
(* so a worker accepts them iff it reports the access a route asks for.  A *)
(* configured checkout is registered under one key, a reservation under    *)
(* the repository's identity.                                              *)
(***************************************************************************)
EXTENDS Naturals, FiniteSets

CONSTANTS
  None,
  Workers, Repositories,
  MaxEntries,     \* MaxRepositoryCacheEntries
  MaxWork,        \* bound: Sessions, numbered in the order of their admission
  MaxChanges      \* bound: registrations, lapses, restarts, changes of access, switches of a repository

RegistryConstants ==
  {MaxEntries, MaxWork, MaxChanges} \subseteq Nat /\ None \notin Workers \cup Repositories

VARIABLES
  \* the server
  managed,      \* the repositories row
  row,          \* the worker_repositories row: its kind, and whether it is advertised
  cached,       \* workers.managed_repository_ids_json
  accepts,      \* workers.accepts_managed_repositories
  available,    \* healthy, and heard of within WorkerOnlineWindow
  repository, stage, at,   \* of a Session: its repository, state, assigned worker
  \* the workers
  configured,   \* the repository of the configured checkout
  access,       \* the health probe found GitHub access
  known,        \* managedRepositoryIDs
  doing,        \* Sessions the worker is at
  kept,         \* repositories with a retained worktree
  registered,   \* "yes", "no", or "refused"
  flight,       \* the registration under way
  overtaken,    \* history: a lease expired between a registration's snapshot, a clone and its arrival
  changes

books == <<managed, row, cached, accepts, available>>
sessions == <<repository, stage, at>>
worker == <<configured, access, known, doing, kept, registered, flight>>
vars == <<books, sessions, worker, overtaken, changes>>

Sessions == 1 .. MaxWork
NoRow == [kind |-> "none", advertised |-> FALSE]
Of(r, S) == {s \in S : repository[s] = r}

Init ==
  /\ managed \in [Repositories -> {"absent", "enabled"}]
  /\ row = [w \in Workers |-> [r \in Repositories |-> NoRow]]
  /\ cached = [w \in Workers |-> {}] /\ accepts = [w \in Workers |-> FALSE]
  /\ available = [w \in Workers |-> FALSE]
  /\ repository = [s \in Sessions |-> None] /\ stage = [s \in Sessions |-> "none"]
  /\ at = [s \in Sessions |-> None]
  /\ configured \in [Workers -> Repositories \cup {None}]
  /\ access \in [Workers -> BOOLEAN]
  /\ known = [w \in Workers |-> {}] /\ doing = [w \in Workers |-> {}]
  /\ kept = [w \in Workers |-> {}]
  /\ registered = [w \in Workers |-> "no"] /\ flight = [w \in Workers |-> None]
  /\ overtaken = FALSE /\ changes = 0

Change == changes < MaxChanges /\ changes' = changes + 1

-----------------------------------------------------------------------------
(* Routes, in the middle of a transaction: b holds its row, stage and at.  *)

Book == [row |-> row, stage |-> stage, at |-> at]

Reserved(b, w) == {r \in Repositories : b.row[w][r].kind = "dynamic" /\ b.row[w][r].advertised}
\* Mutant: only what is cloned already counts.
CacheUseCloned(b, w) == Cardinality(cached[w])
CacheUse(b, w) == Cardinality(cached[w] \cup Reserved(b, w))
\* The repository may be routed: it is enabled, or never managed and configured somewhere.
Routed(b, r) ==
  \/ managed[r] = "enabled"
  \/ managed[r] = "legacy" /\ \E w \in Workers : b.row[w][r].kind = "static" /\ b.row[w][r].advertised

\* selectSessionRoute finds worker w for repository r.
CanTake(b, w, r) ==
  /\ Routed(b, r) /\ available[w]
  /\ \/ b.row[w][r].advertised
     \/ /\ managed[r] = "enabled" /\ accepts[w]
        /\ r \in cached[w] \/ CacheUse(b, w) < MaxEntries

\* The route it returns reserves a place.
Reserve(b, w, r) ==
  IF b.row[w][r].advertised THEN b
  ELSE [b EXCEPT !.row[w][r] = [kind |-> "dynamic", advertised |-> TRUE]]

Queue(b, s, w) ==
  [Reserve(b, w, repository[s]) EXCEPT !.stage[s] = "queued", !.at[s] = w]

Write(b) == row' = b.row /\ stage' = b.stage /\ at' = b.at

\* AdmitWork, for one Session: no eligible worker blocks it, no route refuses it.
Submit(s, r) ==
  /\ stage[s] = "none" /\ \A q \in 1 .. s - 1 : stage[q] # "none"
  /\ Routed(Book, r)
  /\ repository' = [repository EXCEPT ![s] = r]
  /\ \/ \E w \in Workers : CanTake(Book, w, r) /\
          Write([Reserve(Book, w, r) EXCEPT !.stage[s] = "queued", !.at[s] = w])
     \/ (\A w \in Workers : ~CanTake(Book, w, r)) /\ Write([Book EXCEPT !.stage[s] = "blocked"])
  /\ UNCHANGED <<managed, cached, accepts, available, worker, overtaken, changes>>

\* A Session that has no attempt is cancelled.
Cancel(s) ==
  /\ stage[s] \in {"blocked", "queued"}
  /\ Write([Book EXCEPT !.stage[s] = "ended", !.at[s] = None])
  /\ UNCHANGED <<managed, cached, accepts, available, repository, worker, overtaken, changes>>

\* materializeBlockedSessionForWorker: one blocked Session is queued on the claiming worker.
Materialized(b, w) ==
  LET ready == {s \in Sessions : /\ b.stage[s] = "blocked" /\ managed[repository[s]] # "disabled"
                                 /\ CanTake(b, w, repository[s])}
  IN IF ready = {} THEN {b} ELSE {Queue(b, s, w) : s \in ready}

\* rerouteQueuedSessionForWorker: the first Session its own worker cannot take moves;
\* asking whether that worker can reserves a place there.
Reroute(last, n, w) ==
  LET b == last.book IN
  IF last.moved \/ b.stage[n] # "queued" \/ b.at[n] = w THEN last
  ELSE IF CanTake(b, b.at[n], repository[n])
       THEN [last EXCEPT !.book = Reserve(b, b.at[n], repository[n])]
  ELSE IF CanTake(b, w, repository[n]) THEN [book |-> Queue(b, n, w), moved |-> TRUE]
  ELSE last
Rerouted(b, w) ==
  LET upTo[n \in 0 .. MaxWork] ==
        IF n = 0 THEN [book |-> b, moved |-> FALSE] ELSE Reroute(upTo[n - 1], n, w)
  IN upTo[MaxWork].book

Claimable(b, s, w) ==
  LET r == repository[s] IN
  /\ b.stage[s] = "queued" /\ b.at[s] = w /\ b.row[w][r].advertised
  /\ managed[r] # "disabled"

\* Claim, in one transaction; without an execution its reservations are committed too.
Claim(w) ==
  /\ registered[w] = "yes" /\ available[w]
  /\ \E queued \in Materialized(Book, w) :
       LET b == Rerouted(queued, w)
           claimable == {s \in Sessions : Claimable(b, s, w)} IN
       \/ \E s \in claimable :
            /\ Write([b EXCEPT !.stage[s] = "open"])
            /\ doing' = [doing EXCEPT ![w] = @ \cup {s}]
       \/ claimable = {} /\ Write(b) /\ UNCHANGED doing
  /\ UNCHANGED <<managed, cached, accepts, available, repository, configured, access, known,
                 kept, registered, flight, overtaken, changes>>

-----------------------------------------------------------------------------
(* Attempts.                                                               *)

\* acquireManagedRepository clones; a configured checkout is used as it is.
Acquire(w, s) ==
  /\ s \in doing[w] /\ repository[s] \notin known[w] \cup {configured[w]}
  /\ Cardinality(known[w]) < MaxEntries
  /\ known' = [known EXCEPT ![w] = @ \cup {repository[s]}]
  /\ UNCHANGED <<books, sessions, configured, access, doing, kept, registered, flight,
                 overtaken, changes>>

\* The worktree is retained, or was removed or never made.
Leave(w, s) ==
  /\ doing' = [doing EXCEPT ![w] = @ \ {s}]
  /\ \/ /\ repository[s] \in known[w] \cup {configured[w]}
        /\ kept' = [kept EXCEPT ![w] = @ \cup {repository[s]}]
     \/ UNCHANGED kept

\* The attempt ends in a capacity handoff, which no registration overlaps.
End(w, s) ==
  /\ s \in doing[w] /\ flight[w] = None /\ Leave(w, s)
  /\ stage' = [stage EXCEPT ![s] = "ended"]
  /\ UNCHANGED <<books, repository, at, configured, access, known, registered, flight, overtaken,
                 changes>>

\* Its lease ends on the server; a worker that is at it has stopped before.
Expire(s) ==
  /\ stage[s] = "open" /\ stage' = [stage EXCEPT ![s] = "ended"]
  /\ LET w == at[s] IN
     /\ IF s \in doing[w] THEN Leave(w, s) ELSE UNCHANGED <<doing, kept>>
     /\ overtaken' = (overtaken \/ (flight[w] # None /\ repository[s] \in known[w] \ flight[w].known))
  /\ UNCHANGED <<books, repository, at, configured, access, known, registered, flight, changes>>

\* The operator cleans a repository's retained worktrees.
Clean(w, r) ==
  /\ r \in kept[w] /\ kept' = [kept EXCEPT ![w] = @ \ {r}]
  /\ UNCHANGED <<books, sessions, configured, access, known, doing, registered, flight, overtaken,
                 changes>>

-----------------------------------------------------------------------------
(* Registration.                                                           *)

\* registrationLocked.
Register(w) ==
  /\ Change /\ registered[w] # "refused" /\ flight[w] = None
  /\ flight' = [flight EXCEPT ![w] =
       [configured |-> configured[w], access |-> access[w], known |-> known[w],
        kept |-> kept[w], current |-> TRUE]]
  /\ UNCHANGED <<books, sessions, configured, access, known, doing, kept, registered, overtaken>>

\* A key cannot move to another repository.
KeyMoved(w, f) ==
  f.configured # None /\ \E r \in Repositories \ {f.configured} : row[w][r].kind = "static"

Waits(w, r) == \E s \in Of(r, Sessions) : stage[s] \in {"queued", "open"} /\ at[s] = w

\* Mutant: Work that waits or runs keeps no reservation.
KeptOnDisk(w, r, f) == f.access /\ (r \in f.known \/ r \in f.kept)
\* A reservation goes back unless the repository is cached, has a retained worktree
\* or an execution of this worker is queued or open.
Kept(w, r, f) == f.access /\ (r \in f.known \/ r \in f.kept \/ Waits(w, r))

NewRow(w, r, f) ==
  CASE r = f.configured -> [kind |-> "static", advertised |-> TRUE]
    [] r # f.configured /\ row[w][r].kind = "dynamic" -> [row[w][r] EXCEPT !.advertised = Kept(w, r, f)]
    [] OTHER -> [row[w][r] EXCEPT !.advertised = FALSE]

\* RegisterWorker; its answer may be lost.
RegisterWorker(w) ==
  LET f == flight[w] IN
  /\ f # None /\ ~KeyMoved(w, f)
  /\ managed' = [r \in Repositories |->
       IF r = f.configured /\ managed[r] = "absent" THEN "legacy" ELSE managed[r]]
  /\ row' = [row EXCEPT ![w] = [r \in Repositories |-> NewRow(w, r, f)]]
  /\ cached' = [cached EXCEPT ![w] = f.known] /\ accepts' = [accepts EXCEPT ![w] = f.access]
  /\ available' = [available EXCEPT ![w] = TRUE]
  /\ flight' = [flight EXCEPT ![w] = None]
  /\ \E answered \in BOOLEAN :
       registered' = [registered EXCEPT ![w] = IF answered /\ f.current THEN "yes" ELSE "no"]
  /\ UNCHANGED <<sessions, configured, access, known, doing, kept, overtaken, changes>>

\* It is refused, or never arrives.
RegistrationFails(w) ==
  /\ flight[w] # None /\ flight' = [flight EXCEPT ![w] = None]
  /\ registered' = [registered EXCEPT ![w] = IF KeyMoved(w, flight[w]) THEN "refused" ELSE "no"]
  /\ UNCHANGED <<books, sessions, configured, access, known, doing, kept, overtaken,
                 changes>>

-----------------------------------------------------------------------------
(* What else happens to workers and repositories.                          *)

\* The online window ends, or the worker is unhealthy, until the next registration.
Fade(w) ==
  /\ Change /\ available[w] /\ available' = [available EXCEPT ![w] = FALSE]
  /\ UNCHANGED <<managed, row, cached, accepts, sessions, worker, overtaken>>

\* A health probe finds or loses GitHub access.
Probe(w) ==
  /\ Change /\ access' = [access EXCEPT ![w] = ~@]
  /\ registered' = [registered EXCEPT ![w] = IF @ = "yes" THEN "no" ELSE @]
  /\ flight' = [flight EXCEPT ![w] = IF @ = None THEN None ELSE [@ EXCEPT !.current = FALSE]]
  /\ UNCHANGED <<books, sessions, configured, known, doing, kept, overtaken>>

\* The worker restarts, perhaps with another configured checkout; reconciliation
\* retains the worktrees of its attempts.
Restart(w) ==
  /\ Change
  /\ \E r \in Repositories \cup {None} : configured' = [configured EXCEPT ![w] = r]
  /\ LET made == {s \in doing[w] : repository[s] \in known[w] \cup {configured[w]}} IN
     kept' = [kept EXCEPT ![w] = @ \cup {repository[s] : s \in made}]
  /\ doing' = [doing EXCEPT ![w] = {}]
  /\ registered' = [registered EXCEPT ![w] = "no"] /\ flight' = [flight EXCEPT ![w] = None]
  /\ UNCHANGED <<books, sessions, access, known, overtaken>>

\* CreateManagedRepository: a disabled repository stays disabled.
CreateManagedRepository(r) ==
  /\ Change /\ managed[r] \in {"absent", "legacy"}
  /\ managed' = [managed EXCEPT ![r] = "enabled"]
  /\ UNCHANGED <<row, cached, accepts, available, sessions, worker, overtaken>>

\* SetManagedRepositoryEnabled: queued Work of a repository that was enabled is blocked.
SetEnabled(r, enabled) ==
  /\ Change /\ managed[r] # "absent"
  /\ managed' = [managed EXCEPT ![r] = IF enabled THEN "enabled" ELSE "disabled"]
  /\ LET stopped == IF ~enabled /\ managed[r] = "enabled"
                    THEN {s \in Of(r, Sessions) : stage[s] = "queued"} ELSE {} IN
     Write([Book EXCEPT !.stage = [s \in Sessions |-> IF s \in stopped THEN "blocked" ELSE @[s]],
                        !.at = [s \in Sessions |-> IF s \in stopped THEN None ELSE @[s]]])
  /\ UNCHANGED <<cached, accepts, available, repository, worker, overtaken>>

Next ==
  \/ \E s \in Sessions : Cancel(s) \/ Expire(s) \/ \E r \in Repositories : Submit(s, r)
  \/ \E w \in Workers :
       \/ Claim(w) \/ Register(w) \/ RegisterWorker(w) \/ RegistrationFails(w)
       \/ Fade(w) \/ Probe(w) \/ Restart(w)
       \/ \E s \in Sessions : Acquire(w, s) \/ End(w, s)
       \/ \E r \in Repositories : Clean(w, r)
  \/ \E r \in Repositories :
       CreateManagedRepository(r) \/ \E enabled \in BOOLEAN : SetEnabled(r, enabled)

Spec == Init /\ [][Next]_vars

-----------------------------------------------------------------------------
(* What the pages tell an operator before Work is admitted.                *)

\* evaluateManagedRepositoryEligibility.
Eligible(r, page) ==
  /\ managed[r] = "enabled" /\ page.online /\ page.access
  /\ \/ page.advertised
     \/ page.accepts /\ (page.cached \/ page.reserved \/ page.use < MaxEntries)

\* What both read of worker w and repository r.
Page(w, r) ==
  [online |-> available[w], access |-> accepts[w], accepts |-> accepts[w],
   cached |-> r \in cached[w], use |-> CacheUse(Book, w),
   advertised |-> row[w][r].advertised, reserved |-> FALSE]

\* WorkerRepositoryOptions tells a reservation from a configured checkout.
WorkerPage(w, r) ==
  [Page(w, r) EXCEPT !.advertised = @ /\ row[w][r].kind = "static",
                     !.reserved = r \in Reserved(Book, w)]

\* ManagedRepositoryReadiness does not.  Mutant: it does, and forgets the reservation.
RepositoryPageStatic(w, r) == [Page(w, r) EXCEPT !.advertised = @ /\ row[w][r].kind = "static"]
RepositoryPage(w, r) == Page(w, r)

-----------------------------------------------------------------------------
\* Every variable stays in its type.
TypeOK ==
  /\ managed \in [Repositories -> {"absent", "legacy", "enabled", "disabled"}]
  /\ row \in [Workers -> [Repositories -> [kind : {"none", "static", "dynamic"}, advertised : BOOLEAN]]]
  /\ accepts \in [Workers -> BOOLEAN] /\ available \in [Workers -> BOOLEAN]
  /\ repository \in [Sessions -> Repositories \cup {None}] /\ at \in [Sessions -> Workers \cup {None}]
  /\ stage \in [Sessions -> {"none", "blocked", "queued", "open", "ended"}]
  /\ configured \in [Workers -> Repositories \cup {None}] /\ access \in [Workers -> BOOLEAN]
  /\ {cached, known, kept} \subseteq [Workers -> SUBSET Repositories]
  /\ doing \in [Workers -> SUBSET Sessions]
  /\ registered \in [Workers -> {"yes", "no", "refused"}]
  /\ overtaken \in BOOLEAN /\ changes \in 0 .. MaxChanges
  /\ flight \in [Workers -> {None} \cup
       [configured : Repositories \cup {None}, access : BOOLEAN, current : BOOLEAN,
        known : SUBSET Repositories, kept : SUBSET Repositories]]

\* A place that was reserved for Work stands, whatever registrations arrive, for as long
\* as the Work is queued or open there and the worker takes managed repositories, so
\* that its claims find the Work (RegisterWorker's release, selectRunRoute).
ReservationsStand ==
  \A s \in Sessions : stage[s] \in {"queued", "open"} =>
    LET place == row[at[s]][repository[s]] IN
    /\ place.kind # "none"
    /\ place.kind = "dynamic" /\ accepts[at[s]] => place.advertised

\* No more places are given away than a worker has, on the server's books and on its
\* disk, although the server counts a snapshot; only a lease that expires between a
\* snapshot, a clone and the snapshot's arrival makes it forget one
\* (selectRunRoute, RegisterWorker, reserveManagedRepositoryCache).
CacheNotOvercommitted ==
  overtaken \/ \A w \in Workers :
    /\ Cardinality(cached[w] \cup Reserved(Book, w)) <= MaxEntries
    /\ Cardinality(known[w] \cup ({repository[s] : s \in doing[w]} \ {configured[w]})) <= MaxEntries

\* The two pages agree on a worker, and where they call it ready a route is found.
PagesAreRight ==
  \A w \in Workers, r \in Repositories :
    /\ Eligible(r, WorkerPage(w, r)) <=> Eligible(r, RepositoryPage(w, r))
    /\ Eligible(r, WorkerPage(w, r)) => CanTake(Book, w, r)

\* Routes, registrations and pages agree about the places of every worker.
PlacesKept == ReservationsStand /\ CacheNotOvercommitted /\ PagesAreRight
=============================================================================
