-------------------------- MODULE RepositoryCache --------------------------
(***************************************************************************)
(* The worker's managed repositories: acquireManagedRepository clones what *)
(* is not on disk yet into a temporary directory and renames it into       *)
(* place, under a limit on the cache's entries (worker/repository_cache.go *)
(* and the reservations of repository_coordination.go).  RepositoryLock    *)
(* lets one goroutine at a time inside a repository, so a repository's     *)
(* acquisition is one sequence of steps, beside those of the others.       *)
(***************************************************************************)
EXTENDS Naturals, FiniteSets

CONSTANTS
  Repositories,      \* managed repository ids
  MaxEntries,        \* MaxRepositoryCacheEntries
  MaxRestarts        \* bound: crashes of the worker

CacheConstants == MaxEntries \in Nat /\ MaxRestarts \in Nat

VARIABLES
  installed,    \* disk: repositories/<id>
  temporary,    \* disk: ids whose clone left a repositories/.clone-* directory
  known,        \* memory: managedRepositoryIDs
  reserved,     \* memory: managedRepositoryReservations
  acquiring,    \* id -> where its acquisition is
  restarts      \* crashes so far; the worker is down while acquiring is "down"

vars == <<installed, temporary, known, reserved, acquiring, restarts>>

Goes(id, step) == acquiring' = [acquiring EXCEPT ![id] = step]
Up == \A id \in Repositories : acquiring[id] # "down"
Free == [id \in Repositories |-> "free"]

Init ==
  /\ installed = {} /\ temporary = {} /\ known = {} /\ reserved = {}
  /\ acquiring = Free /\ restarts = 0

\* The entry is on disk.
FindEntry(id) ==
  /\ acquiring[id] = "free" /\ id \in installed /\ Goes(id, "resolving")
  /\ UNCHANGED <<installed, temporary, known, reserved, restarts>>

\* Mutant: clones under way are not counted.
ReserveUncounted(id) ==
  /\ acquiring[id] = "free" /\ id \notin installed
  /\ \/ id \in known \cup reserved /\ UNCHANGED reserved
     \/ /\ id \notin known \cup reserved /\ Cardinality(known) < MaxEntries
        /\ reserved' = reserved \cup {id}
  /\ temporary' = temporary \cup {id} /\ Goes(id, "cloning")
  /\ UNCHANGED <<installed, known, restarts>>

\* It is not: reserve a place, unless this id has one; at the limit the
\* acquisition fails.
Reserve(id) ==
  /\ acquiring[id] = "free" /\ id \notin installed
  /\ \/ id \in known \cup reserved /\ UNCHANGED reserved
     \/ /\ id \notin known \cup reserved
        /\ Cardinality(known) + Cardinality(reserved) < MaxEntries
        /\ reserved' = reserved \cup {id}
  /\ temporary' = temporary \cup {id} /\ Goes(id, "cloning")
  /\ UNCHANGED <<installed, known, restarts>>

\* The clone or its validation fails; the directory and the reservation go.
CloneFails(id) ==
  /\ acquiring[id] = "cloning" /\ Goes(id, "free")
  /\ temporary' = temporary \ {id} /\ reserved' = reserved \ {id}
  /\ UNCHANGED <<installed, known, restarts>>

\* The rename that installs it.
Install(id) ==
  /\ acquiring[id] = "cloning" /\ Goes(id, "installed")
  /\ installed' = installed \cup {id}
  /\ UNCHANGED <<temporary, known, reserved, restarts>>

\* The empty directory goes, and the reservation becomes an entry even when
\* removing the directory reported an error.
Finish(id) ==
  /\ acquiring[id] = "installed"
  /\ temporary' = temporary \ {id}
  /\ reserved' = reserved \ {id} /\ known' = known \cup {id}
  /\ Goes(id, "resolving") \/ Goes(id, "free")
  /\ UNCHANGED <<installed, restarts>>

\* The entry's origin and base are resolved, or the claim fails and the entry stays.
Resolve(id) ==
  /\ acquiring[id] = "resolving" /\ Goes(id, "free")
  /\ \/ known' = known \cup {id} /\ reserved' = reserved \ {id}
     \/ UNCHANGED <<known, reserved>>
  /\ UNCHANGED <<installed, temporary, restarts>>

\* An operator deletes an entry from the disk.
DeleteByHand(id) ==
  /\ acquiring[id] = "free" /\ id \in installed
  /\ installed' = installed \ {id}
  /\ UNCHANGED <<temporary, known, reserved, acquiring, restarts>>

Crash ==
  /\ Up /\ restarts < MaxRestarts /\ restarts' = restarts + 1
  /\ known' = {} /\ reserved' = {} /\ acquiring' = [id \in Repositories |-> "down"]
  /\ UNCHANGED <<installed, temporary>>

\* managedRepositoryCacheIDs: the interrupted clones go, the entries are counted.
Start ==
  /\ ~Up /\ temporary' = {} /\ known' = installed /\ acquiring' = Free
  /\ UNCHANGED <<installed, reserved, restarts>>

Next ==
  \/ \E id \in Repositories :
       \/ FindEntry(id) \/ Reserve(id) \/ CloneFails(id) \/ Install(id)
       \/ Finish(id) \/ Resolve(id) \/ DeleteByHand(id)
  \/ Crash \/ Start

Spec == Init /\ [][Next]_vars

-----------------------------------------------------------------------------
\* Every variable stays in its type.
TypeOK ==
  /\ installed \subseteq Repositories /\ temporary \subseteq Repositories
  /\ known \subseteq Repositories /\ reserved \subseteq Repositories
  /\ acquiring \in [Repositories -> {"free", "cloning", "installed", "resolving", "down"}]
  /\ restarts \in 0 .. MaxRestarts

\* The cache never outgrows its limit, whoever clones at the same time and wherever
\* the worker stops; every entry on disk is counted; and neither a reservation nor a
\* temporary directory outlives its clone by more than a restart
\* (reserveManagedRepositoryCache, managedRepositoryCacheIDs).
CacheBounded ==
  /\ Cardinality(installed) <= MaxEntries
  /\ Up => /\ installed \subseteq known \cup reserved
           /\ \A id \in temporary \cup reserved : acquiring[id] \in {"cloning", "installed"}
=============================================================================
