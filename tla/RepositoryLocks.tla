-------------------------- MODULE RepositoryLocks --------------------------
(***************************************************************************)
(* worker/repository_coordination.go: the locks that serialise the Git     *)
(* metadata changes of one repository.  A lock is an entry of a map with a *)
(* channel that holds one token and a count of the goroutines that hold or *)
(* await it; an entry nobody refers to leaves the map and a later acquire  *)
(* makes a new one, except when a holder poisoned it: it then stays, and   *)
(* refuses whoever takes its token.  The map's mutex makes each action     *)
(* below one step; a goroutine can be delayed between any two of them.     *)
(***************************************************************************)
EXTENDS Naturals, Sequences, FiniteSets

CONSTANTS
  Procs,     \* goroutines: attempts, their cleanup, reconciliation
  Keys,      \* repositories (repositoryCoordinationKey)
  Entries,   \* the repositoryLockEntry objects that may be allocated
  None

LockConstants == IsFiniteSet(Procs) /\ None \notin Entries \cup Keys

VARIABLES
  table,     \* locks.entries: key -> entry, None when the map has no such key
  token,     \* entry -> its channel holds the token
  refs,      \* entry -> references
  poisoned,  \* the poisoned entries
  step,      \* goroutine -> where it is in acquire and release
  wants,     \* goroutine -> the key it asked for
  entry,     \* goroutine -> the entry acquire found or made
  waiters    \* entry -> the receivers its channel has queued, in order

vars == <<table, token, refs, poisoned, step, wants, entry, waiters>>

Steps == {"idle", "asked", "waiting", "took", "holding", "leaving"}
Refers(e) == {p \in Procs : step[p] # "idle" /\ entry[p] = e}
InTable == {e \in Entries : \E k \in Keys : table[k] = e}

Init ==
  /\ table = [k \in Keys |-> None]
  /\ token = [e \in Entries |-> TRUE] /\ refs = [e \in Entries |-> 0]
  /\ poisoned = {}
  /\ step = [p \in Procs |-> "idle"]
  /\ wants = [p \in Procs |-> None] /\ entry = [p \in Procs |-> None]
  /\ waiters = [e \in Entries |-> <<>>]

\* acquire, under the mutex: the map's entry, or a new one with its token.  An
\* object in the map or referred to is never a new one.
Acquire(p, k) ==
  /\ step[p] = "idle"
  /\ \E e \in Entries :
       /\ \/ table[k] = e /\ refs' = [refs EXCEPT ![e] = @ + 1]
             /\ UNCHANGED <<table, token>>
          \/ table[k] = None /\ e \notin InTable /\ Refers(e) = {}
             /\ table' = [table EXCEPT ![k] = e]
             /\ token' = [token EXCEPT ![e] = TRUE]
             /\ refs' = [refs EXCEPT ![e] = 1]
       /\ entry' = [entry EXCEPT ![p] = e]
  /\ step' = [step EXCEPT ![p] = "asked"] /\ wants' = [wants EXCEPT ![p] = k]
  /\ UNCHANGED <<poisoned, waiters>>

\* The select: receivers of a channel are served in the order they came to it.
Await(p) ==
  /\ step[p] = "asked" /\ step' = [step EXCEPT ![p] = "waiting"]
  /\ waiters' = [waiters EXCEPT ![entry[p]] = Append(@, p)]
  /\ UNCHANGED <<table, token, refs, poisoned, wants, entry>>

\* Mutant: whoever leaves takes the entry out of the map.
RemoveEntry(p) ==
  LET e == entry[p] k == wants[p]
  IN /\ refs' = [refs EXCEPT ![e] = @ - 1]
     /\ table' = IF e \notin poisoned /\ table[k] = e THEN [table EXCEPT ![k] = None] ELSE table
     /\ step' = [step EXCEPT ![p] = "idle"]

\* Mutant: a poisoned entry goes with the last reference, too.
ForgetPoison(p) ==
  LET e == entry[p] k == wants[p]
  IN /\ refs' = [refs EXCEPT ![e] = @ - 1]
     /\ table' = IF refs[e] = 1 /\ table[k] = e THEN [table EXCEPT ![k] = None] ELSE table
     /\ step' = [step EXCEPT ![p] = "idle"]

\* removeReference: the last one takes a healthy entry out of the map.
RemoveReference(p) ==
  LET e == entry[p] k == wants[p]
  IN /\ refs' = [refs EXCEPT ![e] = @ - 1]
     /\ table' = IF refs[e] = 1 /\ e \notin poisoned /\ table[k] = e
                 THEN [table EXCEPT ![k] = None] ELSE table
     /\ step' = [step EXCEPT ![p] = "idle"]

\* The context ends first: who already waits leaves the channel's queue.
GiveUp(p) ==
  /\ \/ step[p] = "asked" /\ UNCHANGED waiters
     \/ /\ step[p] = "waiting"
        /\ \E i \in DOMAIN waiters[entry[p]] :
             /\ waiters[entry[p]][i] = p
             /\ waiters' = [waiters EXCEPT ![entry[p]] =
                             SubSeq(@, 1, i - 1) \o SubSeq(@, i + 1, Len(@))]
  /\ RemoveReference(p) /\ UNCHANGED <<token, poisoned, wants, entry>>

Take(p) ==
  /\ step[p] = "waiting" /\ token[entry[p]]
  /\ waiters[entry[p]] # <<>> /\ p = Head(waiters[entry[p]])
  /\ waiters' = [waiters EXCEPT ![entry[p]] = Tail(@)]
  /\ token' = [token EXCEPT ![entry[p]] = FALSE]
  /\ step' = [step EXCEPT ![p] = "took"]
  /\ UNCHANGED <<table, refs, poisoned, wants, entry>>

\* The poison is read only with the token in hand.
Granted(p) ==
  /\ step[p] = "took" /\ entry[p] \notin poisoned
  /\ step' = [step EXCEPT ![p] = "holding"]
  /\ UNCHANGED <<table, token, refs, poisoned, wants, entry, waiters>>

\* Mutant: the refused goroutine keeps the token.
RefusedKeeping(p) ==
  /\ step[p] = "took" /\ entry[p] \in poisoned
  /\ step' = [step EXCEPT ![p] = "leaving"]
  /\ UNCHANGED <<table, token, refs, poisoned, wants, entry, waiters>>

\* Refused: the token goes back for the next one to be refused too.
Refused(p) ==
  /\ step[p] = "took" /\ entry[p] \in poisoned
  /\ token' = [token EXCEPT ![entry[p]] = TRUE]
  /\ step' = [step EXCEPT ![p] = "leaving"]
  /\ UNCHANGED <<table, refs, poisoned, wants, entry, waiters>>

\* poison: the attempt that finds a half made worktree marks the key's entry.
Poison(p) ==
  /\ step[p] = "holding" /\ table[wants[p]] # None
  /\ poisoned' = poisoned \cup {table[wants[p]]}
  /\ UNCHANGED <<table, token, refs, step, wants, entry, waiters>>

Release(p) ==
  /\ step[p] = "holding"
  /\ token' = [token EXCEPT ![entry[p]] = TRUE]
  /\ step' = [step EXCEPT ![p] = "leaving"]
  /\ UNCHANGED <<table, refs, poisoned, wants, entry, waiters>>

Leave(p) ==
  /\ step[p] = "leaving" /\ RemoveReference(p)
  /\ UNCHANGED <<token, poisoned, wants, entry, waiters>>

Next ==
  \E p \in Procs :
    \/ \E k \in Keys : Acquire(p, k)
    \/ Await(p) \/ GiveUp(p) \/ Take(p) \/ Granted(p) \/ Refused(p) \/ Poison(p) \/ Release(p) \/ Leave(p)

Spec == Init /\ [][Next]_vars

\* A goroutine goes on, and a holder comes back: its Git commands have timeouts.
Proceeds(p) == Await(p) \/ Take(p) \/ Granted(p) \/ Refused(p) \/ Release(p) \/ Leave(p)
FairSpec == Spec /\ \A p \in Procs : WF_vars(Proceeds(p))

-----------------------------------------------------------------------------
(* Properties.                                                             *)

\* Every variable stays in its type.
TypeOK ==
  /\ table \in [Keys -> Entries \cup {None}]
  /\ token \in [Entries -> BOOLEAN] /\ refs \in [Entries -> Nat]
  /\ poisoned \subseteq Entries
  /\ step \in [Procs -> Steps] /\ wants \in [Procs -> Keys \cup {None}]
  /\ entry \in [Procs -> Entries \cup {None}]
  /\ \A e \in Entries : \A i \in DOMAIN waiters[e] : step[waiters[e][i]] = "waiting"

\* The promise: who holds a key, and which keys are poisoned.
Abstract == INSTANCE RepositoryLock WITH
  holders <- [k \in Keys |-> {p \in Procs : step[p] = "holding" /\ wants[p] = k}],
  broken <- {k \in Keys : table[k] \in poisoned}
\* One goroutine at a time is inside a repository, and none enters it once it is
\* poisoned, although entries come and go from the map (acquire, removeReference).
LocksARepository == Abstract!Spec

\* Whoever waits for a repository gets it or is refused, though its context never
\* ends: a refused goroutine passes the token on (acquire).
WaitersAnswered == \A p \in Procs : []<>(step[p] # "waiting")
=============================================================================
