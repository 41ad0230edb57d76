---------------------------- MODULE WorkerProofs ----------------------------
(***************************************************************************)
(* What holds of the worktrees of a worker (WorktreeCustody) for every set *)
(* of attempts, every limit and every number of crashes: the disk, the     *)
(* manifests, the journal and the capacity the control plane reserves      *)
(* account for each other.  What holds of the places in repository caches  *)
(* (WorkerRegistry) for every cache size and every number of Sessions.     *)
(***************************************************************************)
EXTENDS MCWorker, FiniteSets, FiniteSetTheorems, WellFoundedInduction, TLAPS

-----------------------------------------------------------------------------
(* Worktrees: the inductive invariant *)

\* The goroutine of an attempt answers for its worktree.
Answering == {"claimed", "adding", "added", "working", "finish", "completing", "clean",
              "removing", "retain"}
\* An attempt that was never claimed left no trace.
Untouched(a) ==
  /\ manifest[a] = "none" /\ worktree[a] = "absent" /\ step[a] = "none" /\ ~released[a]
  /\ a \notin journal \cup disposed \cup retained
StepsOf(process) ==
  CASE process = "down" -> {"none"}
    [] process = "cleanup" -> {"none", "removing", "removed"}
    [] process = "starting" -> {"none", "settled", "removing", "removed", "journal"}
    [] process = "ready" -> Answering \cup Custody!HandoffSteps \cup {"none", "dispose"}
\* What the worker writes down, and where its goroutines and its mutex stand.
TraceInv ==
  /\ \A a \in Attempt :
       /\ server[a] = "none" => Untouched(a)
       /\ manifest[a] = "none" => worktree[a] = "absent"
       /\ a \in journal \cup disposed => worktree[a] = "absent" /\ step[a] \notin Answering
       /\ step[a] \in {"claimed", "dispose", "disposed", "lastcall", "removed", "journal"} =>
            worktree[a] = "absent"
       /\ step[a] = "adding" => manifest[a] # "none"
       /\ step[a] \in StepsOf(up)
  /\ registering # "no" => up = "ready"
  /\ up = "cleanup" => \A a, b \in Attempt : step[a] # "none" /\ step[b] # "none" => a = b
\* A worktree nobody answers for is retained, or the worker has asked for a human; one
\* that is answered for was not released.
AnswerInv ==
  \A a \in Attempt :
    /\ up = "ready" /\ step[a] \in Answering => ~released[a] /\ a \notin retained
    /\ up = "ready" /\ worktree[a] # "absent" /\ step[a] \notin Answering =>
         a \in retained \/ fatal
    /\ up = "starting" /\ worktree[a] # "absent" /\ step[a] = "settled" =>
         a \in retained \/ fatal
    /\ usable /\ worktree[a] # "absent" /\ released[a] => a \in counted
\* What is on the disk, or may get there without another claim.
Prospective == {a \in Attempt : worktree[a] # "absent" \/ step[a] \in {"claimed", "adding"}}
Bounded == Cardinality(Prospective) <= Limit

CustodyInv == Custody!TypeOK /\ TraceInv /\ AnswerInv /\ Bounded

-----------------------------------------------------------------------------
(* Worktrees: types *)

LEMMA CustodyNumbers == Limit \in Nat /\ MaxCrashes \in Nat /\ IsFiniteSet(Attempt)
BY Constants DEF Custody!CustodyConstants, Custody!IsFiniteSet, IsFiniteSet
LEMMA CustodyCardinality == ASSUME NEW S PROVE Custody!Cardinality(S) = Cardinality(S)
BY DEF Custody!Cardinality, Cardinality

LEMMA CustodyTypes == ASSUME Custody!TypeOK, Custody!Next PROVE Custody!TypeOK'
<1> USE CustodyNumbers DEF Custody!TypeOK, Custody!serverVars, Custody!memoryVars, Custody!diskVars,
        Custody!Go, Custody!Write, Custody!Fail, Custody!HandoffSteps, Custody!Lifecycle
<1>1. ASSUME NEW a \in Attempt, Custody!Claim(a) \/ Custody!SweepExpired(a) \/ Custody!Edit(a)
      PROVE  Custody!TypeOK'
  BY <1>1 DEF Custody!Claim, Custody!SweepExpired, Custody!Edit
<1>2. ASSUME NEW a \in Attempt,
             \/ Custody!CreateManifest(a) \/ Custody!GitAdd(a) \/ Custody!RecordWorktree(a)
             \/ Custody!Work(a)
      PROVE  Custody!TypeOK'
  BY <1>2 DEF Custody!CreateManifest, Custody!GitAdd, Custody!RecordWorktree, Custody!Work
<1>3. ASSUME NEW a \in Attempt, Custody!AddFailed(a) PROVE Custody!TypeOK'
  BY <1>3 DEF Custody!AddFailed
<1>4. ASSUME NEW a \in Attempt,
             Custody!BeginDispose(a) \/ Custody!RecordNotCreated(a) \/ Custody!BeginFinish(a)
      PROVE  Custody!TypeOK'
  BY <1>4 DEF Custody!BeginDispose, Custody!RecordNotCreated, Custody!BeginFinish
<1>5. ASSUME NEW a \in Attempt,
             Custody!Complete(a) \/ Custody!BeginCleanup(a) \/ Custody!GitRemove(a)
      PROVE  Custody!TypeOK'
  BY <1>5 DEF Custody!Complete, Custody!BeginCleanup, Custody!GitRemove
<1>6. ASSUME NEW a \in Attempt,
             \/ Custody!RemoveFailed(a) \/ Custody!RecordCleaned(a) \/ Custody!RecordDisposed(a)
             \/ Custody!Retain(a) \/ Custody!EndHandoff(a)
      PROVE  Custody!TypeOK'
  BY <1>6 DEF Custody!RemoveFailed, Custody!RecordCleaned, Custody!RecordDisposed, Custody!Retain,
              Custody!EndHandoff
<1>7. ASSUME NEW a \in Attempt, Custody!Reconcile(a) PROVE Custody!TypeOK'
  BY <1>7 DEF Custody!Reconcile, Custody!ReconcileAbsent, Custody!ReconcileInconsistent,
              Custody!ReconcileCleanup, Custody!ReconcileRetained, Custody!AbsentNow
<1>8. ASSUME NEW a \in Attempt, Custody!Cleanup(a) \/ Custody!RemoveManifest(a)
      PROVE  Custody!TypeOK'
  BY <1>8 DEF Custody!Cleanup, Custody!RemoveManifest
<1>9. CASE Custody!Register \/ Custody!ClearDisposals
  BY <1>9 DEF Custody!Register, Custody!ClearDisposals
<1>10. CASE Custody!RegistrationAnswered \/ Custody!RegistrationLost
  <2>1. Custody!RegisterWorker => counted' \subseteq Attempt /\ released' \in [Attempt -> BOOLEAN]
                                    /\ usable' \in BOOLEAN
    BY DEF Custody!RegisterWorker, Custody!Release
  <2> QED BY <1>10, <2>1 DEF Custody!RegistrationAnswered, Custody!RegistrationLost
<1>11. CASE Custody!Start \/ Custody!Ready
  BY <1>11 DEF Custody!Start, Custody!Ready
<1>12. CASE Custody!Crash
  <2>1. crashes' \in 0..MaxCrashes
    BY <1>12 DEF Custody!Crash
  <2> QED BY <1>12, <2>1 DEF Custody!Crash
<1> QED BY <1>1, <1>2, <1>3, <1>4, <1>5, <1>6, <1>7, <1>8, <1>9, <1>10, <1>11, <1>12
        DEF Custody!Next, Custody!Run, Custody!Registration

-----------------------------------------------------------------------------
(* Worktrees: what is written down *)

LEMMA TracedByServer ==
  ASSUME CustodyInv, NEW a \in Attempt, Custody!Claim(a) \/ Custody!SweepExpired(a) \/ Custody!Edit(a)
  PROVE  TraceInv' /\ AnswerInv'
<1> USE DEF CustodyInv, Custody!TypeOK, TraceInv, AnswerInv, Untouched, Custody!serverVars,
        Custody!memoryVars, Custody!diskVars, Custody!Go, StepsOf, Answering
<1>1. CASE Custody!Claim(a)
  BY <1>1 DEF Custody!Claim
<1>2. CASE Custody!SweepExpired(a)
  BY <1>2 DEF Custody!SweepExpired
<1>3. CASE Custody!Edit(a)
  BY <1>3 DEF Custody!Edit
<1> QED BY <1>1, <1>2, <1>3

LEMMA TracedByAdding ==
  ASSUME CustodyInv, NEW a \in Attempt,
         \/ Custody!CreateManifest(a) \/ Custody!GitAdd(a) \/ Custody!AddFailed(a)
         \/ Custody!RecordWorktree(a) \/ Custody!Work(a)
  PROVE  TraceInv' /\ AnswerInv'
<1> USE DEF CustodyInv, Custody!TypeOK, TraceInv, AnswerInv, Untouched, Custody!serverVars,
        Custody!memoryVars, Custody!diskVars, Custody!Go, Custody!Write, Custody!Fail, StepsOf, Answering
<1>1. CASE Custody!CreateManifest(a)
  BY <1>1 DEF Custody!CreateManifest
<1>2. CASE Custody!GitAdd(a)
  BY <1>2 DEF Custody!GitAdd, Custody!AddReady
<1>3. CASE Custody!AddFailed(a)
  BY <1>3 DEF Custody!AddFailed
<1>4. CASE Custody!RecordWorktree(a)
  BY <1>4 DEF Custody!RecordWorktree
<1>5. CASE Custody!Work(a)
  BY <1>5 DEF Custody!Work
<1> QED BY <1>1, <1>2, <1>3, <1>4, <1>5

LEMMA TracedByFinishing ==
  ASSUME CustodyInv, NEW a \in Attempt,
         \/ Custody!BeginDispose(a) \/ Custody!RecordNotCreated(a) \/ Custody!BeginFinish(a)
         \/ Custody!Complete(a) \/ Custody!BeginCleanup(a) \/ Custody!GitRemove(a)
         \/ Custody!RemoveFailed(a) \/ Custody!RecordCleaned(a) \/ Custody!RecordDisposed(a)
         \/ Custody!Retain(a) \/ Custody!EndHandoff(a)
  PROVE  TraceInv' /\ AnswerInv'
<1> USE DEF CustodyInv, Custody!TypeOK, TraceInv, AnswerInv, Untouched, Custody!serverVars,
        Custody!memoryVars, Custody!diskVars, Custody!Go, Custody!Write, Custody!Fail, StepsOf,
        Answering, Custody!HandoffSteps
<1>1. CASE Custody!BeginDispose(a)
  BY <1>1 DEF Custody!BeginDispose
<1>2. CASE Custody!RecordNotCreated(a)
  BY <1>2 DEF Custody!RecordNotCreated
<1>3. CASE Custody!BeginFinish(a)
  BY <1>3 DEF Custody!BeginFinish
<1>4. CASE Custody!Complete(a)
  BY <1>4 DEF Custody!Complete
<1>5. CASE Custody!BeginCleanup(a)
  BY <1>5 DEF Custody!BeginCleanup
<1>6. CASE Custody!GitRemove(a)
  BY <1>6 DEF Custody!GitRemove
<1>7. CASE Custody!RemoveFailed(a)
  BY <1>7 DEF Custody!RemoveFailed
<1>8. CASE Custody!RecordCleaned(a)
  <2>1. CASE up = "cleanup"
    <3>1. \A b \in Attempt : step'[b] = "none"
      BY <1>8, <2>1 DEF Custody!RecordCleaned
    <3> QED BY <1>8, <2>1, <3>1 DEF Custody!RecordCleaned
  <2>2. CASE up # "cleanup"
    BY <1>8, <2>2 DEF Custody!RecordCleaned
  <2> QED BY <2>1, <2>2
<1>9. CASE Custody!RecordDisposed(a)
  BY <1>9 DEF Custody!RecordDisposed
<1>10. CASE Custody!Retain(a)
  BY <1>10 DEF Custody!Retain
<1>11. CASE Custody!EndHandoff(a)
  BY <1>11 DEF Custody!EndHandoff, Custody!Handoffs
<1> QED BY <1>1, <1>2, <1>3, <1>4, <1>5, <1>6, <1>7, <1>8, <1>9, <1>10, <1>11

LEMMA TracedByRegistration ==
  ASSUME CustodyInv, Custody!Registration
  PROVE  TraceInv' /\ AnswerInv'
<1> USE DEF CustodyInv, Custody!TypeOK, TraceInv, AnswerInv, Untouched, Custody!serverVars,
        Custody!memoryVars, Custody!diskVars, Custody!Write, Custody!Fail, StepsOf, Answering
<1>1. CASE Custody!Register
  BY <1>1 DEF Custody!Register
<1>2. CASE Custody!RegistrationAnswered
  BY <1>2 DEF Custody!RegistrationAnswered, Custody!RegisterWorker, Custody!Release
<1>3. CASE Custody!RegistrationLost
  <2>1. CASE Custody!RegisterWorker
    BY <1>3, <2>1 DEF Custody!RegistrationLost, Custody!RegisterWorker, Custody!Release
  <2>2. CASE UNCHANGED <<counted, released, usable>>
    BY <1>3, <2>2 DEF Custody!RegistrationLost
  <2> QED BY <1>3, <2>1, <2>2 DEF Custody!RegistrationLost
<1>4. ASSUME NEW a \in Attempt, Custody!RemoveManifest(a) PROVE TraceInv' /\ AnswerInv'
  BY <1>4 DEF Custody!RemoveManifest
<1>5. CASE Custody!ClearDisposals
  BY <1>5 DEF Custody!ClearDisposals
<1> QED BY <1>1, <1>2, <1>3, <1>4, <1>5 DEF Custody!Registration

LEMMA TracedByRestart ==
  ASSUME CustodyInv, Custody!Crash \/ Custody!Start \/ Custody!Ready
  PROVE  TraceInv' /\ AnswerInv'
<1> USE DEF CustodyInv, Custody!TypeOK, TraceInv, AnswerInv, Untouched, Custody!serverVars,
        Custody!memoryVars, Custody!diskVars, StepsOf, Answering
<1>1. CASE Custody!Crash
  BY <1>1 DEF Custody!Crash
<1>2. CASE Custody!Start
  BY <1>2 DEF Custody!Start
<1>3. CASE Custody!Ready
  BY <1>3 DEF Custody!Ready, Custody!Unsettled
<1> QED BY <1>1, <1>2, <1>3

LEMMA TracedByReconciling ==
  ASSUME CustodyInv, NEW a \in Attempt, Custody!Reconcile(a) \/ Custody!Cleanup(a)
  PROVE  TraceInv' /\ AnswerInv'
<1> USE DEF CustodyInv, Custody!TypeOK, TraceInv, AnswerInv, Untouched, Custody!serverVars,
        Custody!memoryVars, Custody!diskVars, Custody!Go, Custody!Write, Custody!Fail, StepsOf,
        Answering, Custody!Reconciling, Custody!Unsettled
<1>1. CASE Custody!ReconcileAbsent(a)
  <2>1. Custody!AbsentNow(manifest[a]) \in {"not_created", "cleaned", "missing"}
    BY DEF Custody!AbsentNow
  <2> QED BY <1>1, <2>1 DEF Custody!ReconcileAbsent
<1>2. CASE Custody!ReconcileInconsistent(a)
  BY <1>2 DEF Custody!ReconcileInconsistent
<1>3. CASE Custody!ReconcileCleanup(a)
  BY <1>3 DEF Custody!ReconcileCleanup
<1>4. CASE Custody!ReconcileRetained(a)
  BY <1>4 DEF Custody!ReconcileRetained
<1>5. CASE Custody!Cleanup(a)
  BY <1>5 DEF Custody!Cleanup
<1> QED BY <1>1, <1>2, <1>3, <1>4, <1>5 DEF Custody!Reconcile

LEMMA Traced == ASSUME CustodyInv, Custody!Next PROVE TraceInv' /\ AnswerInv'
BY TracedByServer, TracedByAdding, TracedByFinishing, TracedByRegistration, TracedByRestart,
   TracedByReconciling DEF Custody!Next, Custody!Run, Custody!Registration

-----------------------------------------------------------------------------
(* Worktrees: the limit *)

LEMMA OthersAddNothing ==
  ASSUME Bounded, Prospective' \subseteq Prospective PROVE Bounded'
<1>1. IsFiniteSet(Prospective)
  BY CustodyNumbers, FS_Subset DEF Prospective
<1>2. /\ Cardinality(Prospective') <= Cardinality(Prospective)
      /\ Cardinality(Prospective') \in Nat /\ Cardinality(Prospective) \in Nat
  BY <1>1, FS_Subset, FS_CardinalityType
<1> QED BY <1>2, CustodyNumbers DEF Bounded

\* What may still get to the disk of a worker that may be given work is counted.
LEMMA ClaimBounded ==
  ASSUME CustodyInv, NEW a \in Attempt, Custody!Claim(a) PROVE Bounded'
<1> DEFINE R == Custody!Reserved
<1>1. Prospective \subseteq counted \cup R
  BY DEF CustodyInv, TraceInv, AnswerInv, Untouched, Prospective, Custody!Claim, Custody!Reserved,
         Custody!TypeOK, Answering
<1>2. Prospective' \subseteq Prospective \cup {a}
  BY DEF Prospective, Custody!Claim, Custody!Go, Custody!diskVars, CustodyInv, Custody!TypeOK
<1>3. IsFiniteSet(counted) /\ IsFiniteSet(R) /\ IsFiniteSet(Prospective)
  BY CustodyNumbers, FS_Subset DEF CustodyInv, Custody!TypeOK, Custody!Reserved, Prospective
<1>4. Cardinality(counted) + Cardinality(R) < Limit
  BY CustodyCardinality DEF Custody!Claim, Custody!Count
<1> HIDE DEF R
<1>5. /\ IsFiniteSet(counted \cup R) /\ Cardinality(counted \cup R) \in Nat
      /\ Cardinality(counted) \in Nat /\ Cardinality(R) \in Nat
      /\ Cardinality(counted \cup R) <= Cardinality(counted) + Cardinality(R)
  <2>1. /\ IsFiniteSet(counted \cup R) /\ IsFiniteSet(counted \cap R)
        /\ Cardinality(counted \cup R) =
             Cardinality(counted) + Cardinality(R) - Cardinality(counted \cap R)
    BY <1>3, FS_Union, FS_Intersection
  <2> QED BY <1>3, <2>1, FS_CardinalityType
<1>6. /\ Cardinality(Prospective) <= Cardinality(counted \cup R)
      /\ Cardinality(Prospective) \in Nat
  BY <1>1, <1>3, <1>5, FS_Subset, FS_CardinalityType
<1>7. /\ IsFiniteSet(Prospective \cup {a})
      /\ Cardinality(Prospective \cup {a}) \in Nat
      /\ Cardinality(Prospective \cup {a}) <= Cardinality(Prospective) + 1
  <2>1. CASE a \in Prospective
    <3>1. Prospective \cup {a} = Prospective
      BY <2>1
    <3> QED BY <1>3, <1>6, <3>1
  <2>2. CASE a \notin Prospective
    BY <1>3, <1>6, <2>2, FS_AddElement
  <2> QED BY <2>1, <2>2
<1>8. /\ Cardinality(Prospective') <= Cardinality(Prospective \cup {a})
      /\ Cardinality(Prospective') \in Nat
  BY <1>2, <1>7, FS_Subset, FS_CardinalityType
<1> QED BY <1>4, <1>5, <1>6, <1>7, <1>8, CustodyNumbers DEF Bounded

LEMMA BoundKept == ASSUME CustodyInv, Custody!Next PROVE Bounded'
<1>0. Bounded /\ Custody!TypeOK
  BY DEF CustodyInv
<1> USE DEF Prospective, Custody!TypeOK, Custody!serverVars, Custody!memoryVars, Custody!diskVars,
        Custody!Go
<1>1. ASSUME NEW a \in Attempt, Custody!Claim(a) PROVE Bounded'
  BY <1>1, ClaimBounded
<1>2. ASSUME NEW a \in Attempt, Custody!SweepExpired(a) \/ Custody!Edit(a) PROVE Bounded'
  BY <1>0, <1>2, OthersAddNothing DEF Custody!SweepExpired, Custody!Edit
<1>3. ASSUME NEW a \in Attempt,
             \/ Custody!CreateManifest(a) \/ Custody!GitAdd(a) \/ Custody!AddFailed(a)
             \/ Custody!RecordWorktree(a) \/ Custody!Work(a)
      PROVE  Bounded'
  <2>1. Prospective' \subseteq Prospective
    BY <1>0, <1>3 DEF Custody!CreateManifest, Custody!GitAdd, Custody!AddReady, Custody!AddFailed,
                      Custody!RecordWorktree, Custody!Work
  <2> QED BY <1>0, <2>1, OthersAddNothing
<1>4. ASSUME NEW a \in Attempt,
             \/ Custody!BeginDispose(a) \/ Custody!RecordNotCreated(a) \/ Custody!BeginFinish(a)
             \/ Custody!Complete(a) \/ Custody!BeginCleanup(a) \/ Custody!GitRemove(a)
      PROVE  Bounded'
  <2>1. Prospective' \subseteq Prospective
    BY <1>0, <1>4 DEF Custody!BeginDispose, Custody!RecordNotCreated, Custody!BeginFinish,
                      Custody!Complete, Custody!BeginCleanup, Custody!GitRemove
  <2> QED BY <1>0, <2>1, OthersAddNothing
<1>5. ASSUME NEW a \in Attempt,
             \/ Custody!RemoveFailed(a) \/ Custody!RecordCleaned(a) \/ Custody!RecordDisposed(a)
             \/ Custody!Retain(a) \/ Custody!EndHandoff(a)
      PROVE  Bounded'
  <2>1. Prospective' \subseteq Prospective
    BY <1>0, <1>5 DEF Custody!RemoveFailed, Custody!RecordCleaned, Custody!RecordDisposed,
                      Custody!Retain, Custody!EndHandoff
  <2> QED BY <1>0, <2>1, OthersAddNothing
<1>6. ASSUME NEW a \in Attempt, Custody!Reconcile(a) \/ Custody!Cleanup(a) \/ Custody!RemoveManifest(a)
      PROVE  Bounded'
  <2>1. Prospective' \subseteq Prospective
    BY <1>0, <1>6 DEF Custody!Reconcile, Custody!ReconcileAbsent, Custody!ReconcileInconsistent,
                      Custody!ReconcileCleanup, Custody!ReconcileRetained, Custody!Cleanup,
                      Custody!RemoveManifest
  <2> QED BY <1>0, <2>1, OthersAddNothing
<1>7. CASE \/ Custody!Register \/ Custody!RegistrationAnswered \/ Custody!RegistrationLost
           \/ Custody!ClearDisposals \/ Custody!Crash \/ Custody!Start \/ Custody!Ready
  <2>1. Prospective' \subseteq Prospective
    BY <1>0, <1>7 DEF Custody!Register, Custody!RegistrationAnswered, Custody!RegistrationLost,
                      Custody!ClearDisposals, Custody!Crash, Custody!Start, Custody!Ready
  <2> QED BY <1>0, <2>1, OthersAddNothing
<1> QED BY <1>1, <1>2, <1>3, <1>4, <1>5, <1>6, <1>7
        DEF Custody!Next, Custody!Run, Custody!Registration

-----------------------------------------------------------------------------
(* Worktrees: the theorems *)

LEMMA CustodyStart == Custody!Init => CustodyInv
<1> SUFFICES ASSUME Custody!Init PROVE CustodyInv
  OBVIOUS
<1>1. Custody!TypeOK
  <2>1. released \in [Attempt -> BOOLEAN]
    BY DEF Custody!Init
  <2>2. unsaved \in [Attempt -> BOOLEAN]
    BY DEF Custody!Init
  <2>3. /\ server \in [Attempt -> {"none", "active", "ended"}]
        /\ step \in [Attempt -> Custody!HandoffSteps \cup
               {"none", "claimed", "adding", "added", "working", "finish", "dispose", "settled"}]
        /\ manifest \in [Attempt -> Custody!Lifecycle]
        /\ worktree \in [Attempt -> {"absent", "partial", "present"}]
    BY DEF Custody!Init, Custody!Lifecycle
  <2>4. /\ usable \in BOOLEAN /\ fatal \in BOOLEAN /\ registered \in BOOLEAN
        /\ up \in {"down", "starting", "ready", "cleanup"} /\ registering \in {"no", "send", "remove"}
    BY DEF Custody!Init
  <2>5. /\ counted \subseteq Attempt /\ retained \subseteq Attempt /\ disposed \subseteq Attempt
        /\ journal \subseteq Attempt /\ crashes \in 0..MaxCrashes
    BY CustodyNumbers DEF Custody!Init
  <2> QED BY <2>1, <2>2, <2>3, <2>4, <2>5 DEF Custody!TypeOK
<1>3. TraceInv /\ AnswerInv
  BY DEF Custody!Init, TraceInv, AnswerInv, Untouched, StepsOf, Answering
<1>2. Prospective = {}
  BY DEF Custody!Init, Prospective
<1> QED BY <1>1, <1>2, <1>3, FS_EmptySet, CustodyNumbers DEF CustodyInv, Bounded

LEMMA CustodyStep == ASSUME CustodyInv, [Next]_vars PROVE CustodyInv'
<1>1. CASE Keeping(Custody!Next)
  BY <1>1, CustodyTypes, Traced, BoundKept DEF Keeping, CustodyInv
<1>2. CASE UNCHANGED custodyVars
  <2> USE <1>2 DEF custodyVars, CustodyInv
  <2>1. Custody!TypeOK'
    BY DEF Custody!TypeOK
  <2>2. TraceInv' /\ AnswerInv'
    BY DEF TraceInv, AnswerInv, Untouched
  <2>3. Bounded'
    BY DEF Bounded, Prospective
  <2> QED BY <2>1, <2>2, <2>3
<1> QED BY <1>1, <1>2 DEF Next, Routing, vars

LEMMA InvAccounts == ASSUME CustodyInv PROVE WorktreesAccountedFor
<1>1. Custody!DiskIsAccountedFor
  BY DEF CustodyInv, Custody!TypeOK, TraceInv, Custody!DiskIsAccountedFor, Custody!OnDisk
<1>2. usable => Custody!OnDisk \subseteq counted \cup Custody!Reserved
  BY DEF CustodyInv, Custody!TypeOK, TraceInv, AnswerInv, Untouched, Custody!OnDisk, Custody!Reserved
<1>3. Cardinality(Custody!OnDisk) <= Limit
  <2>1. IsFiniteSet(Prospective) /\ Custody!OnDisk \subseteq Prospective
    BY CustodyNumbers, FS_Subset DEF Prospective, Custody!OnDisk
  <2>2. /\ Cardinality(Custody!OnDisk) <= Cardinality(Prospective)
        /\ Cardinality(Custody!OnDisk) \in Nat /\ Cardinality(Prospective) \in Nat
    BY <2>1, FS_Subset, FS_CardinalityType
  <2> QED BY <2>2, CustodyNumbers DEF CustodyInv, Bounded
<1> QED BY <1>1, <1>2, <1>3, CustodyCardinality
        DEF WorktreesAccountedFor, Custody!WorktreesAccountedFor, Custody!WorktreesBounded, CustodyInv

\* Whatever is claimed, lost, cleaned up or crashes in between, no worktree is on the
\* disk without a manifest, none is journalled as gone that is there, the server counts
\* or reserves each one of a worker it may give work to, and there are never more than
\* the limit (WorktreeAdd, reconcile, RegisterWorker's release).
THEOREM WorktreesAlwaysAccountedFor == Spec => []WorktreesAccountedFor
<1>1. Init => CustodyInv
  BY CustodyStart DEF Init
<1>2. CustodyInv /\ [Next]_vars => CustodyInv'
  BY CustodyStep
<1>3. CustodyInv => WorktreesAccountedFor
  BY InvAccounts
<1> QED BY <1>1, <1>2, <1>3, PTL DEF Spec

\* Only an operator's confirmation removes uncommitted or unpublished work: whatever takes
\* a worktree from the disk found it clean or was told to (cleanCompletedWorktree,
\* automaticCleanupEligible, cleanup --force).
THEOREM UnsavedWorkAlwaysSurvives == Spec => UnsavedWorkSurvives
<1>1. Init => CustodyInv
  BY CustodyStart DEF Init
<1>2. CustodyInv /\ [Next]_vars => CustodyInv'
  BY CustodyStep
<1>3. CustodyInv /\ [Next]_vars =>
        [\A a \in Attempt : worktree[a] = "present" /\ worktree'[a] # "present" /\ unsaved[a]
           => manifest[a] = "cleanup_operator"]_Custody!vars
  <2> SUFFICES ASSUME CustodyInv, [Next]_vars, ~ UNCHANGED Custody!vars,
                      NEW x \in Attempt, worktree[x] = "present", worktree'[x] # "present", unsaved[x]
               PROVE  manifest[x] = "cleanup_operator"
    OBVIOUS
  <2>1. Custody!Next
    BY DEF Next, vars, Keeping, Routing, custodyVars, Custody!vars, Custody!serverVars,
           Custody!memoryVars, Custody!diskVars
  <2>2. worktree \in [Attempt -> {"absent", "partial", "present"}]
    BY DEF CustodyInv, Custody!TypeOK
  <2> USE <2>2 DEF Custody!diskVars, Custody!Go
  <2>3. ~ UNCHANGED worktree
    OBVIOUS
  <2>4. PICK a \in Attempt : Custody!GitAdd(a) \/ Custody!GitRemove(a)
    <3>1. ASSUME NEW a \in Attempt, Custody!Claim(a) \/ Custody!SweepExpired(a) \/ Custody!Cleanup(a)
                                     \/ Custody!Edit(a) \/ Custody!RemoveManifest(a)
          PROVE  UNCHANGED worktree
      BY <3>1 DEF Custody!Claim, Custody!SweepExpired, Custody!Cleanup, Custody!Edit,
                  Custody!RemoveManifest
    <3>2. ASSUME NEW a \in Attempt, Custody!Run(a), ~ Custody!GitAdd(a), ~ Custody!GitRemove(a)
          PROVE  UNCHANGED worktree
      BY <3>2 DEF Custody!Run, Custody!CreateManifest, Custody!AddFailed, Custody!RecordWorktree,
                  Custody!Work, Custody!BeginDispose, Custody!RecordNotCreated, Custody!BeginFinish,
                  Custody!Complete, Custody!BeginCleanup, Custody!RemoveFailed,
                  Custody!RecordCleaned, Custody!RecordDisposed, Custody!Retain, Custody!EndHandoff
    <3>3. ASSUME NEW a \in Attempt, Custody!Reconcile(a) PROVE UNCHANGED worktree
      BY <3>3 DEF Custody!Reconcile, Custody!ReconcileAbsent, Custody!ReconcileInconsistent,
                  Custody!ReconcileCleanup, Custody!ReconcileRetained
    <3>4. CASE \/ Custody!Register \/ Custody!RegistrationAnswered \/ Custody!RegistrationLost
               \/ Custody!ClearDisposals \/ Custody!Crash \/ Custody!Start \/ Custody!Ready
      BY <3>4 DEF Custody!Register, Custody!RegistrationAnswered, Custody!RegistrationLost,
                  Custody!ClearDisposals, Custody!Crash, Custody!Start, Custody!Ready
    <3> QED BY <2>1, <2>3, <3>1, <3>2, <3>3, <3>4 DEF Custody!Next, Custody!Registration
  <2>5. CASE Custody!GitAdd(a)
    BY <2>5 DEF Custody!GitAdd
  <2>6. CASE Custody!GitRemove(a)
    BY <2>6 DEF Custody!GitRemove, Custody!Removable
  <2> QED BY <2>4, <2>5, <2>6
<1> QED BY <1>1, <1>2, <1>3, PTL DEF Spec, UnsavedWorkSurvives, Custody!UnsavedWorkSurvives

-----------------------------------------------------------------------------
(* Places: the inductive invariant *)

Workers == {worker1, worker2}
Repositories == {repository1, repository2}

Book == [row : [Workers -> [Repositories -> [kind : {"none", "static", "dynamic"},
                                             advertised : BOOLEAN]]],
         stage : [Registry!Sessions -> {"none", "blocked", "queued", "open", "ended"}],
         at : [Registry!Sessions -> Workers \cup {None}]]

\* In the middle of a transaction, where Session s is of repository of[s]: what Work that
\* waits or runs needs of a worker.
Needs(b, of, w, r) ==
  \E s \in Registry!Sessions :
    of[s] = r /\ b.stage[s] \in {"queued", "open"} /\ b.at[s] = w
Runs(b, of, w, r) ==
  \E s \in Registry!Sessions : of[s] = r /\ b.stage[s] = "open" /\ b.at[s] = w
\* The places the worker fills or may fill: what it cloned, and every reservation that
\* Work or a retained worktree keeps, or kept when the registration under way was sent.
Holds(w, r) == r \in kept[w] \/ (flight[w] # None /\ r \in flight[w].kept)
Filled(b, of, w) ==
  known[w] \cup {r \in Repositories :
                   b.row[w][r].kind = "dynamic" /\ (Needs(b, of, w, r) \/ Holds(w, r))}
\* The places the server knows to be taken.
Taken(b, w) == cached[w] \cup Registry!Reserved(b, w)
Fit(S) == Cardinality(S) <= MaxEntries

BookTypes(b, of) ==
  /\ b \in Book /\ of \in [Registry!Sessions -> Repositories \cup {None}]
  /\ \A s \in Registry!Sessions :
       /\ b.stage[s] # "none" => of[s] \in Repositories
       /\ b.stage[s] \in {"queued", "open"} => b.at[s] \in Workers
RowsStand(b, of) ==
  \A w \in Workers, r \in Repositories :
    /\ b.row[w][r].advertised => b.row[w][r].kind # "none"
    /\ b.row[w][r].advertised /\ b.row[w][r].kind = "dynamic" => accepts[w]
    /\ Needs(b, of, w, r) =>
         /\ b.row[w][r].kind # "none"
         /\ b.row[w][r].kind = "dynamic" /\ accepts[w] => b.row[w][r].advertised
PlacesFit(b, of) ==
  ~overtaken => \A w \in Workers :
    /\ Fit(Filled(b, of, w)) /\ Fit(Taken(b, w))
    /\ accepts[w] => Filled(b, of, w) \subseteq Taken(b, w)
\* A worker that may claim, or is at work, is registered with the checkout it has.
Known(w) == answered[w] = "yes" \/ doing[w] # {}
CheckoutsStand(b) ==
  \A w \in Workers : Known(w) => \A r \in Repositories :
    b.row[w][r].kind = "static" /\ b.row[w][r].advertised <=> r = configured[w]
\* What it is at is open there, and what it is to clone has a row of its own.
WorkStands(b, of) ==
  \A w \in Workers : \A s \in doing[w] :
    /\ b.stage[s] = "open" /\ b.at[s] = w
    /\ of[s] = configured[w] \/ b.row[w][of[s]].kind = "dynamic"
\* What happened since a registration was sent: clones for Work that is still open, and
\* worktrees of repositories the worker has.
FlightsStand(b, of) ==
  \A w \in Workers : flight[w] # None =>
    /\ flight[w].configured = configured[w] /\ flight[w].known \subseteq known[w]
    /\ kept[w] \subseteq flight[w].kept \cup known[w] \cup {configured[w]}
    /\ ~overtaken => \A r \in known[w] \ flight[w].known :
         r # configured[w] /\ b.row[w][r].kind = "dynamic" /\ Runs(b, of, w, r)

BookInv(b, of) ==
  /\ BookTypes(b, of) /\ RowsStand(b, of) /\ PlacesFit(b, of) /\ CheckoutsStand(b)
  /\ WorkStands(b, of) /\ FlightsStand(b, of)
RegistryInv == Registry!TypeOK /\ BookInv(Registry!Book, repository)

LEMMA RegistryNumbers ==
  MaxEntries \in Nat /\ MaxWork \in Nat /\ MaxChanges \in Nat /\ Registry!Sessions = 1..MaxWork
BY Constants DEF Registry!RegistryConstants, Registry!Sessions
LEMMA NoneIsNobody == None \notin Workers /\ None \notin Repositories
BY Constants DEF Registry!RegistryConstants, Workers, Repositories
LEMMA RegistryCardinality == ASSUME NEW S PROVE Registry!Cardinality(S) = Cardinality(S)
BY DEF Registry!Cardinality, Cardinality

\* Repositories are few: every set of them is finite.
LEMMA RepositoriesFinite ==
  /\ IsFiniteSet(Repositories)
  /\ \A S \in SUBSET Repositories : IsFiniteSet(S) /\ Cardinality(S) \in Nat
<1>1. IsFiniteSet({} \cup {repository1} \cup {repository2})
  BY FS_EmptySet, FS_AddElement
<1>2. {} \cup {repository1} \cup {repository2} = Repositories
  BY DEF Repositories
<1>3. IsFiniteSet(Repositories)
  BY <1>1, <1>2
<1> QED BY <1>3, FS_Subset, FS_CardinalityType

LEMMA FitsLess ==
  ASSUME NEW S \in SUBSET Repositories, NEW T \in SUBSET Repositories, S \subseteq T, Fit(T)
  PROVE  Fit(S)
<1>1. /\ Cardinality(S) <= Cardinality(T) /\ Cardinality(S) \in Nat /\ Cardinality(T) \in Nat
  BY RepositoriesFinite, FS_Subset
<1> QED BY <1>1, RegistryNumbers DEF Fit

LEMMA FitsOneMore ==
  ASSUME NEW S \in SUBSET Repositories, NEW r \in Repositories, Cardinality(S) < MaxEntries
  PROVE  Fit(S \cup {r})
<1>1. IsFiniteSet(S) /\ Cardinality(S) \in Nat
  BY RepositoriesFinite
<1>2. CASE r \in S
  <2>1. S \cup {r} = S
    BY <1>2
  <2>2. Fit(S)
    BY <1>1, RegistryNumbers DEF Fit
  <2> QED BY <2>1, <2>2
<1>3. CASE r \notin S
  <2> DEFINE T == S \cup {r}
  <2>1. Cardinality(T) = Cardinality(S) + 1
    BY <1>1, <1>3, FS_AddElement
  <2> HIDE DEF T
  <2>2. Fit(T)
    BY <1>1, <2>1, RegistryNumbers DEF Fit
  <2> QED BY <2>2 DEF T
<1> QED BY <1>2, <1>3

-----------------------------------------------------------------------------
(* Places: what a transaction does to its book *)

LEMMA BookParts ==
  Registry!Book.row = row /\ Registry!Book.stage = stage /\ Registry!Book.at = at
BY DEF Registry!Book

LEMMA PlaceSets ==
  ASSUME Registry!TypeOK, NEW b, NEW of, NEW w \in Workers
  PROVE  /\ Filled(b, of, w) \in SUBSET Repositories /\ Taken(b, w) \in SUBSET Repositories
         /\ cached[w] \in SUBSET Repositories /\ known[w] \in SUBSET Repositories
BY DEF Registry!TypeOK, Filled, Taken, Registry!Reserved, Workers, Repositories

\* The route that CanTake finds may be reserved.
LEMMA ReserveKeeps ==
  ASSUME Registry!TypeOK, NEW b, NEW of, BookInv(b, of), NEW w \in Workers, NEW r \in Repositories,
         Registry!CanTake(b, w, r)
  PROVE  /\ BookInv(Registry!Reserve(b, w, r), of) /\ Registry!Reserve(b, w, r).row[w][r].advertised
         /\ Registry!Reserve(b, w, r).stage = b.stage /\ Registry!Reserve(b, w, r).at = b.at
<1>1. CASE b.row[w][r].advertised
  BY <1>1 DEF Registry!Reserve
<1>2. CASE ~b.row[w][r].advertised
  <2> DEFINE c == Registry!Reserve(b, w, r)
  <2>0. /\ b \in Book /\ c = [b EXCEPT !.row[w][r] = [kind |-> "dynamic", advertised |-> TRUE]]
    BY <1>2 DEF Registry!Reserve, BookInv, BookTypes
  <2>1. /\ c \in Book /\ c.stage = b.stage /\ c.at = b.at
        /\ c.row[w][r].kind = "dynamic" /\ c.row[w][r].advertised
        /\ \A v \in Workers, q \in Repositories :
             v # w \/ q # r => c.row[v][q] = b.row[v][q]
    <3> DEFINE cell == [kind |-> "dynamic", advertised |-> TRUE]
               line == [b.row[w] EXCEPT ![r] = cell]
               rows == [b.row EXCEPT ![w] = line]
    <3>1. cell \in [kind : {"none", "static", "dynamic"}, advertised : BOOLEAN]
      OBVIOUS
    <3>2. c = [b EXCEPT !.row = rows]
      BY <2>0
    <3>3. cell.kind = "dynamic" /\ cell.advertised
      OBVIOUS
    <3> HIDE DEF cell
    <3>4. /\ line \in [Repositories -> [kind : {"none", "static", "dynamic"}, advertised : BOOLEAN]]
          /\ line[r] = cell /\ \A q \in Repositories : q # r => line[q] = b.row[w][q]
      BY <2>0, <3>1 DEF Book
    <3> HIDE DEF line
    <3>5. /\ rows \in [Workers -> [Repositories -> [kind : {"none", "static", "dynamic"},
                                                    advertised : BOOLEAN]]]
          /\ rows[w] = line /\ \A v \in Workers : v # w => rows[v] = b.row[v]
      BY <2>0, <3>4 DEF Book
    <3> HIDE DEF rows
    <3>6. c \in Book /\ c.row = rows /\ c.stage = b.stage /\ c.at = b.at
      BY <2>0, <3>2, <3>5 DEF Book
    <3> QED BY <3>3, <3>4, <3>5, <3>6
  <2>2. accepts[w] /\ (r \in cached[w] \/ Cardinality(Taken(b, w)) < MaxEntries)
    BY <1>2, RegistryCardinality DEF Registry!CanTake, Registry!CacheUse, Taken
  <2> HIDE DEF c
  <2>3. \A v, q : Needs(c, of, v, q) <=> Needs(b, of, v, q)
    BY <2>1 DEF Needs
  <2>4. BookTypes(c, of)
    BY <2>1 DEF BookInv, BookTypes
  <2>5. RowsStand(c, of)
    BY <2>1, <2>2, <2>3 DEF BookInv, RowsStand
  <2>6. PlacesFit(c, of)
    <3> SUFFICES ASSUME ~overtaken, NEW v \in Workers
                 PROVE  /\ Fit(Filled(c, of, v)) /\ Fit(Taken(c, v))
                        /\ accepts[v] => Filled(c, of, v) \subseteq Taken(c, v)
      BY DEF PlacesFit
    <3>1. /\ Fit(Filled(b, of, v)) /\ Fit(Taken(b, v))
          /\ accepts[v] => Filled(b, of, v) \subseteq Taken(b, v)
      BY DEF BookInv, PlacesFit
    <3>2. CASE v # w
      <4>1. Filled(c, of, v) = Filled(b, of, v) /\ Taken(c, v) = Taken(b, v)
        BY <2>1, <2>3, <3>2 DEF Filled, Taken, Registry!Reserved, Repositories
      <4> QED BY <3>1, <4>1
    <3>3. CASE v = w
      <4>1. Taken(c, w) = Taken(b, w) \cup {r}
        BY <2>1 DEF Taken, Registry!Reserved, Repositories
      <4>2. Filled(c, of, w) \subseteq Filled(b, of, w) \cup {r}
        BY <2>1, <2>3 DEF Filled
      <4>3. Fit(Taken(c, w))
        <5>1. CASE r \in cached[w]
          <6>1. Taken(c, w) = Taken(b, w)
            BY <4>1, <5>1 DEF Taken
          <6> QED BY <3>1, <3>3, <6>1
        <5>2. CASE Cardinality(Taken(b, w)) < MaxEntries
          BY <4>1, <5>2, PlaceSets, FitsOneMore
        <5> QED BY <2>2, <5>1, <5>2
      <4>4. Filled(c, of, w) \subseteq Taken(c, w)
        BY <2>2, <3>1, <3>3, <4>1, <4>2
      <4> QED BY <3>3, <4>3, <4>4, PlaceSets, FitsLess
    <3> QED BY <3>2, <3>3
  <2>7. CheckoutsStand(c)
    BY <1>2, <2>1 DEF BookInv, CheckoutsStand
  <2>8. WorkStands(c, of)
    <3>1. \A v \in Workers : \A s \in doing[v] : s \in Registry!Sessions
      BY DEF Registry!TypeOK, Workers
    <3>2. \A v \in Workers : \A s \in doing[v] : of[s] \in Repositories
      BY <3>1 DEF BookInv, WorkStands, BookTypes
    <3> QED BY <2>1, <3>2 DEF BookInv, WorkStands
  <2>9. FlightsStand(c, of)
    <3>1. \A v \in Workers : \A q \in known[v] : q \in Repositories
      BY PlaceSets
    <3>2. \A v, q : Runs(c, of, v, q) <=> Runs(b, of, v, q)
      BY <2>1 DEF Runs
    <3> QED BY <2>1, <3>1, <3>2 DEF BookInv, FlightsStand
  <2> QED BY <2>1, <2>4, <2>5, <2>6, <2>7, <2>8, <2>9 DEF BookInv, c
<1> QED BY <1>1, <1>2

\* Work may stop needing a place, and begin to need one that is advertised; what runs
\* goes on.
LEMMA NeedsMayChange ==
  ASSUME Registry!TypeOK, NEW b, NEW old, BookInv(b, old), NEW c, NEW of, BookTypes(c, of),
         c.row = b.row,
         \A w \in Workers, r \in Repositories :
           /\ Needs(c, of, w, r) => Needs(b, old, w, r) \/ b.row[w][r].advertised
           /\ Runs(b, old, w, r) => Runs(c, of, w, r),
         \A w \in Workers : \A s \in doing[w] :
           c.stage[s] = "open" /\ c.at[s] = b.at[s] /\ of[s] = old[s]
  PROVE  BookInv(c, of)
<1>1. RowsStand(c, of)
  BY DEF BookInv, RowsStand
<1>2. PlacesFit(c, of)
  <2> SUFFICES ASSUME ~overtaken, NEW w \in Workers
               PROVE  /\ Fit(Filled(c, of, w)) /\ Fit(Taken(c, w))
                      /\ accepts[w] => Filled(c, of, w) \subseteq Taken(c, w)
    BY DEF PlacesFit
  <2>1. /\ Fit(Filled(b, old, w)) /\ Fit(Taken(b, w))
        /\ accepts[w] => Filled(b, old, w) \subseteq Taken(b, w)
    BY DEF BookInv, PlacesFit
  <2>2. Taken(c, w) = Taken(b, w)
    BY DEF Taken, Registry!Reserved
  <2>3. \A r \in Repositories :
          b.row[w][r].kind = "dynamic" /\ b.row[w][r].advertised => r \in Taken(b, w) /\ accepts[w]
    BY DEF Taken, Registry!Reserved, BookInv, RowsStand, Repositories
  <2>4. Filled(c, of, w) \subseteq Filled(b, old, w) \cup Taken(b, w)
    BY <2>3 DEF Filled
  <2>5. CASE accepts[w]
    <3>1. Filled(c, of, w) \subseteq Taken(c, w)
      BY <2>1, <2>2, <2>4, <2>5
    <3>2. Fit(Taken(c, w))
      BY <2>1, <2>2
    <3> QED BY <3>1, <3>2, PlaceSets, FitsLess
  <2>6. CASE ~accepts[w]
    <3>1. Filled(c, of, w) \subseteq Filled(b, old, w)
      BY <2>3, <2>6 DEF Filled
    <3>2. Fit(Taken(c, w))
      BY <2>1, <2>2
    <3> QED BY <2>1, <2>6, <3>1, <3>2, PlaceSets, FitsLess
  <2> QED BY <2>5, <2>6
<1>3. CheckoutsStand(c)
  BY DEF BookInv, CheckoutsStand
<1>4. WorkStands(c, of)
  BY DEF BookInv, WorkStands
<1>5. FlightsStand(c, of)
  <2>1. \A w \in Workers : \A r \in known[w] : r \in Repositories
    BY PlaceSets
  <2> QED BY <2>1 DEF BookInv, FlightsStand
<1> QED BY <1>1, <1>2, <1>3, <1>4, <1>5 DEF BookInv

\* A worker is at Sessions that are open, each of a repository.
LEMMA DoingIsOpen ==
  ASSUME Registry!TypeOK, NEW b, NEW of, BookInv(b, of), NEW w \in Workers, NEW s \in doing[w]
  PROVE  s \in Registry!Sessions /\ b.stage[s] = "open" /\ b.at[s] = w /\ of[s] \in Repositories
<1>1. s \in Registry!Sessions
  BY DEF Registry!TypeOK, Workers
<1> QED BY <1>1 DEF BookInv, WorkStands, BookTypes

\* Session s, which does not run, is queued for repository r on a worker that has it.
LEMMA QueueKeeps ==
  ASSUME Registry!TypeOK, NEW b, NEW old, BookInv(b, old), NEW s \in Registry!Sessions,
         NEW w \in Workers, NEW r \in Repositories,
         b.stage[s] \in {"none", "blocked", "queued"}, b.row[w][r].advertised
  PROVE  BookInv([b EXCEPT !.stage[s] = "queued", !.at[s] = w], [old EXCEPT ![s] = r])
<1> DEFINE stages == [b.stage EXCEPT ![s] = "queued"]
           places == [b.at EXCEPT ![s] = w]
           c == [[b EXCEPT !.stage = stages] EXCEPT !.at = places]
           of == [old EXCEPT ![s] = r]
<1>1. b \in Book /\ old \in [Registry!Sessions -> Repositories \cup {None}]
  BY DEF BookInv, BookTypes
<1>2. /\ stages \in [Registry!Sessions -> {"none", "blocked", "queued", "open", "ended"}]
      /\ stages[s] = "queued" /\ \A z \in Registry!Sessions : z # s => stages[z] = b.stage[z]
  BY <1>1 DEF Book
<1>3. /\ places \in [Registry!Sessions -> Workers \cup {None}]
      /\ places[s] = w /\ \A z \in Registry!Sessions : z # s => places[z] = b.at[z]
  BY <1>1 DEF Book
<1>4. /\ of \in [Registry!Sessions -> Repositories \cup {None}]
      /\ of[s] = r /\ \A z \in Registry!Sessions : z # s => of[z] = old[z]
  BY <1>1
<1>5. c = [b EXCEPT !.stage[s] = "queued", !.at[s] = w]
  BY <1>1 DEF Book
<1> HIDE DEF stages, places, of
<1>6. c \in Book /\ c.row = b.row /\ c.stage = stages /\ c.at = places
  BY <1>1, <1>2, <1>3 DEF Book
<1> HIDE DEF c
<1>7. BookTypes(c, of)
  BY <1>2, <1>3, <1>4, <1>6 DEF BookInv, BookTypes
<1>8. \A v \in Workers, q \in Repositories :
        /\ Needs(c, of, v, q) => Needs(b, old, v, q) \/ b.row[v][q].advertised
        /\ Runs(b, old, v, q) => Runs(c, of, v, q)
  BY <1>2, <1>3, <1>4, <1>6 DEF Needs, Runs
<1>9. \A v \in Workers : \A z \in doing[v] :
        c.stage[z] = "open" /\ c.at[z] = b.at[z] /\ of[z] = old[z]
  BY <1>2, <1>3, <1>4, <1>6, DoingIsOpen
<1>10. BookInv(c, of)
  BY <1>6, <1>7, <1>8, <1>9, NeedsMayChange
<1> QED BY <1>5, <1>10 DEF of

\* The same, of the repository it has.
LEMMA RouteKeeps ==
  ASSUME Registry!TypeOK, NEW b, BookInv(b, repository), NEW s \in Registry!Sessions,
         NEW w \in Workers, b.stage[s] \in {"blocked", "queued"},
         Registry!CanTake(b, w, repository[s])
  PROVE  BookInv(Registry!Queue(b, s, w), repository)
<1> DEFINE r == repository[s]
           c == Registry!Reserve(b, w, r)
<1>1. r \in Repositories
  BY DEF BookInv, BookTypes
<1>2. BookInv(c, repository) /\ c.row[w][r].advertised /\ c.stage = b.stage
  BY <1>1, ReserveKeeps
<1>3. repository = [repository EXCEPT ![s] = r]
  BY DEF BookInv, BookTypes
<1>4. Registry!Queue(b, s, w) = [c EXCEPT !.stage[s] = "queued", !.at[s] = w]
  BY DEF Registry!Queue
<1> HIDE DEF c, r
<1>5. BookInv([c EXCEPT !.stage[s] = "queued", !.at[s] = w], [repository EXCEPT ![s] = r])
  BY <1>1, <1>2, QueueKeeps
<1> QED BY <1>3, <1>4, <1>5

LEMMA MaterializedKeeps ==
  ASSUME Registry!TypeOK, NEW b, BookInv(b, repository), NEW w \in Workers,
         NEW c \in Registry!Materialized(b, w)
  PROVE  BookInv(c, repository)
<1> DEFINE ready == {s \in Registry!Sessions :
                       /\ b.stage[s] = "blocked" /\ managed[repository[s]] # "disabled"
                       /\ Registry!CanTake(b, w, repository[s])}
<1>1. CASE ready = {}
  BY <1>1 DEF Registry!Materialized
<1>2. CASE ready # {}
  <2>1. PICK s \in ready : c = Registry!Queue(b, s, w)
    BY <1>2 DEF Registry!Materialized
  <2> QED BY <2>1, RouteKeeps
<1> QED BY <1>1, <1>2

-----------------------------------------------------------------------------
(* Places: claims walk through the queue *)

\* A finite set of numbers that is not empty has a highest one.
LEMMA HighestExists ==
  ASSUME NEW T, T \subseteq Nat, IsFiniteSet(T), T # {}
  PROVE  \E m \in T : \A t \in T : ~ (t > m)
<1> DEFINE Above(s) == {t \in T : t >= s}
           F == {Above(s) : s \in T}
<1>1. F \subseteq FiniteSubsetsOf(T)
  <2>1. ASSUME NEW s \in T PROVE Above(s) \in SUBSET T /\ IsFiniteSet(Above(s))
    BY FS_Subset
  <2> QED BY <2>1 DEF FiniteSubsetsOf
<1>2. F # {}
  OBVIOUS
<1>3. IsWellFoundedOn(StrictSubsetOrdering(T), FiniteSubsetsOf(T))
  BY FS_StrictSubsetOrderingWellFounded
<1> HIDE DEF F
<1>4. PICK X \in F : \A Y \in F : ~ (<<Y, X>> \in StrictSubsetOrdering(T))
  BY <1>1, <1>2, <1>3, WFMin
<1>5. PICK m \in T : X = Above(m)
  BY <1>4 DEF F
<1>6. ASSUME NEW t \in T, t > m PROVE FALSE
  <2>1. Above(t) \in F
    BY DEF F
  <2>2. Above(t) \subseteq X /\ Above(t) # X
    <3>1. m \in X /\ m \notin Above(t)
      BY <1>5, <1>6
    <3>2. ASSUME NEW u \in T, u >= t PROVE u >= m
      <4>1. u \in Nat /\ t \in Nat /\ m \in Nat
        OBVIOUS
      <4> QED BY <4>1, <3>2, <1>6
    <3> QED BY <3>1, <3>2, <1>5
  <2>3. <<Above(t), X>> \in StrictSubsetOrdering(T)
    BY <2>2, <1>5 DEF StrictSubsetOrdering
  <2> QED BY <2>1, <2>3, <1>4
<1> QED BY <1>6

\* A set that holds 0, and the next number of every one it holds, holds all of them.
LEMMA StepsReach ==
  ASSUME NEW N \in Nat, NEW T \in SUBSET (0..N), 0 \in T,
         \A n \in 0..N : n \in T /\ n < N => n + 1 \in T
  PROVE  N \in T
<1>1. IsFiniteSet(0..N)
  BY FS_Interval
<1>2. IsFiniteSet(T) /\ T \subseteq Nat /\ T # {}
  <2>1. IsFiniteSet(T)
    BY <1>1, FS_Subset
  <2>2. T \subseteq Nat /\ T # {}
    OBVIOUS
  <2> QED BY <2>1, <2>2
<1>3. PICK m \in T : \A t \in T : ~ (t > m)
  BY <1>2, HighestExists
<1>4. m \in 0..N
  OBVIOUS
<1>5. CASE m < N
  <2>1. m + 1 \in T
    BY <1>4, <1>5
  <2> QED BY <1>3, <1>4, <2>1
<1> QED BY <1>4, <1>5

\* The walk through the queue is defined: each step follows from the one before.
IsWalk(f, b, w) ==
  f = [n \in 0..MaxWork |-> IF n = 0 THEN [book |-> b, moved |-> FALSE]
                            ELSE Registry!Reroute(f[n - 1], n, w)]
LEMMA WalkExists == ASSUME NEW b, NEW w PROVE \E f : IsWalk(f, b, w)
<1> DEFINE start == [book |-> b, moved |-> FALSE]
           Walk(f, k) == f = [n \in 0..k |-> IF n = 0 THEN start
                                             ELSE Registry!Reroute(f[n - 1], n, w)]
           T == {k \in 0..MaxWork : \E f : Walk(f, k)}
<1>1. MaxWork \in Nat
  BY RegistryNumbers
<1> HIDE DEF start
<1>2. 0 \in T
  <2>1. Walk([n \in 0..0 |-> start], 0)
    OBVIOUS
  <2> HIDE DEF Walk
  <2>2. \E f : Walk(f, 0)
    BY <2>1
  <2> QED BY <1>1, <2>2
<1>3. ASSUME NEW k \in 0..MaxWork, k \in T, k < MaxWork PROVE k + 1 \in T
  <2>1. PICK g : Walk(g, k)
    BY <1>3
  <2> DEFINE h == [n \in 0..(k + 1) |-> IF n = k + 1 THEN Registry!Reroute(g[k], k + 1, w)
                                        ELSE g[n]]
  <2>2. ASSUME NEW n \in 0..(k + 1)
        PROVE  h[n] = IF n = 0 THEN start ELSE Registry!Reroute(h[n - 1], n, w)
    <3>1. CASE n = 0
      <4>1. g[0] = start
        BY <1>1, <2>1
      <4> QED BY <1>1, <3>1, <4>1
    <3>2. CASE n # 0 /\ n # k + 1
      <4>1. n \in 0..k /\ n - 1 \in 0..k
        BY <1>1, <3>2
      <4>2. g[n] = Registry!Reroute(g[n - 1], n, w)
        BY <2>1, <3>2, <4>1
      <4>3. h[n] = g[n] /\ h[n - 1] = g[n - 1]
        BY <1>1, <3>2, <4>1
      <4> QED BY <3>2, <4>2, <4>3
    <3>3. CASE n = k + 1
      <4>1. h[n] = Registry!Reroute(g[k], n, w) /\ n - 1 = k
        BY <1>1, <3>3
      <4>2. h[k] = g[k]
        BY <1>1
      <4> QED BY <1>1, <3>3, <4>1, <4>2
    <3> QED BY <3>1, <3>2, <3>3
  <2>3. h = [n \in 0..(k + 1) |-> h[n]]
    OBVIOUS
  <2> HIDE DEF h
  <2>4. Walk(h, k + 1)
    BY <2>2, <2>3
  <2>5. k + 1 \in 0..MaxWork
    BY <1>1, <1>3
  <2> QED BY <2>4, <2>5
<1> HIDE DEF T
<1>4. T \in SUBSET (0..MaxWork)
  BY DEF T
<1>5. MaxWork \in T
  BY <1>1, <1>2, <1>3, <1>4, StepsReach
<1>6. PICK f : Walk(f, MaxWork)
  BY <1>5 DEF T
<1> QED BY <1>6 DEF IsWalk, start

WalkInv(x) == x \in [book : Book, moved : BOOLEAN] /\ BookInv(x.book, repository)

LEMMA RerouteKeeps ==
  ASSUME Registry!TypeOK, NEW x, WalkInv(x), NEW n \in Registry!Sessions, NEW w \in Workers
  PROVE  WalkInv(Registry!Reroute(x, n, w))
<1> DEFINE b == x.book
           v == b.at[n]
           r == repository[n]
<1>1. BookInv(b, repository) /\ x \in [book : Book, moved : BOOLEAN]
  BY DEF WalkInv
<1>2. ASSUME NEW d, BookInv(d, repository) PROVE d \in Book
  BY <1>2 DEF BookInv, BookTypes
<1>3. CASE x.moved \/ b.stage[n] # "queued" \/ v = w
  BY <1>3 DEF Registry!Reroute
<1>4. CASE ~x.moved /\ b.stage[n] = "queued" /\ v # w
  <2>1. v \in Workers /\ r \in Repositories
    BY <1>1, <1>4 DEF BookInv, BookTypes
  <2>2. CASE Registry!CanTake(b, v, r)
    <3> DEFINE d == Registry!Reserve(b, v, r)
    <3>1. Registry!Reroute(x, n, w) = [x EXCEPT !.book = d]
      BY <1>4, <2>2 DEF Registry!Reroute
    <3>2. BookInv(d, repository)
      BY <1>1, <2>1, <2>2, ReserveKeeps
    <3> HIDE DEF d
    <3>3. d \in Book
      BY <1>2, <3>2
    <3>4. [x EXCEPT !.book = d] \in [book : Book, moved : BOOLEAN] /\ [x EXCEPT !.book = d].book = d
      BY <1>1, <3>3
    <3> QED BY <3>1, <3>2, <3>4 DEF WalkInv
  <2>3. CASE ~Registry!CanTake(b, v, r) /\ Registry!CanTake(b, w, r)
    <3> DEFINE d == Registry!Queue(b, n, w)
    <3>1. Registry!Reroute(x, n, w) = [book |-> d, moved |-> TRUE]
      BY <1>4, <2>3 DEF Registry!Reroute
    <3>2. BookInv(d, repository)
      BY <1>1, <1>4, <2>3, RouteKeeps
    <3> HIDE DEF d
    <3>3. d \in Book
      BY <1>2, <3>2
    <3> QED BY <3>1, <3>2, <3>3 DEF WalkInv
  <2>4. CASE ~Registry!CanTake(b, v, r) /\ ~Registry!CanTake(b, w, r)
    BY <1>4, <2>4 DEF Registry!Reroute
  <2> QED BY <2>2, <2>3, <2>4
<1>5. x.moved \in BOOLEAN
  BY <1>1
<1> QED BY <1>3, <1>4, <1>5

LEMMA ReroutedKeeps ==
  ASSUME Registry!TypeOK, NEW b, BookInv(b, repository), NEW w \in Workers
  PROVE  BookInv(Registry!Rerouted(b, w), repository)
<1> DEFINE upTo == CHOOSE f : IsWalk(f, b, w)
           T == {k \in 0..MaxWork : WalkInv(upTo[k])}
<1>1. Registry!Rerouted(b, w) = upTo[MaxWork].book
  BY DEF Registry!Rerouted, IsWalk
<1>2. IsWalk(upTo, b, w)
  BY WalkExists
<1> HIDE DEF upTo
<1>3. upTo = [n \in 0..MaxWork |-> IF n = 0 THEN [book |-> b, moved |-> FALSE]
                                   ELSE Registry!Reroute(upTo[n - 1], n, w)]
  BY <1>2 DEF IsWalk
<1>4. MaxWork \in Nat /\ Registry!Sessions = 1..MaxWork
  BY RegistryNumbers
<1>5. 0 \in T
  <2>1. upTo[0] = [book |-> b, moved |-> FALSE]
    BY <1>3, <1>4
  <2>2. b \in Book
    BY DEF BookInv, BookTypes
  <2>3. upTo[0] \in [book : Book, moved : BOOLEAN]
    BY <2>1, <2>2
  <2>4. WalkInv(upTo[0])
    BY <2>1, <2>3 DEF WalkInv
  <2> QED BY <1>4, <2>4
<1>6. ASSUME NEW k \in 0..MaxWork, k \in T, k < MaxWork PROVE k + 1 \in T
  <2>1. k + 1 \in Registry!Sessions /\ k + 1 \in 0..MaxWork /\ k + 1 # 0 /\ (k + 1) - 1 = k
    BY <1>4, <1>6
  <2>2. upTo[k + 1] = Registry!Reroute(upTo[k], k + 1, w)
    BY <1>3, <2>1
  <2>3. WalkInv(upTo[k + 1])
    BY <1>6, <2>1, <2>2, RerouteKeeps
  <2> QED BY <2>1, <2>3
<1> HIDE DEF T
<1>7. T \in SUBSET (0..MaxWork)
  BY DEF T
<1>8. MaxWork \in T
  BY <1>4, <1>5, <1>6, <1>7, StepsReach
<1> QED BY <1>1, <1>8 DEF T, WalkInv

-----------------------------------------------------------------------------
(* Places: steps that change the books alone *)

\* What the invariant reads beside a book, the repositories of Sessions and what the
\* workers are at.
frame == <<cached, accepts, configured, known, kept, flight, overtaken>>

\* A transaction commits a book that stands.
LEMMA CommitKeepsWork ==
  ASSUME NEW d, NEW of, BookInv(d, of), Registry!Book' = d, repository' = of, UNCHANGED frame,
         \A w \in Workers : Known(w)' => Known(w), WorkStands(Registry!Book, repository)'
  PROVE  BookInv(Registry!Book, repository)'
<1> USE DEF frame
<1>1. \A w \in Workers, r \in Repositories :
        /\ Needs(Registry!Book, repository, w, r)' <=> Needs(d, of, w, r)
        /\ Runs(Registry!Book, repository, w, r)' <=> Runs(d, of, w, r)
        /\ Holds(w, r)' <=> Holds(w, r)
  BY DEF Needs, Runs, Holds
<1>2. \A w \in Workers : /\ Filled(Registry!Book, repository, w)' = Filled(d, of, w)
                         /\ Taken(Registry!Book, w)' = Taken(d, w)
  BY <1>1 DEF Filled, Taken, Registry!Reserved, Repositories
<1>3. BookTypes(Registry!Book, repository)'
  BY DEF BookInv, BookTypes
<1>4. RowsStand(Registry!Book, repository)'
  BY <1>1 DEF BookInv, RowsStand
<1>5. PlacesFit(Registry!Book, repository)'
  BY <1>2 DEF BookInv, PlacesFit
<1>6. CheckoutsStand(Registry!Book)'
  BY DEF BookInv, CheckoutsStand
<1>7. FlightsStand(Registry!Book, repository)'
  <2>1. \A w \in Workers, r \in Repositories :
          Runs(d, of, w, r) => Runs(Registry!Book, repository, w, r)'
    BY <1>1
  <2>2. Registry!Book' = d
    OBVIOUS
  <2>3. \A w \in Workers : flight[w] # None /\ ~overtaken =>
          \A r \in known[w] \ flight[w].known : r \in Repositories
    BY DEF BookInv, FlightsStand, Runs, BookTypes
  <2> QED BY <2>1, <2>2, <2>3 DEF BookInv, FlightsStand
<1> QED BY <1>3, <1>4, <1>5, <1>6, <1>7 DEF BookInv

LEMMA CommitKeeps ==
  ASSUME NEW d, NEW of, BookInv(d, of), Registry!Book' = d, repository' = of,
         UNCHANGED <<frame, doing, answered>>
  PROVE  BookInv(Registry!Book, repository)'
<1>1. \A w \in Workers : Known(w)' => Known(w)
  BY DEF Known
<1>2. WorkStands(Registry!Book, repository)'
  BY DEF BookInv, WorkStands, frame
<1> QED BY <1>1, <1>2, CommitKeepsWork

LEMMA SubmitKeeps ==
  ASSUME RegistryInv, NEW s \in Registry!Sessions, NEW r \in Repositories, Registry!Submit(s, r)
  PROVE  BookInv(Registry!Book, repository)'
<1> DEFINE of == [repository EXCEPT ![s] = r]
<1>0. /\ Registry!TypeOK /\ BookInv(Registry!Book, repository) /\ stage[s] = "none"
      /\ Registry!Book.stage[s] = "none"
      /\ repository' = of /\ UNCHANGED <<frame, doing, answered>>
  BY BookParts DEF RegistryInv, Registry!Submit, Registry!worker, frame
<1>1. ASSUME NEW w \in Workers, Registry!CanTake(Registry!Book, w, r),
             Registry!Write([Registry!Reserve(Registry!Book, w, r)
                               EXCEPT !.stage[s] = "queued", !.at[s] = w])
      PROVE  BookInv(Registry!Book, repository)'
  <2> DEFINE c == Registry!Reserve(Registry!Book, w, r)
             d == [c EXCEPT !.stage[s] = "queued", !.at[s] = w]
  <2>1. /\ BookInv(c, repository) /\ c.row[w][r].advertised /\ c.stage[s] = "none"
    BY <1>0, <1>1, ReserveKeeps
  <2> HIDE DEF c
  <2>2. BookInv(d, of)
    BY <1>0, <2>1, QueueKeeps
  <2>3. Registry!Book' = d
    <3>1. d \in Book
      BY <2>2 DEF BookInv, BookTypes
    <3>2. Registry!Write(d)
      BY <1>1 DEF c
    <3> HIDE DEF d
    <3> QED BY <3>1, <3>2 DEF Registry!Write, Registry!Book, Book
  <2> HIDE DEF d, of
  <2> QED BY <1>0, <2>2, <2>3, CommitKeeps
<1>2. CASE Registry!Write([Registry!Book EXCEPT !.stage[s] = "blocked"])
  <2> DEFINE stages == [stage EXCEPT ![s] = "blocked"]
             d == [row |-> row, stage |-> stages, at |-> at]
  <2>1. Registry!Book' = d
    BY <1>2 DEF Registry!Write, Registry!Book
  <2>2. /\ stages \in [Registry!Sessions -> {"none", "blocked", "queued", "open", "ended"}]
        /\ stages[s] = "blocked" /\ \A z \in Registry!Sessions : z # s => stages[z] = stage[z]
    BY <1>0 DEF Registry!TypeOK
  <2>3. /\ of \in [Registry!Sessions -> Repositories \cup {None}]
        /\ of[s] = r /\ \A z \in Registry!Sessions : z # s => of[z] = repository[z]
    BY <1>0 DEF BookInv, BookTypes
  <2> HIDE DEF stages, of
  <2>4. d \in Book /\ d.row = row /\ d.stage = stages /\ d.at = at
    BY <1>0, <2>2, BookParts DEF BookInv, BookTypes, Book
  <2> HIDE DEF d
  <2>5. BookTypes(d, of)
    BY <1>0, <2>2, <2>3, <2>4, BookParts DEF BookInv, BookTypes
  <2>6. \A v \in Workers, q \in Repositories :
          /\ Needs(d, of, v, q) => Needs(Registry!Book, repository, v, q)
          /\ Runs(Registry!Book, repository, v, q) => Runs(d, of, v, q)
    BY <1>0, <2>2, <2>3, <2>4, BookParts DEF Needs, Runs
  <2>7. \A v \in Workers : \A z \in doing[v] :
          d.stage[z] = "open" /\ d.at[z] = Registry!Book.at[z] /\ of[z] = repository[z]
    BY <1>0, <2>2, <2>3, <2>4, BookParts, DoingIsOpen
  <2>8. BookInv(d, of)
    BY <1>0, <2>4, <2>5, <2>6, <2>7, BookParts, NeedsMayChange
  <2> QED BY <1>0, <2>1, <2>8, CommitKeeps DEF of
<1> QED BY <1>1, <1>2 DEF Registry!Submit, Workers

\* Queued Sessions stop: they end, or are blocked.
LEMMA StopKeeps ==
  ASSUME Registry!TypeOK, BookInv(Registry!Book, repository), NEW stages, NEW places,
         stages \in [Registry!Sessions -> {"none", "blocked", "queued", "open", "ended"}],
         places \in [Registry!Sessions -> Workers \cup {None}],
         \A s \in Registry!Sessions :
           \/ stages[s] = stage[s] /\ places[s] = at[s]
           \/ stage[s] \in {"blocked", "queued"} /\ stages[s] \in {"blocked", "ended"},
         Registry!Book' = [row |-> row, stage |-> stages, at |-> places],
         UNCHANGED <<frame, repository, doing, answered>>
  PROVE  BookInv(Registry!Book, repository)'
<1> DEFINE d == [row |-> row, stage |-> stages, at |-> places]
<1>1. d \in Book /\ d.row = row /\ d.stage = stages /\ d.at = places
  BY BookParts DEF BookInv, BookTypes, Book
<1> HIDE DEF d
<1>2. BookTypes(d, repository)
  BY <1>1, BookParts DEF BookInv, BookTypes
<1>3. \A v \in Workers, q \in Repositories :
        /\ Needs(d, repository, v, q) => Needs(Registry!Book, repository, v, q)
        /\ Runs(Registry!Book, repository, v, q) => Runs(d, repository, v, q)
  BY <1>1, BookParts DEF Needs, Runs
<1>4. \A v \in Workers : \A z \in doing[v] :
        d.stage[z] = "open" /\ d.at[z] = Registry!Book.at[z]
  BY <1>1, BookParts, DoingIsOpen
<1>5. BookInv(d, repository)
  BY <1>1, <1>2, <1>3, <1>4, BookParts, NeedsMayChange
<1>6. Registry!Book' = d
  BY DEF d
<1> QED BY <1>5, <1>6, CommitKeeps

LEMMA CancelKeeps ==
  ASSUME RegistryInv, NEW s \in Registry!Sessions, Registry!Cancel(s)
  PROVE  BookInv(Registry!Book, repository)'
<1> DEFINE stages == [stage EXCEPT ![s] = "ended"]
           places == [at EXCEPT ![s] = None]
<1>0. /\ Registry!TypeOK /\ BookInv(Registry!Book, repository)
      /\ stage[s] \in {"blocked", "queued"}
      /\ UNCHANGED <<frame, repository, doing, answered>>
  BY DEF RegistryInv, Registry!Cancel, Registry!worker, frame
<1>1. Registry!Book' = [row |-> row, stage |-> stages, at |-> places]
  BY DEF Registry!Cancel, Registry!Write, Registry!Book
<1>2. /\ stages \in [Registry!Sessions -> {"none", "blocked", "queued", "open", "ended"}]
      /\ places \in [Registry!Sessions -> Workers \cup {None}]
  BY <1>0 DEF Registry!TypeOK, Workers
<1>3. \A z \in Registry!Sessions :
        \/ stages[z] = stage[z] /\ places[z] = at[z]
        \/ stage[z] \in {"blocked", "queued"} /\ stages[z] \in {"blocked", "ended"}
  BY <1>0 DEF Registry!TypeOK
<1> QED BY <1>0, <1>1, <1>2, <1>3, StopKeeps

LEMMA SetEnabledKeeps ==
  ASSUME RegistryInv, NEW r \in Repositories, NEW enabled \in BOOLEAN,
         Registry!SetEnabled(r, enabled)
  PROVE  BookInv(Registry!Book, repository)'
<1> DEFINE stopped == IF ~enabled /\ managed[r] = "enabled"
                      THEN {s \in Registry!Of(r, Registry!Sessions) : stage[s] = "queued"} ELSE {}
           stages == [s \in Registry!Sessions |-> IF s \in stopped THEN "blocked" ELSE stage[s]]
           places == [s \in Registry!Sessions |-> IF s \in stopped THEN None ELSE at[s]]
<1>0. /\ Registry!TypeOK /\ BookInv(Registry!Book, repository)
      /\ UNCHANGED <<frame, repository, doing, answered>>
  BY DEF RegistryInv, Registry!SetEnabled, Registry!worker, frame
<1>1. Registry!Book' = [row |-> row, stage |-> stages, at |-> places]
  BY DEF Registry!SetEnabled, Registry!Write, Registry!Book
<1>2. \A s \in stopped : stage[s] = "queued"
  OBVIOUS
<1> HIDE DEF stopped
<1>3. /\ stages \in [Registry!Sessions -> {"none", "blocked", "queued", "open", "ended"}]
      /\ places \in [Registry!Sessions -> Workers \cup {None}]
  BY <1>0 DEF Registry!TypeOK, Workers
<1>4. \A z \in Registry!Sessions :
        \/ stages[z] = stage[z] /\ places[z] = at[z]
        \/ stage[z] \in {"blocked", "queued"} /\ stages[z] \in {"blocked", "ended"}
  BY <1>2
<1> QED BY <1>0, <1>1, <1>3, <1>4, StopKeeps

LEMMA ClaimKeeps ==
  ASSUME RegistryInv, NEW w \in Workers, Registry!Claim(w)
  PROVE  BookInv(Registry!Book, repository)'
<1>0. /\ Registry!TypeOK /\ BookInv(Registry!Book, repository) /\ answered[w] = "yes"
      /\ UNCHANGED <<frame, repository, answered>>
  BY DEF RegistryInv, Registry!Claim, frame
<1>1. PICK queued \in Registry!Materialized(Registry!Book, w) :
        LET b == Registry!Rerouted(queued, w)
            claimable == {s \in Registry!Sessions : Registry!Claimable(b, s, w)} IN
        \/ \E s \in claimable :
             /\ Registry!Write([b EXCEPT !.stage[s] = "open"])
             /\ doing' = [doing EXCEPT ![w] = @ \cup {s}]
        \/ claimable = {} /\ Registry!Write(b) /\ UNCHANGED doing
  BY DEF Registry!Claim
<1> DEFINE b == Registry!Rerouted(queued, w)
<1>2. BookInv(b, repository)
  BY <1>0, MaterializedKeeps, ReroutedKeeps
<1>3. b \in Book
  BY <1>2 DEF BookInv, BookTypes
<1> HIDE DEF b
<1>4. ASSUME Registry!Write(b), UNCHANGED doing PROVE BookInv(Registry!Book, repository)'
  <2>1. Registry!Book' = b
    BY <1>3, <1>4 DEF Registry!Write, Registry!Book, Book
  <2> QED BY <1>0, <1>2, <1>4, <2>1, CommitKeeps
<1>5. ASSUME NEW s \in Registry!Sessions, Registry!Claimable(b, s, w),
             Registry!Write([b EXCEPT !.stage[s] = "open"]),
             doing' = [doing EXCEPT ![w] = @ \cup {s}]
      PROVE  BookInv(Registry!Book, repository)'
  <2> DEFINE r == repository[s]
             stages == [b.stage EXCEPT ![s] = "open"]
             d == [b EXCEPT !.stage = stages]
  <2>1. b.stage[s] = "queued" /\ b.at[s] = w /\ b.row[w][r].advertised
    BY <1>5 DEF Registry!Claimable
  <2>2. r \in Repositories
    BY <1>2, <2>1 DEF BookInv, BookTypes
  <2> HIDE DEF r
  <2>3. /\ stages \in [Registry!Sessions -> {"none", "blocked", "queued", "open", "ended"}]
        /\ stages[s] = "open" /\ \A z \in Registry!Sessions : z # s => stages[z] = b.stage[z]
    BY <1>3 DEF Book
  <2>4. Registry!Write(d)
    BY <1>3, <1>5 DEF Book
  <2> HIDE DEF stages
  <2>5. d \in Book /\ d.row = b.row /\ d.stage = stages /\ d.at = b.at
    BY <1>3, <2>3 DEF Book
  <2> HIDE DEF d
  <2>6. Registry!Book' = d
    BY <2>4, <2>5 DEF Registry!Write, Registry!Book, Book
  <2>7. BookTypes(d, repository)
    BY <1>2, <2>1, <2>3, <2>5 DEF BookInv, BookTypes
  <2>8. \A v \in Workers, q \in Repositories :
          /\ Needs(d, repository, v, q) => Needs(b, repository, v, q)
          /\ Runs(b, repository, v, q) => Runs(d, repository, v, q)
    BY <2>1, <2>3, <2>5 DEF Needs, Runs
  <2>9. \A v \in Workers : \A z \in doing[v] : d.stage[z] = "open" /\ d.at[z] = b.at[z]
    BY <1>0, <1>2, <2>3, <2>5, DoingIsOpen
  <2>10. BookInv(d, repository)
    BY <1>0, <1>2, <2>5, <2>7, <2>8, <2>9, NeedsMayChange
  <2>11. \A v \in Workers : Known(v)' => Known(v)
    <3>1. \A v \in Workers : v # w => doing'[v] = doing[v]
      BY <1>0, <1>5 DEF Registry!TypeOK, Workers
    <3> QED BY <1>0, <3>1 DEF Known
  <2>12. WorkStands(Registry!Book, repository)'
    <3> SUFFICES ASSUME NEW v \in Workers, NEW z \in doing'[v]
                 PROVE  /\ d.stage[z] = "open" /\ d.at[z] = v
                        /\ repository[z] = configured[v] \/ d.row[v][repository[z]].kind = "dynamic"
      BY <1>0, <2>6 DEF WorkStands, frame
    <3>1. z \in doing[v] \/ (v = w /\ z = s)
      BY <1>0, <1>5 DEF Registry!TypeOK, Workers
    <3>2. CASE z \in doing[v]
      BY <2>10, <3>2 DEF BookInv, WorkStands
    <3>3. CASE v = w /\ z = s
      <4>1. d.row[w][r].kind # "none" /\ d.row[w][r].kind \in {"none", "static", "dynamic"}
        BY <2>1, <2>2, <2>5, <2>10 DEF BookInv, RowsStand, Book
      <4>2. d.row[w][r].kind = "static" => r = configured[w]
        BY <1>0, <2>1, <2>2, <2>5, <2>10 DEF BookInv, CheckoutsStand, Known
      <4> QED BY <2>1, <2>3, <2>5, <3>3, <4>1, <4>2 DEF r
    <3> QED BY <3>1, <3>2, <3>3
  <2> QED BY <1>0, <2>6, <2>10, <2>11, <2>12, CommitKeepsWork
<1> QED BY <1>1, <1>4, <1>5 DEF b

-----------------------------------------------------------------------------
(* Places: steps of the workers *)

\* No worker fills another place, and Work that runs goes on or ends.
LEMMA PlacesKeep ==
  ASSUME RegistryInv, UNCHANGED <<row, at, repository, cached, accepts>>, overtaken => overtaken',
         stage' \in [Registry!Sessions -> {"none", "blocked", "queued", "open", "ended"}],
         \A s \in Registry!Sessions :
           stage'[s] = stage[s] \/ (stage[s] = "open" /\ stage'[s] = "ended"),
         \A w \in Workers :
           /\ Filled(Registry!Book, repository, w)' \subseteq Filled(Registry!Book, repository, w)
           /\ Known(w)' => Known(w) /\ configured'[w] = configured[w]
  PROVE  /\ BookTypes(Registry!Book, repository)' /\ RowsStand(Registry!Book, repository)'
         /\ PlacesFit(Registry!Book, repository)' /\ CheckoutsStand(Registry!Book)'
<1>0. /\ Registry!TypeOK /\ BookInv(Registry!Book, repository)
      /\ Registry!Book' = [row |-> row, stage |-> stage', at |-> at]
      /\ Registry!Book'.row = row /\ Registry!Book'.stage = stage' /\ Registry!Book'.at = at
  BY DEF RegistryInv, Registry!Book
<1>1. \A w \in Workers, r \in Repositories :
        Needs(Registry!Book, repository, w, r)' => Needs(Registry!Book, repository, w, r)
  BY <1>0, BookParts DEF Needs
<1>2. BookTypes(Registry!Book, repository)'
  <2>1. Registry!Book' \in Book
    BY <1>0, BookParts DEF BookInv, BookTypes, Book
  <2> QED BY <1>0, <2>1, BookParts DEF BookInv, BookTypes
<1>3. RowsStand(Registry!Book, repository)'
  BY <1>0, <1>1, BookParts DEF BookInv, RowsStand
<1>4. PlacesFit(Registry!Book, repository)'
  <2> SUFFICES ASSUME ~overtaken', NEW w \in Workers
               PROVE  /\ Fit(Filled(Registry!Book, repository, w)')
                      /\ Fit(Taken(Registry!Book, w)')
                      /\ accepts'[w] => Filled(Registry!Book, repository, w)' \subseteq
                                         Taken(Registry!Book, w)'
    BY DEF PlacesFit
  <2>1. Taken(Registry!Book, w)' = Taken(Registry!Book, w)
    BY <1>0, BookParts DEF Taken, Registry!Reserved
  <2>2. /\ Fit(Filled(Registry!Book, repository, w)) /\ Fit(Taken(Registry!Book, w))
        /\ accepts[w] => Filled(Registry!Book, repository, w) \subseteq Taken(Registry!Book, w)
    BY <1>0 DEF BookInv, PlacesFit
  <2>3. Filled(Registry!Book, repository, w) \in SUBSET Repositories
    BY <1>0, PlaceSets
  <2> DEFINE after == Filled(Registry!Book, repository, w)'
  <2>4. after \subseteq Filled(Registry!Book, repository, w)
    OBVIOUS
  <2> HIDE DEF after
  <2>5. Fit(after)
    BY <2>2, <2>3, <2>4, FitsLess
  <2> QED BY <2>1, <2>2, <2>4, <2>5 DEF after
<1>5. CheckoutsStand(Registry!Book)'
  BY <1>0, BookParts DEF BookInv, CheckoutsStand
<1> QED BY <1>2, <1>3, <1>4, <1>5

\* Work a worker is at leaves a worktree of a repository whose place is filled, or of the
\* checkout, which has none.
LEMMA LeftWhereFilled ==
  ASSUME RegistryInv, NEW w \in Workers, NEW s \in doing[w]
  PROVE  /\ s \in Registry!Sessions /\ stage[s] = "open" /\ at[s] = w
         /\ repository[s] \in Repositories
         /\ repository[s] = configured[w] => row[w][repository[s]].kind = "static"
         /\ repository[s] # configured[w] => repository[s] \in Filled(Registry!Book, repository, w)
<1>1. Registry!TypeOK /\ BookInv(Registry!Book, repository)
  BY DEF RegistryInv
<1>2. s \in Registry!Sessions /\ stage[s] = "open" /\ at[s] = w /\ repository[s] \in Repositories
  BY <1>1, BookParts, DoingIsOpen
<1>3. repository[s] = configured[w] => row[w][repository[s]].kind = "static"
  BY <1>1, <1>2, BookParts DEF BookInv, CheckoutsStand, Known
<1>4. repository[s] # configured[w] => repository[s] \in Filled(Registry!Book, repository, w)
  BY <1>1, <1>2, BookParts DEF BookInv, WorkStands, Filled, Needs
<1> QED BY <1>2, <1>3, <1>4

LEMMA AcquireKeeps ==
  ASSUME RegistryInv, NEW w \in Workers, NEW s \in Registry!Sessions, Registry!Acquire(w, s)
  PROVE  BookInv(Registry!Book, repository)'
<1>0. /\ Registry!TypeOK /\ BookInv(Registry!Book, repository)
      /\ s \in doing[w] /\ repository[s] \notin known[w] \cup {configured[w]}
      /\ known' = [known EXCEPT ![w] = @ \cup {repository[s]}]
      /\ UNCHANGED <<row, stage, at, repository, cached, accepts, configured, doing, kept,
                     answered, flight, overtaken>>
      /\ Registry!Book' = Registry!Book
  BY DEF RegistryInv, Registry!Acquire, Registry!books, Registry!sessions, Registry!Book
<1>1. /\ known'[w] = known[w] \cup {repository[s]}
      /\ \A v \in Workers : v # w => known'[v] = known[v]
  BY <1>0 DEF Registry!TypeOK, Workers
<1>2. \A v \in Workers :
        Filled(Registry!Book, repository, v)' \subseteq Filled(Registry!Book, repository, v)
  <2>1. repository[s] \in Filled(Registry!Book, repository, w)
    BY <1>0, LeftWhereFilled
  <2>2. \A v \in Workers, r \in Repositories :
          /\ Needs(Registry!Book, repository, v, r)' <=> Needs(Registry!Book, repository, v, r)
          /\ Holds(v, r)' <=> Holds(v, r)
    BY <1>0 DEF Needs, Holds
  <2> QED BY <1>0, <1>1, <2>1, <2>2 DEF Filled
<1>3. \A v \in Workers : Known(v)' => Known(v) /\ configured'[v] = configured[v]
  BY <1>0 DEF Known
<1>4. /\ BookTypes(Registry!Book, repository)' /\ RowsStand(Registry!Book, repository)'
      /\ PlacesFit(Registry!Book, repository)' /\ CheckoutsStand(Registry!Book)'
  BY <1>0, <1>2, <1>3, PlacesKeep DEF Registry!TypeOK
<1>5. WorkStands(Registry!Book, repository)'
  BY <1>0 DEF BookInv, WorkStands
<1>6. FlightsStand(Registry!Book, repository)'
  <2>1. \A v \in Workers, r \in Repositories :
          Runs(Registry!Book, repository, v, r) <=> Runs(Registry!Book, repository, v, r)'
    BY <1>0 DEF Runs
  <2>2. /\ repository[s] \in Repositories /\ repository[s] # configured[w]
        /\ row[w][repository[s]].kind = "dynamic"
        /\ Runs(Registry!Book, repository, w, repository[s])
    BY <1>0, BookParts, LeftWhereFilled DEF BookInv, WorkStands, Runs
  <2>3. \A v \in Workers : known[v] \subseteq Repositories
    BY <1>0, PlaceSets
  <2> QED BY <1>0, <1>1, <2>1, <2>2, <2>3, BookParts DEF BookInv, FlightsStand
<1> QED BY <1>4, <1>5, <1>6 DEF BookInv

LEMMA CleanKeeps ==
  ASSUME RegistryInv, NEW w \in Workers, NEW q \in Repositories, Registry!Clean(w, q)
  PROVE  BookInv(Registry!Book, repository)'
<1>0. /\ Registry!TypeOK /\ BookInv(Registry!Book, repository)
      /\ kept' = [kept EXCEPT ![w] = @ \ {q}]
      /\ UNCHANGED <<row, stage, at, repository, cached, accepts, configured, doing, known,
                     answered, flight, overtaken>>
      /\ Registry!Book' = Registry!Book
  BY DEF RegistryInv, Registry!Clean, Registry!books, Registry!sessions, Registry!Book
<1>1. \A v \in Workers : kept'[v] \subseteq kept[v]
  BY <1>0 DEF Registry!TypeOK, Workers
<1>2. \A v \in Workers :
        Filled(Registry!Book, repository, v)' \subseteq Filled(Registry!Book, repository, v)
  <2>1. \A v \in Workers, r \in Repositories :
          /\ Needs(Registry!Book, repository, v, r)' <=> Needs(Registry!Book, repository, v, r)
          /\ Holds(v, r)' => Holds(v, r)
    BY <1>0, <1>1 DEF Needs, Holds
  <2> QED BY <1>0, <2>1 DEF Filled
<1>3. \A v \in Workers : Known(v)' => Known(v) /\ configured'[v] = configured[v]
  BY <1>0 DEF Known
<1>4. /\ BookTypes(Registry!Book, repository)' /\ RowsStand(Registry!Book, repository)'
      /\ PlacesFit(Registry!Book, repository)' /\ CheckoutsStand(Registry!Book)'
  BY <1>0, <1>2, <1>3, PlacesKeep DEF Registry!TypeOK
<1>5. WorkStands(Registry!Book, repository)'
  BY <1>0 DEF BookInv, WorkStands
<1>6. FlightsStand(Registry!Book, repository)'
  <2>1. \A v \in Workers, r \in Repositories :
          Runs(Registry!Book, repository, v, r) <=> Runs(Registry!Book, repository, v, r)'
    BY <1>0 DEF Runs
  <2>3. \A v \in Workers : known[v] \subseteq Repositories
    BY <1>0, PlaceSets
  <2> QED BY <1>0, <1>1, <2>1, <2>3 DEF BookInv, FlightsStand
<1> QED BY <1>4, <1>5, <1>6 DEF BookInv

\* A registration under way is a snapshot, and stays one.
LEMMA FlightKeeps ==
  ASSUME RegistryInv,
         UNCHANGED <<row, stage, at, repository, cached, accepts, configured, doing, known,
                     kept, overtaken>>,
         \A w \in Workers :
           /\ answered'[w] = "yes" => answered[w] = "yes"
           /\ \/ flight'[w] = None
              \/ /\ flight[w] # None /\ flight'[w].configured = flight[w].configured
                 /\ flight'[w].known = flight[w].known /\ flight'[w].kept = flight[w].kept
              \/ /\ flight'[w].configured = configured[w]
                 /\ flight'[w].known = known[w] /\ flight'[w].kept = kept[w]
  PROVE  BookInv(Registry!Book, repository)'
<1>0. /\ Registry!TypeOK /\ BookInv(Registry!Book, repository)
      /\ Registry!Book' = Registry!Book
  BY DEF RegistryInv, Registry!Book
<1>1. \A w \in Workers :
        Filled(Registry!Book, repository, w)' \subseteq Filled(Registry!Book, repository, w)
  <2>1. \A w \in Workers, r \in Repositories :
          /\ Needs(Registry!Book, repository, w, r)' <=> Needs(Registry!Book, repository, w, r)
          /\ Holds(w, r)' => Holds(w, r)
    BY <1>0 DEF Needs, Holds
  <2> QED BY <1>0, <2>1 DEF Filled
<1>2. \A w \in Workers : Known(w)' => Known(w) /\ configured'[w] = configured[w]
  BY <1>0 DEF Known
<1>3. /\ BookTypes(Registry!Book, repository)' /\ RowsStand(Registry!Book, repository)'
      /\ PlacesFit(Registry!Book, repository)' /\ CheckoutsStand(Registry!Book)'
  BY <1>0, <1>1, <1>2, PlacesKeep DEF Registry!TypeOK
<1>4. WorkStands(Registry!Book, repository)'
  BY <1>0 DEF BookInv, WorkStands
<1>5. FlightsStand(Registry!Book, repository)'
  <2>1. \A w \in Workers, r \in Repositories :
          Runs(Registry!Book, repository, w, r) <=> Runs(Registry!Book, repository, w, r)'
    BY <1>0 DEF Runs
  <2>2. \A w \in Workers : known[w] \subseteq Repositories
    BY <1>0, PlaceSets
  <2> SUFFICES ASSUME NEW w \in Workers, flight'[w] # None
               PROVE  /\ flight'[w].configured = configured[w] /\ flight'[w].known \subseteq known[w]
                      /\ kept[w] \subseteq flight'[w].kept \cup known[w] \cup {configured[w]}
                      /\ ~overtaken => \A r \in known[w] \ flight'[w].known :
                           r # configured[w] /\ Registry!Book.row[w][r].kind = "dynamic"
                           /\ Runs(Registry!Book, repository, w, r)'
    BY <1>0 DEF FlightsStand
  <2>3. CASE /\ flight[w] # None /\ flight'[w].configured = flight[w].configured
             /\ flight'[w].known = flight[w].known /\ flight'[w].kept = flight[w].kept
    BY <1>0, <2>1, <2>2, <2>3 DEF BookInv, FlightsStand
  <2>4. CASE /\ flight'[w].configured = configured[w]
             /\ flight'[w].known = known[w] /\ flight'[w].kept = kept[w]
    BY <2>4
  <2> QED BY <2>3, <2>4
<1> QED BY <1>3, <1>4, <1>5 DEF BookInv

LEMMA RegistrationsKeep ==
  ASSUME RegistryInv, NEW w \in Workers,
         Registry!Register(w) \/ Registry!RegistrationFails(w) \/ Registry!Probe(w)
  PROVE  BookInv(Registry!Book, repository)'
<1>0. Registry!TypeOK
  BY DEF RegistryInv
<1> USE DEF Registry!books, Registry!sessions
<1>1. CASE Registry!Register(w)
  <2> DEFINE f == [configured |-> configured[w], access |-> access[w], known |-> known[w],
                   kept |-> kept[w], current |-> TRUE]
  <2>1. /\ flight' = [flight EXCEPT ![w] = f]
        /\ UNCHANGED <<row, stage, at, repository, cached, accepts, configured, doing, known,
                       kept, answered, overtaken>>
    BY <1>1 DEF Registry!Register
  <2>2. f.configured = configured[w] /\ f.known = known[w] /\ f.kept = kept[w]
    OBVIOUS
  <2> HIDE DEF f
  <2>3. \A v \in Workers : v # w => flight'[v] = flight[v]
    BY <1>0, <2>1 DEF Registry!TypeOK
  <2>4. flight'[w] = f
    BY <1>0, <2>1 DEF Registry!TypeOK, Workers
  <2> QED BY <2>1, <2>2, <2>3, <2>4, FlightKeeps
<1>2. CASE Registry!RegistrationFails(w)
  <2>1. /\ flight' = [flight EXCEPT ![w] = None]
        /\ answered' = [answered EXCEPT ![w] = IF Registry!KeyMoved(w, flight[w]) THEN "refused" ELSE "no"]
        /\ UNCHANGED <<row, stage, at, repository, cached, accepts, configured, doing, known,
                       kept, overtaken>>
    BY <1>2 DEF Registry!RegistrationFails
  <2> QED BY <1>0, <2>1, FlightKeeps DEF Registry!TypeOK, Workers
<1>3. CASE Registry!Probe(w)
  <2> DEFINE f == IF flight[w] = None THEN None ELSE [flight[w] EXCEPT !.current = FALSE]
  <2>1. /\ flight' = [flight EXCEPT ![w] = f]
        /\ answered' = [answered EXCEPT ![w] = IF @ = "yes" THEN "no" ELSE @]
        /\ UNCHANGED <<row, stage, at, repository, cached, accepts, configured, doing, known,
                       kept, overtaken>>
    BY <1>3 DEF Registry!Probe
  <2> QED BY <1>0, <2>1, FlightKeeps DEF Registry!TypeOK, Workers
<1> QED BY <1>1, <1>2, <1>3

\* Work of worker w stops, and what it was at may leave worktrees.
LEMMA WorkEnds ==
  ASSUME RegistryInv, NEW w \in Workers, NEW left \in SUBSET doing[w],
         UNCHANGED <<row, at, repository, cached, accepts, known>>, overtaken => overtaken',
         stage' \in [Registry!Sessions -> {"none", "blocked", "queued", "open", "ended"}],
         \A s \in Registry!Sessions :
           stage'[s] = stage[s] \/ (stage[s] = "open" /\ stage'[s] = "ended"),
         \A v \in Workers :
           /\ Known(v)' => Known(v) /\ configured'[v] = configured[v]
           /\ v # w => kept'[v] = kept[v]
           /\ flight'[v] = None \/ flight'[v] = flight[v],
         kept'[w] \subseteq kept[w] \cup {repository[s] : s \in left}
  PROVE  /\ BookTypes(Registry!Book, repository)' /\ RowsStand(Registry!Book, repository)'
         /\ PlacesFit(Registry!Book, repository)' /\ CheckoutsStand(Registry!Book)'
<1>0. Registry!TypeOK /\ BookInv(Registry!Book, repository) /\ Registry!Book'.row = row
  BY DEF RegistryInv, Registry!Book
<1>1. \A v \in Workers, r \in Repositories :
        /\ Needs(Registry!Book, repository, v, r)' => Needs(Registry!Book, repository, v, r)
        /\ Holds(v, r)' => Holds(v, r) \/ (v = w /\ r \in {repository[s] : s \in left})
  <2>1. ASSUME NEW v \in Workers, NEW r \in Repositories, Needs(Registry!Book, repository, v, r)'
        PROVE  Needs(Registry!Book, repository, v, r)
    BY <2>1 DEF Needs, Registry!Book
  <2>2. ASSUME NEW v \in Workers, NEW r \in Repositories, Holds(v, r)'
        PROVE  Holds(v, r) \/ (v = w /\ r \in {repository[s] : s \in left})
    BY <2>2 DEF Holds
  <2> QED BY <2>1, <2>2
<1>2. \A s \in left : row[w][repository[s]].kind = "dynamic" =>
        repository[s] \in Filled(Registry!Book, repository, w)
  BY LeftWhereFilled
<1>3. \A v \in Workers :
        Filled(Registry!Book, repository, v)' \subseteq Filled(Registry!Book, repository, v)
  BY <1>0, <1>1, <1>2, BookParts DEF Filled
<1> QED BY <1>3, PlacesKeep

LEMMA LeftBehind ==
  ASSUME RegistryInv, NEW w \in Workers, NEW s \in doing[w], Registry!Leave(w, s)
  PROVE  /\ doing'[w] = doing[w] \ {s} /\ \A v \in Workers : v # w => doing'[v] = doing[v]
         /\ \A v \in Workers : v # w => kept'[v] = kept[v]
         /\ kept'[w] \subseteq kept[w] \cup {repository[s]}
         /\ kept'[w] \subseteq kept[w] \cup known[w] \cup {configured[w]}
<1>1. Registry!TypeOK
  BY DEF RegistryInv
<1>2. doing' = [doing EXCEPT ![w] = @ \ {s}]
  BY DEF Registry!Leave
<1>3. kept' = kept \/ (/\ repository[s] \in known[w] \cup {configured[w]}
                       /\ kept' = [kept EXCEPT ![w] = @ \cup {repository[s]}])
  BY DEF Registry!Leave
<1>4. /\ doing'[w] = doing[w] \ {s} /\ \A v \in Workers : v # w => doing'[v] = doing[v]
  BY <1>1, <1>2 DEF Registry!TypeOK, Workers
<1>5. kept \in [Workers -> SUBSET Repositories]
  BY <1>1 DEF Registry!TypeOK, Workers, Repositories
<1> QED BY <1>3, <1>4, <1>5

LEMMA EndKeeps ==
  ASSUME RegistryInv, NEW w \in Workers, NEW s \in Registry!Sessions, Registry!End(w, s)
  PROVE  BookInv(Registry!Book, repository)'
<1>0. /\ Registry!TypeOK /\ BookInv(Registry!Book, repository)
      /\ s \in doing[w] /\ flight[w] = None /\ Registry!Leave(w, s)
      /\ stage' = [stage EXCEPT ![s] = "ended"]
      /\ UNCHANGED <<row, at, repository, cached, accepts, configured, known, answered, flight,
                     overtaken>>
      /\ Registry!Book'.row = row /\ Registry!Book'.stage = stage' /\ Registry!Book'.at = at
  BY DEF RegistryInv, Registry!End, Registry!books, Registry!Book
<1>1. stage[s] = "open" /\ at[s] = w
  BY <1>0, LeftWhereFilled
<1>2. /\ stage' \in [Registry!Sessions -> {"none", "blocked", "queued", "open", "ended"}]
      /\ stage'[s] = "ended" /\ \A z \in Registry!Sessions : z # s => stage'[z] = stage[z]
  BY <1>0 DEF Registry!TypeOK
<1>3. /\ doing'[w] = doing[w] \ {s} /\ \A v \in Workers : v # w => doing'[v] = doing[v]
      /\ \A v \in Workers : v # w => kept'[v] = kept[v]
      /\ kept'[w] \subseteq kept[w] \cup {repository[z] : z \in {s}}
  BY <1>0, LeftBehind
<1>4. \A v \in Workers : Known(v)' => Known(v) /\ configured'[v] = configured[v]
  BY <1>0, <1>3 DEF Known
<1>5. /\ BookTypes(Registry!Book, repository)' /\ RowsStand(Registry!Book, repository)'
      /\ PlacesFit(Registry!Book, repository)' /\ CheckoutsStand(Registry!Book)'
  BY <1>0, <1>1, <1>2, <1>3, <1>4, WorkEnds
<1>6. WorkStands(Registry!Book, repository)'
  <2>1. \A v \in Workers : \A z \in doing'[v] : z \in doing[v] /\ z # s
    BY <1>0, <1>1, <1>3, LeftWhereFilled
  <2>2. \A v \in Workers : \A z \in doing[v] : z \in Registry!Sessions
    BY <1>0 DEF Registry!TypeOK, Workers
  <2> QED BY <1>0, <1>2, <2>1, <2>2, BookParts DEF BookInv, WorkStands
<1>7. FlightsStand(Registry!Book, repository)'
  <2>1. \A v \in Workers, r \in Repositories :
          v # w /\ Runs(Registry!Book, repository, v, r) => Runs(Registry!Book, repository, v, r)'
    BY <1>0, <1>1, <1>2, BookParts DEF Runs
  <2>2. \A v \in Workers : known[v] \subseteq Repositories
    BY <1>0, PlaceSets
  <2> QED BY <1>0, <1>3, <2>1, <2>2, BookParts DEF BookInv, FlightsStand
<1> QED BY <1>5, <1>6, <1>7 DEF BookInv

LEMMA ExpireKeeps ==
  ASSUME RegistryInv, NEW s \in Registry!Sessions, Registry!Expire(s)
  PROVE  BookInv(Registry!Book, repository)'
<1> DEFINE w == at[s]
           left == {s} \cap doing[w]
<1>0. /\ Registry!TypeOK /\ BookInv(Registry!Book, repository)
      /\ stage[s] = "open" /\ stage' = [stage EXCEPT ![s] = "ended"]
      /\ s \in doing[w] => Registry!Leave(w, s)
      /\ s \notin doing[w] => UNCHANGED <<doing, kept>>
      /\ overtaken' = (overtaken \/ (flight[w] # None /\ repository[s] \in known[w] \ flight[w].known))
      /\ UNCHANGED <<row, at, repository, cached, accepts, configured, known, answered, flight>>
      /\ Registry!Book'.row = row /\ Registry!Book'.stage = stage' /\ Registry!Book'.at = at
  BY DEF RegistryInv, Registry!Expire, Registry!books, Registry!Book
<1>1. w \in Workers /\ repository[s] \in Repositories
  BY <1>0, BookParts DEF BookInv, BookTypes
<1> HIDE DEF w
<1>2. /\ stage' \in [Registry!Sessions -> {"none", "blocked", "queued", "open", "ended"}]
      /\ stage'[s] = "ended" /\ \A z \in Registry!Sessions : z # s => stage'[z] = stage[z]
  BY <1>0 DEF Registry!TypeOK
<1>3. /\ doing'[w] = doing[w] \ {s} /\ \A v \in Workers : v # w => doing'[v] = doing[v]
      /\ \A v \in Workers : v # w => kept'[v] = kept[v]
      /\ kept'[w] \subseteq kept[w] \cup {repository[z] : z \in left}
      /\ kept'[w] \subseteq kept[w] \cup known[w] \cup {configured[w]}
  BY <1>0, <1>1, LeftBehind
<1>4. left \in SUBSET doing[w]
  OBVIOUS
<1> HIDE DEF left
<1>5. \A v \in Workers : Known(v)' => Known(v) /\ configured'[v] = configured[v]
  BY <1>0, <1>3 DEF Known
<1>6. overtaken => overtaken'
  BY <1>0
<1>7. /\ BookTypes(Registry!Book, repository)' /\ RowsStand(Registry!Book, repository)'
      /\ PlacesFit(Registry!Book, repository)' /\ CheckoutsStand(Registry!Book)'
  <2>1. \A v \in Workers :
          /\ Known(v)' => Known(v) /\ configured'[v] = configured[v]
          /\ v # w => kept'[v] = kept[v]
          /\ flight'[v] = None \/ flight'[v] = flight[v]
    BY <1>0, <1>3, <1>5
  <2>2. \A z \in Registry!Sessions :
          stage'[z] = stage[z] \/ (stage[z] = "open" /\ stage'[z] = "ended")
    BY <1>0, <1>2
  <2> QED BY <1>0, <1>1, <1>2, <1>3, <1>4, <1>6, <2>1, <2>2, WorkEnds
<1>8. WorkStands(Registry!Book, repository)'
  <2>1. \A v \in Workers : \A z \in doing'[v] : z \in doing[v] /\ z # s
    BY <1>0, <1>1, <1>3, LeftWhereFilled DEF w
  <2>2. \A v \in Workers : \A z \in doing[v] : z \in Registry!Sessions
    BY <1>0 DEF Registry!TypeOK, Workers
  <2> QED BY <1>0, <1>2, <2>1, <2>2, BookParts DEF BookInv, WorkStands
<1>9. FlightsStand(Registry!Book, repository)'
  <2>1. \A v \in Workers, r \in Repositories :
          /\ Runs(Registry!Book, repository, v, r)
          /\ v # w \/ r # repository[s]
          => Runs(Registry!Book, repository, v, r)'
    BY <1>0, <1>1, <1>2, BookParts DEF Runs, w
  <2>2. \A v \in Workers : known[v] \subseteq Repositories
    BY <1>0, PlaceSets
  <2>3. ~overtaken' /\ flight[w] # None => ~overtaken /\ repository[s] \notin known[w] \ flight[w].known
    BY <1>0
  <2>4. ~overtaken' => ~overtaken
    BY <1>0
  <2> SUFFICES ASSUME NEW v \in Workers, flight[v] # None
               PROVE  /\ flight[v].configured = configured[v] /\ flight[v].known \subseteq known[v]
                      /\ kept'[v] \subseteq flight[v].kept \cup known[v] \cup {configured[v]}
                      /\ ~overtaken' => \A r \in known[v] \ flight[v].known :
                           r # configured[v] /\ row[v][r].kind = "dynamic"
                           /\ Runs(Registry!Book, repository, v, r)'
    BY <1>0 DEF FlightsStand
  <2>5. /\ flight[v].configured = configured[v] /\ flight[v].known \subseteq known[v]
        /\ kept[v] \subseteq flight[v].kept \cup known[v] \cup {configured[v]}
        /\ ~overtaken => \A r \in known[v] \ flight[v].known :
             r # configured[v] /\ row[v][r].kind = "dynamic"
             /\ Runs(Registry!Book, repository, v, r)
    BY <1>0, BookParts DEF BookInv, FlightsStand
  <2>6. kept'[v] \subseteq flight[v].kept \cup known[v] \cup {configured[v]}
    BY <1>3, <2>5
  <2> QED BY <2>1, <2>2, <2>3, <2>4, <2>5, <2>6
<1> QED BY <1>7, <1>8, <1>9 DEF BookInv

LEMMA RestartKeeps ==
  ASSUME RegistryInv, NEW w \in Workers, Registry!Restart(w)
  PROVE  BookInv(Registry!Book, repository)'
<1> DEFINE made == {s \in doing[w] : repository[s] \in known[w] \cup {configured[w]}}
<1>0. /\ Registry!TypeOK /\ BookInv(Registry!Book, repository)
      /\ \E r \in Repositories \cup {None} : configured' = [configured EXCEPT ![w] = r]
      /\ kept' = [kept EXCEPT ![w] = @ \cup {repository[s] : s \in made}]
      /\ doing' = [doing EXCEPT ![w] = {}]
      /\ answered' = [answered EXCEPT ![w] = "no"] /\ flight' = [flight EXCEPT ![w] = None]
      /\ UNCHANGED <<row, stage, at, repository, cached, accepts, known, overtaken>>
      /\ Registry!Book'.row = row /\ Registry!Book'.stage = stage /\ Registry!Book'.at = at
  BY DEF RegistryInv, Registry!Restart, Registry!books, Registry!sessions, Registry!Book, Repositories
<1>1. made \in SUBSET doing[w]
  OBVIOUS
<1> HIDE DEF made
<1>2. /\ doing'[w] = {} /\ answered'[w] = "no" /\ flight'[w] = None
      /\ kept'[w] = kept[w] \cup {repository[s] : s \in made}
      /\ \A v \in Workers : v # w =>
           /\ doing'[v] = doing[v] /\ answered'[v] = answered[v] /\ flight'[v] = flight[v]
           /\ kept'[v] = kept[v] /\ configured'[v] = configured[v]
  BY <1>0 DEF Registry!TypeOK, Workers
<1>3. \A v \in Workers : Known(v)' => Known(v) /\ configured'[v] = configured[v]
  BY <1>2 DEF Known
<1>4. /\ BookTypes(Registry!Book, repository)' /\ RowsStand(Registry!Book, repository)'
      /\ PlacesFit(Registry!Book, repository)' /\ CheckoutsStand(Registry!Book)'
  <2>1. \A v \in Workers :
          /\ Known(v)' => Known(v) /\ configured'[v] = configured[v]
          /\ v # w => kept'[v] = kept[v]
          /\ flight'[v] = None \/ flight'[v] = flight[v]
    BY <1>2, <1>3
  <2>2. /\ stage' \in [Registry!Sessions -> {"none", "blocked", "queued", "open", "ended"}]
        /\ \A z \in Registry!Sessions : stage'[z] = stage[z]
    BY <1>0 DEF Registry!TypeOK
  <2>3. kept'[w] \subseteq kept[w] \cup {repository[s] : s \in made}
    BY <1>2
  <2> QED BY <1>0, <1>1, <2>1, <2>2, <2>3, WorkEnds
<1>5. WorkStands(Registry!Book, repository)'
  BY <1>0, <1>2, BookParts DEF BookInv, WorkStands
<1>6. FlightsStand(Registry!Book, repository)'
  <2>1. \A v \in Workers, r \in Repositories :
          Runs(Registry!Book, repository, v, r) => Runs(Registry!Book, repository, v, r)'
    BY <1>0, BookParts DEF Runs
  <2>2. \A v \in Workers : known[v] \subseteq Repositories
    BY <1>0, PlaceSets
  <2> QED BY <1>0, <1>2, <2>1, <2>2, BookParts DEF BookInv, FlightsStand
<1> QED BY <1>4, <1>5, <1>6 DEF BookInv

-----------------------------------------------------------------------------
(* Places: a registration arrives *)

LEMMA RegisterWorkerKeeps ==
  ASSUME RegistryInv, NEW w \in Workers, Registry!RegisterWorker(w)
  PROVE  BookInv(Registry!Book, repository)'
<1> DEFINE f == flight[w]
           line == [r \in Repositories |-> Registry!NewRow(w, r, f)]
<1>0. /\ Registry!TypeOK /\ BookInv(Registry!Book, repository) /\ f # None
      /\ row' = [row EXCEPT ![w] = line]
      /\ cached' = [cached EXCEPT ![w] = f.known] /\ accepts' = [accepts EXCEPT ![w] = f.access]
      /\ flight' = [flight EXCEPT ![w] = None]
      /\ \E yes \in BOOLEAN :
           answered' = [answered EXCEPT ![w] = IF yes /\ f.current THEN "yes" ELSE "no"]
      /\ UNCHANGED <<stage, at, repository, configured, known, doing, kept, overtaken>>
      /\ Registry!Book'.row = row' /\ Registry!Book'.stage = stage /\ Registry!Book'.at = at
      /\ Registry!Book' = [row |-> row', stage |-> stage, at |-> at]
  BY DEF RegistryInv, Registry!RegisterWorker, Registry!sessions, Registry!Book, Repositories
<1>1. f \in [configured : Repositories \cup {None}, access : BOOLEAN, current : BOOLEAN,
             known : SUBSET Repositories, kept : SUBSET Repositories]
  BY <1>0 DEF Registry!TypeOK, Workers, Repositories
<1>2. /\ f.configured = configured[w] /\ f.known \subseteq known[w]
      /\ kept[w] \subseteq f.kept \cup known[w] \cup {configured[w]}
      /\ ~overtaken => \A r \in known[w] \ f.known :
           r # configured[w] /\ row[w][r].kind = "dynamic"
           /\ Runs(Registry!Book, repository, w, r)
  BY <1>0, BookParts DEF BookInv, FlightsStand
<1> HIDE DEF f
<1>3. \A r \in Repositories : Registry!Waits(w, r) <=> Needs(Registry!Book, repository, w, r)
  BY BookParts DEF Registry!Waits, Registry!Of, Needs
<1>4. \A v \in Workers, r \in Repositories :
        /\ row[v][r] \in [kind : {"none", "static", "dynamic"}, advertised : BOOLEAN]
        /\ row \in [Workers -> [Repositories -> [kind : {"none", "static", "dynamic"},
                                                 advertised : BOOLEAN]]]
  BY <1>0 DEF Registry!TypeOK, Workers, Repositories
<1>5. ASSUME NEW r \in Repositories
      PROVE  /\ line[r] \in [kind : {"none", "static", "dynamic"}, advertised : BOOLEAN]
             /\ r = f.configured => line[r].kind = "static" /\ line[r].advertised
             /\ r # f.configured => /\ line[r].kind = row[w][r].kind
                                    /\ line[r].kind = "static" => ~line[r].advertised
                                    /\ line[r].kind = "none" => ~line[r].advertised
                                    /\ line[r].kind = "dynamic" =>
                                         line[r].advertised = Registry!Kept(w, r, f)
  <2>1. line[r] = Registry!NewRow(w, r, f)
    OBVIOUS
  <2>2. Registry!Kept(w, r, f) \in BOOLEAN
    BY <1>1 DEF Registry!Kept, Registry!Waits
  <2> HIDE DEF line
  <2>3. CASE r = f.configured
    BY <2>1, <2>3 DEF Registry!NewRow
  <2>4. CASE r # f.configured /\ row[w][r].kind = "dynamic"
    <3>1. line[r] = [row[w][r] EXCEPT !.advertised = Registry!Kept(w, r, f)]
      BY <2>1, <2>4 DEF Registry!NewRow
    <3> QED BY <1>4, <2>2, <2>4, <3>1
  <2>5. CASE r # f.configured /\ row[w][r].kind # "dynamic"
    <3>1. line[r] = [row[w][r] EXCEPT !.advertised = FALSE]
      BY <2>1, <2>5 DEF Registry!NewRow
    <3> QED BY <1>4, <2>5, <3>1
  <2> QED BY <2>3, <2>4, <2>5
<1>6. DOMAIN line = Repositories /\ line = [r \in Repositories |-> line[r]]
  OBVIOUS
<1> HIDE DEF line
<1>7. /\ row' \in [Workers -> [Repositories -> [kind : {"none", "static", "dynamic"},
                                                advertised : BOOLEAN]]]
      /\ row'[w] = line /\ \A v \in Workers : v # w => row'[v] = row[v]
  <2>1. line \in [Repositories -> [kind : {"none", "static", "dynamic"}, advertised : BOOLEAN]]
    BY <1>5, <1>6
  <2>2. row \in [Workers -> [Repositories -> [kind : {"none", "static", "dynamic"},
                                              advertised : BOOLEAN]]]
    BY <1>0 DEF Registry!TypeOK, Workers, Repositories
  <2> QED BY <1>0, <2>1, <2>2
<1>8. /\ cached'[w] = f.known /\ accepts'[w] = f.access /\ flight'[w] = None
      /\ \A v \in Workers : v # w =>
           /\ cached'[v] = cached[v] /\ accepts'[v] = accepts[v]
           /\ flight'[v] = flight[v] /\ answered'[v] = answered[v]
  BY <1>0 DEF Registry!TypeOK, Workers
<1>9. \A v \in Workers, r \in Repositories :
        /\ Needs(Registry!Book, repository, v, r)' <=> Needs(Registry!Book, repository, v, r)
        /\ Runs(Registry!Book, repository, v, r)' <=> Runs(Registry!Book, repository, v, r)
  BY <1>0, BookParts DEF Needs, Runs
<1>10. BookTypes(Registry!Book, repository)'
  <2>1. Registry!Book' \in Book
    BY <1>0, <1>7, BookParts DEF BookInv, BookTypes, Book
  <2> QED BY <1>0, <2>1, BookParts DEF BookInv, BookTypes
<1>11. RowsStand(Registry!Book, repository)'
  <2> SUFFICES ASSUME NEW v \in Workers, NEW r \in Repositories
               PROVE  /\ row'[v][r].advertised => row'[v][r].kind # "none"
                      /\ row'[v][r].advertised /\ row'[v][r].kind = "dynamic" => accepts'[v]
                      /\ Needs(Registry!Book, repository, v, r) =>
                           /\ row'[v][r].kind # "none"
                           /\ row'[v][r].kind = "dynamic" /\ accepts'[v] => row'[v][r].advertised
    BY <1>0, <1>9 DEF RowsStand
  <2>1. CASE v # w
    BY <1>0, <1>7, <1>8, <2>1, BookParts DEF BookInv, RowsStand
  <2>2. CASE v = w
    BY <1>0, <1>3, <1>5, <1>7, <1>8, <2>2, BookParts DEF BookInv, RowsStand, Registry!Kept
  <2> QED BY <2>1, <2>2
<1>12. CheckoutsStand(Registry!Book)'
  <2> SUFFICES ASSUME NEW v \in Workers, Known(v)', NEW r \in Repositories
               PROVE  row'[v][r].kind = "static" /\ row'[v][r].advertised <=> r = configured[v]
    BY <1>0 DEF CheckoutsStand
  <2>1. CASE v # w
    BY <1>0, <1>7, <1>8, <2>1, BookParts DEF BookInv, CheckoutsStand, Known
  <2>2. CASE v = w
    BY <1>2, <1>5, <1>7, <2>2
  <2> QED BY <2>1, <2>2
<1>13. WorkStands(Registry!Book, repository)'
  <2> SUFFICES ASSUME NEW v \in Workers, NEW s \in doing[v]
               PROVE  /\ stage[s] = "open" /\ at[s] = v
                      /\ repository[s] = configured[v] \/ row'[v][repository[s]].kind = "dynamic"
    BY <1>0 DEF WorkStands
  <2>1. /\ stage[s] = "open" /\ at[s] = v /\ repository[s] \in Repositories
        /\ repository[s] = configured[v] \/ row[v][repository[s]].kind = "dynamic"
    BY <1>0, BookParts, DoingIsOpen DEF BookInv, WorkStands
  <2> QED BY <1>2, <1>5, <1>7, <2>1
<1>14. FlightsStand(Registry!Book, repository)'
  <2>1. \A v \in Workers : known[v] \subseteq Repositories
    BY <1>0, PlaceSets
  <2> SUFFICES ASSUME NEW v \in Workers, flight'[v] # None
               PROVE  /\ flight'[v].configured = configured[v] /\ flight'[v].known \subseteq known[v]
                      /\ kept[v] \subseteq flight'[v].kept \cup known[v] \cup {configured[v]}
                      /\ ~overtaken => \A r \in known[v] \ flight'[v].known :
                           r # configured[v] /\ row'[v][r].kind = "dynamic"
                           /\ Runs(Registry!Book, repository, v, r)'
    BY <1>0 DEF FlightsStand
  <2>2. v # w /\ flight'[v] = flight[v] /\ row'[v] = row[v]
    BY <1>7, <1>8
  <2>3. /\ flight[v].configured = configured[v] /\ flight[v].known \subseteq known[v]
        /\ kept[v] \subseteq flight[v].kept \cup known[v] \cup {configured[v]}
        /\ ~overtaken => \A r \in known[v] \ flight[v].known :
             r # configured[v] /\ row[v][r].kind = "dynamic"
             /\ Runs(Registry!Book, repository, v, r)
    BY <1>0, <2>2, BookParts DEF BookInv, FlightsStand
  <2> QED BY <1>9, <2>1, <2>2, <2>3
<1>15. PlacesFit(Registry!Book, repository)'
  <2> SUFFICES ASSUME ~overtaken, NEW v \in Workers
               PROVE  /\ Fit(Filled(Registry!Book, repository, v)')
                      /\ Fit(Taken(Registry!Book, v)')
                      /\ accepts'[v] => Filled(Registry!Book, repository, v)' \subseteq
                                         Taken(Registry!Book, v)'
    BY <1>0 DEF PlacesFit
  <2> DEFINE before == Filled(Registry!Book, repository, v)
             after == Filled(Registry!Book, repository, v)'
             taken == Taken(Registry!Book, v)'
  <2>1. /\ Fit(before) /\ Fit(Taken(Registry!Book, v))
        /\ accepts[v] => before \subseteq Taken(Registry!Book, v)
    BY <1>0 DEF BookInv, PlacesFit
  <2>2. before \in SUBSET Repositories
    BY <1>0, PlaceSets
  <2>3. after = known[v] \cup {r \in Repositories :
                   row'[v][r].kind = "dynamic" /\ (Needs(Registry!Book, repository, v, r) \/ Holds(v, r)')}
    BY <1>0, <1>9 DEF Filled
  <2>4. taken = cached'[v] \cup {r \in Repositories : row'[v][r].kind = "dynamic" /\ row'[v][r].advertised}
    BY <1>0 DEF Taken, Registry!Reserved, Repositories
  <2>5. before = known[v] \cup {r \in Repositories :
                   row[v][r].kind = "dynamic" /\ (Needs(Registry!Book, repository, v, r) \/ Holds(v, r))}
    BY BookParts DEF Filled
  <2>6. Taken(Registry!Book, v) =
          cached[v] \cup {r \in Repositories : row[v][r].kind = "dynamic" /\ row[v][r].advertised}
    BY BookParts DEF Taken, Registry!Reserved, Repositories
  <2> HIDE DEF before, after, taken
  <2>7. CASE v # w
    <3>1. \A r \in Repositories : Holds(v, r)' <=> Holds(v, r)
      BY <1>0, <1>8, <2>7 DEF Holds
    <3>2. after = before /\ taken = Taken(Registry!Book, v)
      BY <1>7, <1>8, <2>3, <2>4, <2>5, <2>6, <2>7, <3>1
    <3> QED BY <1>8, <2>1, <2>7, <3>2 DEF after, taken
  <2>8. CASE v = w
    <3>1. \A r \in Repositories : Holds(w, r)' <=> r \in kept[w]
      BY <1>0, <1>8 DEF Holds
    <3>2. \A r \in Repositories : r \in kept[w] \/ r \in f.kept => Holds(w, r)
      BY <1>0 DEF Holds, f
    <3>3. after \subseteq before
      BY <1>5, <1>7, <2>3, <2>5, <2>8, <3>1, <3>2
    <3>4. taken \subseteq before
      <4>1. f.known \subseteq before
        BY <1>2, <2>5, <2>8
      <4>2. ASSUME NEW r \in Repositories, line[r].kind = "dynamic", line[r].advertised
            PROVE  r \in before
        <5>1. row[w][r].kind = "dynamic" /\ Registry!Kept(w, r, f)
          BY <1>5, <4>2
        <5>2. r \in f.known \/ Holds(w, r) \/ Needs(Registry!Book, repository, w, r)
          BY <1>3, <3>2, <5>1 DEF Registry!Kept
        <5> QED BY <2>5, <2>8, <4>1, <5>1, <5>2
      <4> QED BY <1>7, <1>8, <2>4, <2>8, <4>1, <4>2
    <3>5. f.access => after \subseteq taken
      <4> SUFFICES ASSUME f.access, NEW r \in after PROVE r \in taken
        OBVIOUS
      <4>1. ASSUME r \in known[w] PROVE r \in taken
        <5>1. CASE r \in f.known
          BY <1>8, <2>4, <2>8, <5>1
        <5>2. CASE r \notin f.known
          <6>1. r # f.configured /\ row[w][r].kind = "dynamic" /\ Runs(Registry!Book, repository, w, r)
            BY <1>2, <4>1, <5>2
          <6>2. r \in Repositories
            BY <1>0, <4>1, PlaceSets
          <6>3. Registry!Waits(w, r)
            BY <1>3, <6>1, <6>2 DEF Runs, Needs
          <6>4. line[r].kind = "dynamic" /\ line[r].advertised
            BY <1>5, <6>1, <6>2, <6>3 DEF Registry!Kept
          <6> QED BY <1>7, <2>4, <2>8, <6>2, <6>4
        <5> QED BY <5>1, <5>2
      <4>2. ASSUME r \notin known[w] PROVE r \in taken
        <5>1. /\ r \in Repositories /\ line[r].kind = "dynamic"
              /\ Needs(Registry!Book, repository, w, r) \/ r \in kept[w]
          BY <1>7, <2>3, <2>8, <3>1, <4>2
        <5>2. r # f.configured
          BY <1>5, <5>1
        <5>3. Registry!Kept(w, r, f)
          BY <1>2, <1>3, <4>2, <5>1, <5>2 DEF Registry!Kept
        <5>4. line[r].advertised
          BY <1>5, <5>1, <5>2, <5>3
        <5> QED BY <1>7, <2>4, <2>8, <5>1, <5>4
      <4> QED BY <4>1, <4>2
    <3>6. Fit(after) /\ Fit(taken)
      BY <2>1, <2>2, <3>3, <3>4, FitsLess
    <3> QED BY <1>8, <2>8, <3>5, <3>6 DEF after, taken
  <2> QED BY <2>7, <2>8
<1> QED BY <1>10, <1>11, <1>12, <1>13, <1>14, <1>15 DEF BookInv

-----------------------------------------------------------------------------
(* Places: types, the start and the theorem *)

LEMMA RegistryTypes ==
  ASSUME RegistryInv, Registry!Next, BookInv(Registry!Book, repository)'
  PROVE  Registry!TypeOK'
<1> USE DEF Registry!books, Registry!sessions, Registry!worker
<1>0. /\ managed \in [Repositories -> {"absent", "legacy", "enabled", "disabled"}]
      /\ accepts \in [Workers -> BOOLEAN] /\ available \in [Workers -> BOOLEAN]
      /\ configured \in [Workers -> Repositories \cup {None}] /\ access \in [Workers -> BOOLEAN]
      /\ {cached, known, kept} \subseteq [Workers -> SUBSET Repositories]
      /\ doing \in [Workers -> SUBSET Registry!Sessions]
      /\ answered \in [Workers -> {"yes", "no", "refused"}]
      /\ overtaken \in BOOLEAN /\ changes \in 0 .. MaxChanges
      /\ flight \in [Workers -> {None} \cup
           [configured : Repositories \cup {None}, access : BOOLEAN, current : BOOLEAN,
            known : SUBSET Repositories, kept : SUBSET Repositories]]
  BY DEF RegistryInv, Registry!TypeOK, Workers, Repositories
<1>1. /\ row' \in [Workers -> [Repositories -> [kind : {"none", "static", "dynamic"}, advertised : BOOLEAN]]]
      /\ repository' \in [Registry!Sessions -> Repositories \cup {None}]
      /\ at' \in [Registry!Sessions -> Workers \cup {None}]
      /\ stage' \in [Registry!Sessions -> {"none", "blocked", "queued", "open", "ended"}]
  BY DEF BookInv, BookTypes, Book, Registry!Book
<1> DEFINE Server == /\ managed \in [Repositories -> {"absent", "legacy", "enabled", "disabled"}]
                     /\ accepts \in [Workers -> BOOLEAN] /\ available \in [Workers -> BOOLEAN]
                     /\ cached \in [Workers -> SUBSET Repositories]
           Health == /\ configured \in [Workers -> Repositories \cup {None}]
                     /\ access \in [Workers -> BOOLEAN]
                     /\ answered \in [Workers -> {"yes", "no", "refused"}]
           Disk == /\ {known, kept} \subseteq [Workers -> SUBSET Repositories]
                   /\ doing \in [Workers -> SUBSET Registry!Sessions]
           Counts == overtaken \in BOOLEAN /\ changes \in 0 .. MaxChanges
           Flights == flight \in [Workers -> {None} \cup
                        [configured : Repositories \cup {None}, access : BOOLEAN, current : BOOLEAN,
                         known : SUBSET Repositories, kept : SUBSET Repositories]]
<1>2. Server /\ Health /\ Disk /\ Counts /\ Flights
  BY <1>0
<1>3. Server' /\ Health' /\ Disk' /\ Counts' /\ Flights' => Registry!TypeOK'
  BY <1>1 DEF Registry!TypeOK, Workers, Repositories
<1>4. Registry!Change => changes' \in 0 .. MaxChanges
  BY <1>0, RegistryNumbers DEF Registry!Change
<1>5. ASSUME NEW s \in Registry!Sessions, Registry!Cancel(s) PROVE Registry!TypeOK'
  BY <1>2, <1>3, <1>5 DEF Registry!Cancel
<1>6. ASSUME NEW s \in Registry!Sessions, Registry!Expire(s) PROVE Registry!TypeOK'
  <2>1. Server' /\ Health' /\ Flights'
    BY <1>2, <1>6 DEF Registry!Expire
  <2>2. Counts'
    <3>1. overtaken' \in BOOLEAN
      BY <1>6 DEF Registry!Expire
    <3> QED BY <1>2, <1>6, <3>1 DEF Registry!Expire
  <2>3. Disk'
    <3>1. CASE UNCHANGED <<known, doing, kept>>
      BY <1>2, <3>1
    <3>2. CASE s \in doing[at[s]]
      <4>1. at[s] \in Workers /\ repository[s] \in Repositories
        BY <1>6, BookParts DEF Registry!Expire, RegistryInv, BookInv, BookTypes
      <4> QED BY <1>2, <1>6, <3>2, <4>1 DEF Registry!Expire, Registry!Leave
    <3> QED BY <1>6, <3>1, <3>2 DEF Registry!Expire
  <2> QED BY <1>3, <2>1, <2>2, <2>3
<1>7. ASSUME NEW s \in Registry!Sessions, NEW r \in Repositories, Registry!Submit(s, r)
      PROVE  Registry!TypeOK'
  BY <1>2, <1>3, <1>7 DEF Registry!Submit
<1>8. ASSUME NEW w \in Workers, Registry!Claim(w) PROVE Registry!TypeOK'
  <2>1. Disk'
    <3>1. PICK queued \in Registry!Materialized(Registry!Book, w) :
            \/ \E s \in {z \in Registry!Sessions : Registry!Claimable(Registry!Rerouted(queued, w), z, w)} :
                 doing' = [doing EXCEPT ![w] = @ \cup {s}]
            \/ UNCHANGED doing
      BY <1>8 DEF Registry!Claim
    <3>2. UNCHANGED doing \/ \E s \in Registry!Sessions : doing' = [doing EXCEPT ![w] = @ \cup {s}]
      BY <3>1
    <3>3. UNCHANGED <<known, kept>>
      BY <1>8 DEF Registry!Claim
    <3> QED BY <1>2, <3>2, <3>3
  <2> QED BY <1>2, <1>3, <1>8, <2>1 DEF Registry!Claim
<1>9. ASSUME NEW w \in Workers, Registry!Register(w) PROVE Registry!TypeOK'
  <2>1. Flights'
    <3> DEFINE f == [configured |-> configured[w], access |-> access[w], known |-> known[w],
                     kept |-> kept[w], current |-> TRUE]
    <3>1. f \in [configured : Repositories \cup {None}, access : BOOLEAN, current : BOOLEAN,
                 known : SUBSET Repositories, kept : SUBSET Repositories]
      <4>1. access[w] \in BOOLEAN
        BY <1>2
      <4>2. configured[w] \in Repositories \cup {None} /\ known[w] \in SUBSET Repositories
            /\ kept[w] \in SUBSET Repositories
        BY <1>2
      <4> QED BY <4>1, <4>2
    <3> HIDE DEF f
    <3> QED BY <1>2, <1>9, <3>1 DEF Registry!Register, f
  <2> QED BY <1>2, <1>3, <1>4, <1>9, <2>1 DEF Registry!Register
<1>10. ASSUME NEW w \in Workers, Registry!RegisterWorker(w) PROVE Registry!TypeOK'
  <2> DEFINE f == flight[w]
  <2>1. f \in [configured : Repositories \cup {None}, access : BOOLEAN, current : BOOLEAN,
               known : SUBSET Repositories, kept : SUBSET Repositories]
    BY <1>2, <1>10 DEF Registry!RegisterWorker
  <2>2. /\ managed' = [r \in Repositories |->
             IF r = f.configured /\ managed[r] = "absent" THEN "legacy" ELSE managed[r]]
        /\ cached' = [cached EXCEPT ![w] = f.known] /\ accepts' = [accepts EXCEPT ![w] = f.access]
        /\ available' = [available EXCEPT ![w] = TRUE]
        /\ flight' = [flight EXCEPT ![w] = None]
        /\ \E yes \in BOOLEAN :
             answered' = [answered EXCEPT ![w] = IF yes /\ f.current THEN "yes" ELSE "no"]
        /\ UNCHANGED <<configured, access, known, doing, kept, overtaken, changes>>
    BY <1>10 DEF Registry!RegisterWorker, Repositories
  <2> HIDE DEF f
  <2>3. Server'
    <3>1. managed' \in [Repositories -> {"absent", "legacy", "enabled", "disabled"}]
      BY <1>2, <2>2
    <3>2. cached' \in [Workers -> SUBSET Repositories]
      BY <1>2, <2>1, <2>2
    <3>3. accepts' \in [Workers -> BOOLEAN]
      BY <1>2, <2>1, <2>2
    <3>4. available' \in [Workers -> BOOLEAN]
      <4>1. TRUE \in BOOLEAN
        OBVIOUS
      <4> QED BY <1>2, <2>2, <4>1
    <3> QED BY <3>1, <3>2, <3>3, <3>4
  <2>4. Health' /\ Flights'
    BY <1>2, <2>2
  <2> QED BY <1>2, <1>3, <2>2, <2>3, <2>4
<1>11. ASSUME NEW w \in Workers, Registry!RegistrationFails(w) PROVE Registry!TypeOK'
  <2>1. Health' /\ Flights'
    BY <1>2, <1>11 DEF Registry!RegistrationFails
  <2> QED BY <1>2, <1>3, <1>11, <2>1 DEF Registry!RegistrationFails
<1>12. ASSUME NEW w \in Workers, Registry!Fade(w) PROVE Registry!TypeOK'
  <2>1. available' \in [Workers -> BOOLEAN]
    <3>1. FALSE \in BOOLEAN
      OBVIOUS
    <3> QED BY <1>2, <1>12, <3>1 DEF Registry!Fade
  <2> QED BY <1>2, <1>3, <1>4, <1>12, <2>1 DEF Registry!Fade
<1>13. ASSUME NEW w \in Workers, Registry!Probe(w) PROVE Registry!TypeOK'
  <2>1. access' \in [Workers -> BOOLEAN]
    <3>1. (~access[w]) \in BOOLEAN
      OBVIOUS
    <3> QED BY <1>2, <1>13, <3>1 DEF Registry!Probe
  <2>2. answered' \in [Workers -> {"yes", "no", "refused"}]
    BY <1>2, <1>13 DEF Registry!Probe
  <2>3. Flights'
    <3> DEFINE f == IF flight[w] = None THEN None ELSE [flight[w] EXCEPT !.current = FALSE]
    <3>1. f \in {None} \cup [configured : Repositories \cup {None}, access : BOOLEAN, current : BOOLEAN,
                             known : SUBSET Repositories, kept : SUBSET Repositories]
      <4>1. FALSE \in BOOLEAN
        OBVIOUS
      <4>2. flight[w] \in {None} \cup [configured : Repositories \cup {None}, access : BOOLEAN,
                                       current : BOOLEAN, known : SUBSET Repositories,
                                       kept : SUBSET Repositories]
        BY <1>2
      <4> QED BY <4>1, <4>2
    <3>2. flight' = [flight EXCEPT ![w] = f]
      BY <1>13 DEF Registry!Probe
    <3> HIDE DEF f
    <3> QED BY <1>2, <3>1, <3>2
  <2> QED BY <1>2, <1>3, <1>4, <1>13, <2>1, <2>2, <2>3 DEF Registry!Probe
<1>14. ASSUME NEW w \in Workers, Registry!Restart(w) PROVE Registry!TypeOK'
  <2>1. Health' /\ Flights'
    BY <1>2, <1>14 DEF Registry!Restart, Repositories
  <2>2. Disk'
    <3> DEFINE made == {s \in doing[w] : repository[s] \in known[w] \cup {configured[w]}}
               places == {repository[s] : s \in made}
    <3>1. places \in SUBSET Repositories
      BY LeftWhereFilled, <1>14
    <3>2. kept' = [kept EXCEPT ![w] = @ \cup places] /\ doing' = [doing EXCEPT ![w] = {}]
          /\ known' = known
      BY <1>14 DEF Registry!Restart
    <3> HIDE DEF places
    <3> QED BY <1>2, <3>1, <3>2
  <2> QED BY <1>2, <1>3, <1>4, <1>14, <2>1, <2>2 DEF Registry!Restart
<1>15. ASSUME NEW w \in Workers, NEW s \in Registry!Sessions, Registry!Acquire(w, s)
       PROVE  Registry!TypeOK'
  <2>1. Disk'
    <3>1. repository[s] \in Repositories
      BY <1>15, LeftWhereFilled DEF Registry!Acquire
    <3> QED BY <1>2, <1>15, <3>1 DEF Registry!Acquire
  <2> QED BY <1>2, <1>3, <1>15, <2>1 DEF Registry!Acquire
<1>16. ASSUME NEW w \in Workers, NEW s \in Registry!Sessions, Registry!End(w, s)
       PROVE  Registry!TypeOK'
  <2>1. Disk'
    <3>1. repository[s] \in Repositories
      BY <1>16, LeftWhereFilled DEF Registry!End
    <3> QED BY <1>2, <1>16, <3>1 DEF Registry!End, Registry!Leave
  <2> QED BY <1>2, <1>3, <1>16, <2>1 DEF Registry!End
<1>17. ASSUME NEW w \in Workers, NEW r \in Repositories, Registry!Clean(w, r)
       PROVE  Registry!TypeOK'
  <2>1. Disk'
    BY <1>2, <1>17 DEF Registry!Clean
  <2> QED BY <1>2, <1>3, <1>17, <2>1 DEF Registry!Clean
<1>18. ASSUME NEW r \in Repositories, Registry!CreateManagedRepository(r) PROVE Registry!TypeOK'
  <2>1. Server'
    BY <1>2, <1>18 DEF Registry!CreateManagedRepository
  <2> QED BY <1>2, <1>3, <1>4, <1>18, <2>1 DEF Registry!CreateManagedRepository
<1>19. ASSUME NEW r \in Repositories, NEW enabled \in BOOLEAN, Registry!SetEnabled(r, enabled)
       PROVE  Registry!TypeOK'
  <2>1. Server'
    BY <1>2, <1>19 DEF Registry!SetEnabled
  <2> QED BY <1>2, <1>3, <1>4, <1>19, <2>1 DEF Registry!SetEnabled
<1> QED BY <1>5, <1>6, <1>7, <1>8, <1>9, <1>10, <1>11, <1>12, <1>13, <1>14, <1>15, <1>16, <1>17,
           <1>18, <1>19 DEF Registry!Next, Workers, Repositories

LEMMA RegistryStart == ASSUME Init PROVE RegistryInv
<1>0. /\ Registry!Init /\ MaxEntries \in Nat /\ MaxChanges \in Nat
      /\ Registry!Sessions = 1..MaxWork
      /\ managed \in [Repositories -> {"absent", "enabled"}]
      /\ row = [w \in Workers |-> [r \in Repositories |-> Registry!NoRow]]
      /\ \A w \in Workers : /\ cached[w] = {} /\ known[w] = {} /\ kept[w] = {} /\ doing[w] = {}
                            /\ accepts[w] = FALSE /\ answered[w] = "no" /\ flight[w] = None
      /\ overtaken = FALSE
      /\ stage = [s \in Registry!Sessions |-> "none"] /\ at = [s \in Registry!Sessions |-> None]
      /\ repository = [s \in Registry!Sessions |-> None]
  BY RegistryNumbers DEF Init, Registry!Init, Workers, Repositories
<1>1. Registry!NoRow.kind = "none" /\ Registry!NoRow.advertised = FALSE
      /\ Registry!NoRow \in [kind : {"none", "static", "dynamic"}, advertised : BOOLEAN]
  <2>1. FALSE \in BOOLEAN
    OBVIOUS
  <2> QED BY <2>1 DEF Registry!NoRow
<1>2. /\ row \in [Workers -> [Repositories -> [kind : {"none", "static", "dynamic"},
                                               advertised : BOOLEAN]]]
      /\ \A w \in Workers, r \in Repositories :
           row[w][r].kind = "none" /\ row[w][r].advertised = FALSE
  BY <1>0, <1>1
<1>3. Registry!TypeOK
  <2>1. accepts \in [Workers -> BOOLEAN] /\ available \in [Workers -> BOOLEAN]
    <3>1. FALSE \in BOOLEAN
      OBVIOUS
    <3>2. accepts = [w \in Workers |-> FALSE] /\ available = [w \in Workers |-> FALSE]
      BY <1>0 DEF Registry!Init, Workers
    <3> QED BY <3>1, <3>2
  <2>2. overtaken \in BOOLEAN
    BY <1>0
  <2>3. \A w \in Workers : None \in {None} \cup
          [configured : Repositories \cup {None}, access : BOOLEAN, current : BOOLEAN,
           known : SUBSET Repositories, kept : SUBSET Repositories]
    OBVIOUS
  <2>4. flight \in [Workers -> {None} \cup
          [configured : Repositories \cup {None}, access : BOOLEAN, current : BOOLEAN,
           known : SUBSET Repositories, kept : SUBSET Repositories]]
    <3>1. flight = [w \in Workers |-> None]
      BY <1>0 DEF Registry!Init, Workers
    <3> QED BY <2>3, <3>1
  <2>5. /\ {cached, known, kept} \subseteq [Workers -> SUBSET Repositories]
        /\ doing \in [Workers -> SUBSET Registry!Sessions]
        /\ answered \in [Workers -> {"yes", "no", "refused"}]
        /\ managed \in [Repositories -> {"absent", "legacy", "enabled", "disabled"}]
        /\ changes \in 0 .. MaxChanges
        /\ configured \in [Workers -> Repositories \cup {None}] /\ access \in [Workers -> BOOLEAN]
    BY <1>0 DEF Registry!Init, Workers, Repositories
  <2>6. /\ repository \in [Registry!Sessions -> Repositories \cup {None}]
        /\ at \in [Registry!Sessions -> Workers \cup {None}]
        /\ stage \in [Registry!Sessions -> {"none", "blocked", "queued", "open", "ended"}]
    BY <1>0
  <2> QED BY <1>2, <2>1, <2>2, <2>4, <2>5, <2>6 DEF Registry!TypeOK, Workers, Repositories
<1>4. \A w \in Workers, r \in Repositories : ~Needs(Registry!Book, repository, w, r)
  BY <1>0, BookParts DEF Needs
<1>5. BookTypes(Registry!Book, repository)
  BY <1>0, <1>2 DEF BookTypes, Book, Registry!Book
<1>6. RowsStand(Registry!Book, repository)
  BY <1>2, <1>4, BookParts DEF RowsStand
<1>7. PlacesFit(Registry!Book, repository)
  <2> SUFFICES ASSUME NEW w \in Workers
               PROVE  Fit(Filled(Registry!Book, repository, w)) /\ Fit(Taken(Registry!Book, w))
    BY <1>0 DEF PlacesFit
  <2>1. Filled(Registry!Book, repository, w) = {} /\ Taken(Registry!Book, w) = {}
    BY <1>0, <1>2, BookParts DEF Filled, Taken, Registry!Reserved, Repositories
  <2>2. Fit({})
    BY <1>0, FS_EmptySet DEF Fit
  <2> QED BY <2>1, <2>2
<1>8. CheckoutsStand(Registry!Book) /\ WorkStands(Registry!Book, repository)
      /\ FlightsStand(Registry!Book, repository)
  BY <1>0 DEF CheckoutsStand, Known, WorkStands, FlightsStand
<1> QED BY <1>3, <1>5, <1>6, <1>7, <1>8 DEF RegistryInv, BookInv

LEMMA RegistryStep == ASSUME RegistryInv, Registry!Next PROVE RegistryInv'
<1> USE DEF Registry!books, Registry!sessions, Registry!worker
<1>1. BookInv(Registry!Book, repository)'
  <2>1. ASSUME NEW w \in Workers, Registry!Fade(w) PROVE BookInv(Registry!Book, repository)'
    BY <2>1, FlightKeeps DEF Registry!Fade
  <2>2. ASSUME NEW r \in Repositories, Registry!CreateManagedRepository(r)
        PROVE  BookInv(Registry!Book, repository)'
    BY <2>2, FlightKeeps DEF Registry!CreateManagedRepository
  <2> QED BY <2>1, <2>2, SubmitKeeps, CancelKeeps, SetEnabledKeeps, ClaimKeeps, AcquireKeeps,
             EndKeeps, ExpireKeeps, CleanKeeps, RegistrationsKeep, RegisterWorkerKeeps,
             RestartKeeps DEF Registry!Next, Workers, Repositories
<1>2. Registry!TypeOK'
  BY <1>1, RegistryTypes
<1> QED BY <1>1, <1>2 DEF RegistryInv

LEMMA RegistryRests == ASSUME RegistryInv, UNCHANGED registryVars PROVE RegistryInv'
<1>1. /\ Registry!TypeOK' /\ UNCHANGED <<row, stage, at, repository, cached, accepts, configured,
                                         doing, known, kept, overtaken, answered, flight>>
  BY DEF RegistryInv, Registry!TypeOK, registryVars
<1>2. BookInv(Registry!Book, repository)'
  BY <1>1, FlightKeeps
<1> QED BY <1>1, <1>2 DEF RegistryInv

\* The reservation that Work needs stands, the books and the disk have no more than fit,
\* and the pages say what a route finds.
LEMMA RegistryShows == ASSUME RegistryInv PROVE Registry!PlacesKept
<1>0. Registry!TypeOK /\ BookInv(Registry!Book, repository)
  BY DEF RegistryInv
<1>1. Registry!ReservationsStand
  <2> SUFFICES ASSUME NEW s \in Registry!Sessions, stage[s] \in {"queued", "open"}
               PROVE  LET place == row[at[s]][repository[s]] IN
                      /\ place.kind # "none"
                      /\ place.kind = "dynamic" /\ accepts[at[s]] => place.advertised
    BY DEF Registry!ReservationsStand
  <2>1. at[s] \in Workers /\ repository[s] \in Repositories
    BY <1>0, BookParts DEF BookInv, BookTypes
  <2>2. Needs(Registry!Book, repository, at[s], repository[s])
    BY BookParts DEF Needs
  <2> QED BY <1>0, <2>1, <2>2, BookParts DEF BookInv, RowsStand
<1>2. Registry!CacheNotOvercommitted
  <2> SUFFICES ASSUME ~overtaken, NEW w \in Workers
               PROVE  /\ Cardinality(cached[w] \cup Registry!Reserved(Registry!Book, w)) <= MaxEntries
                      /\ Cardinality(known[w] \cup ({repository[s] : s \in doing[w]} \ {configured[w]}))
                           <= MaxEntries
    BY RegistryCardinality DEF Registry!CacheNotOvercommitted, Workers
  <2>1. Fit(Filled(Registry!Book, repository, w)) /\ Fit(Taken(Registry!Book, w))
    BY <1>0 DEF BookInv, PlacesFit
  <2> DEFINE used == known[w] \cup ({repository[s] : s \in doing[w]} \ {configured[w]})
  <2>2. used \subseteq Filled(Registry!Book, repository, w)
    BY LeftWhereFilled DEF Filled
  <2>3. Filled(Registry!Book, repository, w) \in SUBSET Repositories
    BY <1>0, PlaceSets
  <2> HIDE DEF used
  <2>4. Fit(used)
    BY <2>1, <2>2, <2>3, FitsLess
  <2> QED BY <2>1, <2>4 DEF Fit, Taken, used
<1>3. Registry!PagesAreRight
  <2> SUFFICES ASSUME NEW w \in Workers, NEW r \in Repositories
               PROVE  /\ Registry!Eligible(r, Registry!WorkerPage(w, r))
                           <=> Registry!Eligible(r, Registry!RepositoryPage(w, r))
                      /\ Registry!Eligible(r, Registry!WorkerPage(w, r))
                           => Registry!CanTake(Registry!Book, w, r)
    BY DEF Registry!PagesAreRight, Workers, Repositories
  <2>1. /\ row[w][r].kind \in {"none", "static", "dynamic"}
        /\ row[w][r].advertised => row[w][r].kind # "none"
        /\ row[w][r].advertised /\ row[w][r].kind = "dynamic" => accepts[w]
        /\ accepts[w] \in BOOLEAN
    BY <1>0, BookParts DEF BookInv, RowsStand, Registry!TypeOK, Workers, Repositories
  <2>2. r \in Registry!Reserved(Registry!Book, w) <=>
          row[w][r].kind = "dynamic" /\ row[w][r].advertised
    BY BookParts DEF Registry!Reserved, Repositories
  <2>3. /\ Registry!Eligible(r, Registry!WorkerPage(w, r)) <=>
             /\ managed[r] = "enabled" /\ available[w] /\ accepts[w]
             /\ \/ row[w][r].advertised /\ row[w][r].kind = "static"
                \/ accepts[w] /\ (\/ r \in cached[w] \/ r \in Registry!Reserved(Registry!Book, w)
                                  \/ Registry!CacheUse(Registry!Book, w) < MaxEntries)
        /\ Registry!Eligible(r, Registry!RepositoryPage(w, r)) <=>
             /\ managed[r] = "enabled" /\ available[w] /\ accepts[w]
             /\ \/ row[w][r].advertised
                \/ accepts[w] /\ (\/ r \in cached[w]
                                  \/ Registry!CacheUse(Registry!Book, w) < MaxEntries)
    BY DEF Registry!Eligible, Registry!WorkerPage, Registry!RepositoryPage, Registry!Page
  <2>4. Registry!CanTake(Registry!Book, w, r) <=>
          /\ Registry!Routed(Registry!Book, r) /\ available[w]
          /\ \/ row[w][r].advertised
             \/ /\ managed[r] = "enabled" /\ accepts[w]
                /\ r \in cached[w] \/ Registry!CacheUse(Registry!Book, w) < MaxEntries
    BY BookParts DEF Registry!CanTake
  <2>5. managed[r] = "enabled" => Registry!Routed(Registry!Book, r)
    BY DEF Registry!Routed
  <2> QED BY <2>1, <2>2, <2>3, <2>4, <2>5
<1> QED BY <1>1, <1>2, <1>3 DEF Registry!PlacesKept

\* Routes, claims and registrations keep the places of every worker: Work that waits or
\* runs keeps the place that was reserved for it, no worker is given more repositories
\* than its cache holds unless a lease expired between a snapshot, a clone and the
\* snapshot's arrival, and both pages call a worker ready where a route would take it
\* (selectRunRoute, RegisterWorker, reserveManagedRepositoryCache, task_claim.go).
THEOREM PlacesAlwaysKept == Spec => []PlacesKept
<1>1. Init => RegistryInv
  BY RegistryStart
<1>2. RegistryInv /\ [Next]_vars => RegistryInv'
  <2> SUFFICES ASSUME RegistryInv, [Next]_vars PROVE RegistryInv'
    OBVIOUS
  <2>1. CASE Registry!Next
    BY <2>1, RegistryStep
  <2>2. CASE UNCHANGED registryVars
    BY <2>2, RegistryRests
  <2> QED BY <2>1, <2>2 DEF Next, Keeping, Routing, vars
<1>3. RegistryInv => PlacesKept
  BY RegistryShows DEF PlacesKept, RegistryInv
<1> QED BY <1>1, <1>2, <1>3, PTL DEF Spec
=============================================================================
