--------------------------- MODULE WorktreeCustody ---------------------------
(***************************************************************************)
(* Who answers for the worktree of an attempt.  One worker, one repository:*)
(* the worktrees on its disk, the manifest of each attempt, the journal of *)
(* disposed attempts, and the capacity the control plane still reserves.   *)
(* The control plane admits work only below a limit of retained worktrees, *)
(* active attempts and ended attempts that the worker has not yet disposed *)
(* of; the worker may crash between any two writes, and registrations may  *)
(* be lost either way.                                                     *)
(*                                                                         *)
(* Abstracted: what the agent does; repository locks; health other than    *)
(* the fatal kind; a failed write of a manifest, which ends like a crash;  *)
(* the identity checks of reconciliation, which accept what Factory made.  *)
(***************************************************************************)
EXTENDS Naturals, FiniteSets

CONSTANTS Attempt,     \* attempts the worker may claim
          Limit,       \* protocol.MaxRetainedPerRepo
          MaxCrashes   \* bound: crashes of the worker

CustodyConstants == Limit \in Nat /\ MaxCrashes \in Nat /\ IsFiniteSet(Attempt)

VARIABLES
  server,      \* attempts.state, as none, active, ended
  released,    \* attempts.capacity_acknowledged
  counted,     \* the retained worktrees of the last registration
  usable,      \* workers.health is healthy
  up,          \* the process that holds the data directory lock
  step,        \* where the goroutine of the attempt stands
  retained, disposed,       \* Manager.retained and Manager.disposed
  fatal,       \* Manager.fatalHealth is set
  registering, \* where registerLocked stands
  registered,  \* Manager.registered, of a healthy worker
  manifest,    \* lifecycle in the attempt manifest
  journal,     \* disposed-attempts.json
  worktree,    \* absent; partial: only one of path and Git registration; present
  unsaved,     \* the worktree is dirty or holds unpublished commits
  crashes

serverVars == <<server, released, counted, usable>>
memoryVars == <<retained, disposed, fatal, registering, registered>>
diskVars == <<manifest, journal, worktree, unsaved>>
vars == <<serverVars, up, step, memoryVars, diskVars, crashes>>

Init ==
  /\ server = [a \in Attempt |-> "none"] /\ released = [a \in Attempt |-> FALSE]
  /\ counted = {} /\ usable = FALSE
  /\ up = "down" /\ step = [a \in Attempt |-> "none"]
  /\ retained = {} /\ disposed = {} /\ fatal = FALSE
  /\ registering = "no" /\ registered = FALSE
  /\ manifest = [a \in Attempt |-> "none"] /\ journal = {}
  /\ worktree = [a \in Attempt |-> "absent"] /\ unsaved = [a \in Attempt |-> FALSE]
  /\ crashes = 0

Go(a, from, to) == step[a] = from /\ step' = [step EXCEPT ![a] = to]
Write(a, lifecycle) == manifest' = [manifest EXCEPT ![a] = lifecycle]
\* markUnhealthy
Fail == fatal' = TRUE /\ registered' = FALSE
----------------------------------------------------------------------------
(* The control plane *)

Reserved == {a \in Attempt : \/ server[a] = "active"
                             \/ server[a] = "ended" /\ ~released[a]}
Count == Cardinality(counted) + Cardinality(Reserved)

\* Claim.  The worker may never see the answer: its claim was cancelled.
Claim(a) ==
  /\ up = "ready" /\ registered /\ usable
  /\ server[a] = "none" /\ Count < Limit
  /\ server' = [server EXCEPT ![a] = "active"]
  /\ \/ Go(a, "none", "claimed")
     \/ UNCHANGED step
  /\ UNCHANGED <<released, counted, usable, up, memoryVars, diskVars, crashes>>

\* The lease runs out: the attempt is lost.
SweepExpired(a) ==
  /\ server[a] = "active"
  /\ server' = [server EXCEPT ![a] = "ended"]
  /\ UNCHANGED <<released, counted, usable, up, step, memoryVars, diskVars, crashes>>

\* What a registration acknowledges.  Mutant: whatever has ended.
ReleaseEnded(a) == released[a] \/ server[a] = "ended"
Release(a) == released[a] \/ a \in disposed \/ (a \in retained /\ server[a] = "ended")

RegisterWorker ==
  /\ counted' = retained
  /\ released' = [a \in Attempt |-> Release(a)]
  /\ usable' = ~fatal
----------------------------------------------------------------------------
(* runAttempt *)

CreateManifest(a) ==
  /\ Go(a, "claimed", "adding") /\ Write(a, "preparing")
  /\ UNCHANGED <<serverVars, up, memoryVars, journal, worktree, unsaved, crashes>>

\* What git worktree add has to find.  Mutant: it does not wait for the manifest.
AddBeforeManifest(a) == step[a] \in {"claimed", "adding"}
AddReady(a) == step[a] = "adding"

GitAdd(a) ==
  \/ /\ AddReady(a) /\ worktree[a] = "absent"
     /\ worktree' = [worktree EXCEPT ![a] = "partial"]
     /\ UNCHANGED <<serverVars, up, step, memoryVars, manifest, journal, unsaved, crashes>>
  \/ /\ Go(a, "adding", "added") /\ worktree[a] = "partial"
     /\ worktree' = [worktree EXCEPT ![a] = "present"]
     /\ UNCHANGED <<serverVars, up, memoryVars, manifest, journal, unsaved, crashes>>

\* The command failed and the worktree is inspected.  A partial one is left as
\* it is, and the attempt is completed outside any handoff.
AddFailed(a) ==
  /\ \/ Go(a, "claimed", "dispose") /\ UNCHANGED <<manifest, fatal, registered, server>>
     \/ /\ worktree[a] = "absent"
        /\ Go(a, "adding", "dispose") /\ UNCHANGED <<manifest, fatal, registered, server>>
     \/ /\ Go(a, "added", "finish") /\ UNCHANGED <<manifest, fatal, registered, server>>
     \/ /\ worktree[a] = "partial"
        /\ Go(a, "adding", "none") /\ Write(a, "inconsistent") /\ Fail
        /\ \/ UNCHANGED server
           \/ server[a] = "active" /\ server' = [server EXCEPT ![a] = "ended"]
  /\ UNCHANGED <<released, counted, usable, up, retained, disposed, registering,
                 journal, worktree, unsaved, crashes>>

RecordWorktree(a) ==
  /\ Go(a, "added", "working") /\ Write(a, "created")
  /\ UNCHANGED <<serverVars, up, memoryVars, journal, worktree, unsaved, crashes>>

Work(a) ==
  /\ Go(a, "working", "finish")
  /\ \E u \in BOOLEAN : unsaved' = [unsaved EXCEPT ![a] = u]
  /\ UNCHANGED <<serverVars, up, memoryVars, manifest, journal, worktree, crashes>>
----------------------------------------------------------------------------
(* The capacity handoff: no registration is in progress while one lasts. *)

HandoffSteps == {"disposed", "lastcall", "completing", "clean", "removing",
                 "removed", "journal", "retain", "handoff"}
Handoffs == {a \in Attempt : step[a] \in HandoffSteps}

\* finishWithoutWorktree
BeginDispose(a) ==
  /\ registering = "no"
  /\ Go(a, "dispose", "disposed")
  /\ journal' = journal \cup {a} /\ disposed' = disposed \cup {a}
  /\ UNCHANGED <<serverVars, up, retained, fatal, registering, registered,
                 manifest, worktree, unsaved, crashes>>

RecordNotCreated(a) ==
  /\ Go(a, "disposed", "lastcall")
  /\ IF manifest[a] # "none" THEN Write(a, "not_created") ELSE UNCHANGED manifest
  /\ UNCHANGED <<serverVars, up, memoryVars, journal, worktree, unsaved, crashes>>

\* finishWithWorktree; the process group may refuse to stop.
BeginFinish(a) ==
  /\ registering = "no"
  /\ \/ Go(a, "finish", "completing") /\ Write(a, "completed") /\ UNCHANGED <<fatal, registered>>
     \/ Go(a, "finish", "retain") /\ Fail /\ UNCHANGED manifest
  /\ UNCHANGED <<serverVars, up, retained, disposed, registering, journal, worktree,
                 unsaved, crashes>>

\* complete: only an answer that says succeeded lets the worktree be cleaned.
Complete(a) ==
  /\ \/ server[a] = "active" /\ server' = [server EXCEPT ![a] = "ended"]
     \/ UNCHANGED server
  /\ \/ Go(a, "lastcall", "handoff")
     \/ Go(a, "completing", "retain")
     \/ server[a] = "active" /\ server'[a] = "ended" /\ Go(a, "completing", "clean")
  /\ UNCHANGED <<released, counted, usable, up, memoryVars, diskVars, crashes>>

\* automaticCleanupEligible, or the operator's --force.  Mutant: not looked at.
RemovableUnseen(a) == manifest[a] \in {"cleanup_automatic", "cleanup_operator"}
Removable(a) == \/ manifest[a] = "cleanup_operator"
                \/ manifest[a] = "cleanup_automatic" /\ ~unsaved[a]

\* cleanCompletedWorktree, up to the removal
BeginCleanup(a) ==
  /\ \/ Go(a, "clean", "removing") /\ ~unsaved[a] /\ Write(a, "cleanup_automatic")
     \/ Go(a, "clean", "retain") /\ UNCHANGED manifest
  /\ UNCHANGED <<serverVars, up, memoryVars, journal, worktree, unsaved, crashes>>

\* git worktree remove: the directory, then the registration.
GitRemove(a) ==
  /\ \/ /\ step[a] = "removing" /\ worktree[a] = "present" /\ Removable(a)
        /\ worktree' = [worktree EXCEPT ![a] = "partial"] /\ UNCHANGED step
     \/ /\ Go(a, "removing", "removed") /\ worktree[a] = "partial"
        /\ worktree' = [worktree EXCEPT ![a] = "absent"]
  /\ UNCHANGED <<serverVars, up, memoryVars, manifest, journal, unsaved, crashes>>

\* A removal that fails leaves cleanup_started behind and the worker unhealthy.
\* Reconciliation only starts over.
RemoveFailed(a) ==
  /\ \/ up = "ready" /\ Go(a, "removing", "handoff") /\ Fail
     \/ up = "starting" /\ Go(a, "removing", "none") /\ UNCHANGED <<fatal, registered>>
  /\ UNCHANGED <<serverVars, up, retained, disposed, registering, diskVars, crashes>>

\* The end of a removal; the operator's command keeps no journal.
RecordCleaned(a) ==
  /\ Go(a, "removed", IF up = "cleanup" THEN "none" ELSE "journal") /\ Write(a, "cleaned")
  /\ up' = IF up = "cleanup" THEN "down" ELSE up
  /\ UNCHANGED <<serverVars, memoryVars, journal, worktree, unsaved, crashes>>

\* recordDisposed
RecordDisposed(a) ==
  /\ Go(a, "journal", IF up = "starting" THEN "settled" ELSE "handoff")
  /\ journal' = journal \cup {a} /\ disposed' = disposed \cup {a}
  /\ UNCHANGED <<serverVars, up, retained, fatal, registering, registered,
                 manifest, worktree, unsaved, crashes>>

\* retain; a worktree that cannot be inspected is inconsistent until a restart.
Retain(a) ==
  /\ Go(a, "retain", "handoff")
  /\ \/ Write(a, "retained") /\ retained' = retained \cup {a} /\ UNCHANGED <<fatal, registered>>
     \/ Write(a, "inconsistent") /\ Fail /\ UNCHANGED retained
  /\ UNCHANGED <<serverVars, up, disposed, registering, journal, worktree, unsaved, crashes>>

\* finishCapacityHandoff: the last one registers without giving up the mutex.
EndHandoff(a) ==
  /\ Go(a, "handoff", "none")
  /\ registering' = IF Handoffs = {a} THEN "send" ELSE registering
  /\ UNCHANGED <<serverVars, up, retained, disposed, fatal, registered, diskVars, crashes>>
----------------------------------------------------------------------------
(* register, and what follows its answer *)

Register ==
  /\ up = "ready" /\ registering = "no" /\ Handoffs = {}
  /\ registering' = "send"
  /\ UNCHANGED <<serverVars, up, step, retained, disposed, fatal, registered, diskVars, crashes>>

RegistrationAnswered ==
  /\ registering = "send" /\ RegisterWorker
  /\ registering' = "remove"
  /\ UNCHANGED <<server, up, step, retained, disposed, fatal, registered, diskVars, crashes>>

RegistrationLost ==
  /\ registering = "send"
  /\ RegisterWorker \/ UNCHANGED <<counted, released, usable>>
  /\ registering' = "no" /\ registered' = FALSE
  /\ UNCHANGED <<server, up, step, retained, disposed, fatal, diskVars, crashes>>

Forgettable == {"cleaned", "not_created", "missing"}

\* removeDisposedManifests, file by file; one that is not gone is refused.
RemoveManifest(a) ==
  /\ registering = "remove" /\ a \in disposed /\ manifest[a] # "none"
  /\ IF manifest[a] \in Forgettable
     THEN Write(a, "none") /\ UNCHANGED <<registering, fatal, registered>>
     ELSE registering' = "no" /\ Fail /\ UNCHANGED manifest
  /\ UNCHANGED <<serverVars, up, step, retained, disposed, journal, worktree, unsaved, crashes>>

ClearDisposals ==
  /\ registering = "remove" /\ \A a \in disposed : manifest[a] = "none"
  /\ journal' = journal \ disposed /\ disposed' = {}
  /\ registering' = "no" /\ registered' = ~fatal
  /\ UNCHANGED <<serverVars, up, step, retained, fatal, manifest, worktree, unsaved, crashes>>
----------------------------------------------------------------------------
(* Crashes, restarts and the operator *)

Crash ==
  /\ up # "down" /\ crashes < MaxCrashes
  /\ up' = "down" /\ crashes' = crashes + 1
  /\ step' = [a \in Attempt |-> "none"]
  /\ retained' = {} /\ disposed' = {} /\ fatal' = FALSE
  /\ registering' = "no" /\ registered' = FALSE
  /\ UNCHANGED <<serverVars, diskVars>>

Start ==
  /\ up = "down"
  /\ up' = "starting" /\ disposed' = journal
  /\ UNCHANGED <<serverVars, step, retained, fatal, registering, registered, diskVars, crashes>>

\* The manifests reconcile goes through.  Mutant: not those of cleaned worktrees.
UnsettledUncleaned(a) == manifest[a] \notin {"none", "cleaned"} /\ a \notin disposed /\ step[a] # "settled"
Unsettled(a) == manifest[a] # "none" /\ a \notin disposed /\ step[a] # "settled"
Reconciling(a) == /\ up = "starting" /\ Unsettled(a)
                  /\ \A b \in Attempt : step[b] \in {"none", "settled"}

\* What an absent worktree makes of a manifest.  Mutant: a lifecycle the manifest
\* store does not know.
AbsentUnknown(lifecycle) == IF lifecycle = "cleaned" THEN "cleaned" ELSE "removed"
AbsentNow(lifecycle) ==
  CASE lifecycle \in {"preparing", "not_created"} -> "not_created"
    [] lifecycle \in {"cleanup_automatic", "cleanup_operator", "cleaned"} -> "cleaned"
    [] OTHER -> "missing"

ReconcileAbsent(a) ==
  /\ Reconciling(a) /\ worktree[a] = "absent"
  /\ Go(a, "none", "journal") /\ Write(a, AbsentNow(manifest[a]))
  /\ UNCHANGED <<serverVars, up, memoryVars, journal, worktree, unsaved, crashes>>

\* Half a worktree, or one that was recorded as gone: left to a human.
ReconcileInconsistent(a) ==
  /\ Reconciling(a)
  /\ worktree[a] = "partial" \/ (worktree[a] = "present" /\ manifest[a] \in {"cleaned", "not_created"})
  /\ Go(a, "none", "settled") /\ Write(a, "inconsistent") /\ Fail
  /\ UNCHANGED <<serverVars, up, retained, disposed, registering, journal, worktree, unsaved, crashes>>

ReconcileCleanup(a) ==
  /\ Reconciling(a) /\ worktree[a] = "present" /\ Removable(a)
  /\ Go(a, "none", "removing")
  /\ UNCHANGED <<serverVars, up, memoryVars, diskVars, crashes>>

ReconcileRetained(a) ==
  /\ Reconciling(a) /\ worktree[a] = "present" /\ ~Removable(a)
  /\ manifest[a] \notin {"cleaned", "not_created"}
  /\ Go(a, "none", "settled") /\ Write(a, "retained") /\ retained' = retained \cup {a}
  /\ UNCHANGED <<serverVars, up, disposed, fatal, registering, registered, journal,
                 worktree, unsaved, crashes>>

\* reconcile is through; Run registers before it claims.
Ready ==
  /\ up = "starting" /\ \A a \in Attempt : step[a] \in {"none", "settled"} /\ ~Unsettled(a)
  /\ up' = "ready" /\ registering' = "send"
  /\ step' = [a \in Attempt |-> "none"]
  /\ UNCHANGED <<serverVars, retained, disposed, fatal, registered, diskVars, crashes>>

\* factory-worker cleanup --confirm, while no worker runs.
Cleanup(a) ==
  /\ up = "down"
  /\ \/ /\ worktree[a] = "present"
        /\ manifest[a] \in {"retained", "cleanup_automatic", "cleanup_operator"}
        /\ up' = "cleanup" /\ Write(a, "cleanup_operator") /\ Go(a, "none", "removing")
     \/ /\ worktree[a] = "absent"
        /\ manifest[a] \in {"cleanup_automatic", "cleanup_operator"}
        /\ Write(a, "cleaned") /\ UNCHANGED <<up, step>>
  /\ UNCHANGED <<serverVars, memoryVars, journal, worktree, unsaved, crashes>>

\* Somebody works on in a worktree that was left behind.
Edit(a) ==
  /\ worktree[a] = "present" /\ step[a] = "none" /\ ~unsaved[a]
  /\ unsaved' = [unsaved EXCEPT ![a] = TRUE]
  /\ UNCHANGED <<serverVars, up, step, memoryVars, manifest, journal, worktree, crashes>>
----------------------------------------------------------------------------
Run(a) ==
  \/ CreateManifest(a) \/ GitAdd(a) \/ AddFailed(a) \/ RecordWorktree(a) \/ Work(a)
  \/ BeginDispose(a) \/ RecordNotCreated(a) \/ BeginFinish(a) \/ Complete(a)
  \/ BeginCleanup(a) \/ GitRemove(a) \/ RemoveFailed(a) \/ RecordCleaned(a)
  \/ RecordDisposed(a) \/ Retain(a) \/ EndHandoff(a)

Reconcile(a) == \/ ReconcileAbsent(a) \/ ReconcileInconsistent(a)
                \/ ReconcileCleanup(a) \/ ReconcileRetained(a)

Registration ==
  \/ Register \/ RegistrationAnswered \/ RegistrationLost
  \/ (\E a \in Attempt : RemoveManifest(a)) \/ ClearDisposals

Next ==
  \/ \E a \in Attempt : \/ Claim(a) \/ SweepExpired(a) \/ Run(a) \/ Reconcile(a)
                        \/ Cleanup(a) \/ Edit(a)
  \/ Registration \/ Crash \/ Start \/ Ready

Spec == Init /\ [][Next]_vars

\* The sweeper ticks, some goroutine of the worker runs, its process is
\* restarted, it registers periodically, a mutex goes to one of those that wait
\* for it, and of registrations, or git removals, tried for ever one succeeds.
FairSpec ==
  /\ Spec
  /\ WF_vars(\E a \in Attempt : SweepExpired(a)) /\ WF_vars(\E a \in Attempt : Run(a))
  /\ WF_vars(\E a \in Attempt : Reconcile(a)) /\ WF_vars(\E a \in Attempt : RemoveManifest(a))
  /\ SF_vars(\E a \in Attempt : BeginDispose(a) \/ BeginFinish(a))
  /\ SF_vars(\E a \in Attempt : GitRemove(a))
  /\ WF_vars(Start) /\ WF_vars(Ready) /\ WF_vars(Register) /\ WF_vars(ClearDisposals)
  /\ SF_vars(RegistrationAnswered)
----------------------------------------------------------------------------
(* Properties *)

Lifecycle == {"none", "preparing", "created", "completed", "retained", "not_created",
              "inconsistent", "missing", "cleanup_automatic", "cleanup_operator", "cleaned"}

TypeOK ==
  /\ server \in [Attempt -> {"none", "active", "ended"}]
  /\ released \in [Attempt -> BOOLEAN] /\ counted \subseteq Attempt /\ usable \in BOOLEAN
  /\ up \in {"down", "starting", "ready", "cleanup"}
  /\ step \in [Attempt -> HandoffSteps \cup {"none", "claimed", "adding", "added", "working",
                                            "finish", "dispose", "settled"}]
  /\ retained \subseteq Attempt /\ disposed \subseteq Attempt
  /\ fatal \in BOOLEAN /\ registering \in {"no", "send", "remove"} /\ registered \in BOOLEAN
  /\ manifest \in [Attempt -> Lifecycle] /\ journal \subseteq Attempt
  /\ worktree \in [Attempt -> {"absent", "partial", "present"}]
  /\ unsaved \in [Attempt -> BOOLEAN] /\ crashes \in 0..MaxCrashes

OnDisk == {a \in Attempt : worktree[a] # "absent"}

\* Whatever crashes, nothing is left on the disk that no manifest names, and
\* nothing is journalled as disposed of that is still there.
DiskIsAccountedFor ==
  /\ \A a \in OnDisk : manifest[a] # "none"
  /\ \A a \in journal \cup disposed : worktree[a] = "absent"

\* The control plane never releases the capacity of a worktree that is still on
\* the disk of a worker it may give work to: the limit bounds the disk.
WorktreesBounded ==
  /\ usable => OnDisk \subseteq counted \cup Reserved
  /\ Cardinality(OnDisk) <= Limit

\* What one worker's disk, its manifests and the control plane's count tell of
\* each other (WorktreeAdd, setState, ReleaseDisposition).
WorktreesAccountedFor == TypeOK /\ DiskIsAccountedFor /\ WorktreesBounded

\* Only an operator's confirmation removes uncommitted or unpublished work.
UnsavedWorkSurvives ==
  [][\A a \in Attempt : worktree[a] = "present" /\ worktree'[a] # "present" /\ unsaved[a]
       => manifest[a] = "cleanup_operator"]_vars

\* An attempt of which the worker has a durable record does not hold capacity for
\* ever: the record outlives the capacity, which is released in the end, or the worker
\* has asked for a human.
RecordedIsReleased ==
  /\ [][\A a \in Attempt : manifest[a] # "none" /\ manifest'[a] = "none" => released[a]]_vars
  /\ \A a \in Attempt : []<>(manifest[a] = "none" \/ released[a] \/ fatal)

\* What removeDisposedManifests asserts when it refuses a manifest: the journal
\* names only attempts whose manifest says that the worktree is gone.
JournalledIsForgettable ==
  registering = "remove" => \A a \in disposed : manifest[a] \in Forgettable \cup {"none"}
=============================================================================
