------------------------------ MODULE MCWorker ------------------------------
(***************************************************************************)
(* What the server keeps of its workers, for TLC: the worktrees it counts  *)
(* and the places in repository caches it gives away.  They share no state *)
(* here, so a behaviour chooses one of them and leaves the other as it     *)
(* began.                                                                  *)
(***************************************************************************)
EXTENDS Naturals

CONSTANTS
  Attempt, Limit, MaxCrashes,                    \* WorktreeCustody
  None, worker1, worker2, repository1, repository2,   \* WorkerRegistry
  MaxEntries, MaxWork, MaxChanges

VARIABLES
  part,
  server, released, counted, usable, up, step, retained, disposed, fatal, registering,
  registered, manifest, journal, worktree, unsaved, crashes,
  managed, row, cached, accepts, available, repository, stage, at,
  configured, access, known, doing, kept, answered, flight, overtaken, changes

Custody == INSTANCE WorktreeCustody
Registry == INSTANCE WorkerRegistry WITH
  Workers <- {worker1, worker2}, Repositories <- {repository1, repository2},
  registered <- answered

ASSUME Constants == Custody!CustodyConstants /\ Registry!RegistryConstants

custodyVars == <<server, released, counted, usable, up, step, retained, disposed, fatal,
                 registering, registered, manifest, journal, worktree, unsaved, crashes>>
registryVars == <<managed, row, cached, accepts, available, repository, stage, at,
                  configured, access, known, doing, kept, answered, flight, overtaken, changes>>
vars == <<part, custodyVars, registryVars>>

\* The registry begins with GitHub access, one worker without a checkout, one repository
\* that is managed, and another that is, unless it is a checkout; when it rests, without.
Init ==
  /\ part \in {"custody", "registry"}
  /\ Custody!Init /\ Registry!Init
  /\ configured[worker2] = None /\ access[worker1] /\ access[worker2] /\ managed[repository1] = "enabled"
  /\ managed[repository2] = IF configured[worker1] = repository2 THEN "absent" ELSE "enabled"
  /\ part = "registry" \/ configured[worker1] = None

Keeping(A) == part = "custody" /\ A /\ UNCHANGED <<part, registryVars>>
Routing(A) == part = "registry" /\ A /\ UNCHANGED <<part, custodyVars>>

Next == Keeping(Custody!Next) \/ Routing(Registry!Next)

Spec == Init /\ [][Next]_vars

\* The fairness of WorktreeCustody, as that module states and explains it.
FairSpec ==
  /\ Spec
  /\ WF_vars(Keeping(\E a \in Attempt : Custody!SweepExpired(a)))
  /\ WF_vars(Keeping(\E a \in Attempt : Custody!Run(a)))
  /\ WF_vars(Keeping(\E a \in Attempt : Custody!Reconcile(a)))
  /\ WF_vars(Keeping(\E a \in Attempt : Custody!RemoveManifest(a)))
  /\ SF_vars(Keeping(\E a \in Attempt : Custody!BeginDispose(a) \/ Custody!BeginFinish(a)))
  /\ SF_vars(Keeping(\E a \in Attempt : Custody!GitRemove(a)))
  /\ WF_vars(Keeping(Custody!Start)) /\ WF_vars(Keeping(Custody!Ready))
  /\ WF_vars(Keeping(Custody!Register)) /\ WF_vars(Keeping(Custody!ClearDisposals))
  /\ SF_vars(Keeping(Custody!RegistrationAnswered))

-----------------------------------------------------------------------------
\* WorktreeCustody: the disk, the manifests and the server's count agree (WorktreeAdd,
\* setState, ReleaseDisposition).
WorktreesAccountedFor == part = "custody" => Custody!WorktreesAccountedFor
\* WorktreeCustody: only an operator's confirmation removes unsaved work (cleanup.go).
UnsavedWorkSurvives == Custody!UnsavedWorkSurvives
\* WorktreeCustody: a recorded attempt gives its capacity back (ReleaseDisposition).
RecordedIsReleased == Custody!RecordedIsReleased
\* WorkerRegistry: reserved places stand while Work needs them, no worker has more than
\* fit, and the pages tell what a route finds (selectRunRoute, RegisterWorker).
PlacesKept == part = "registry" => Registry!TypeOK /\ Registry!PlacesKept
=============================================================================
