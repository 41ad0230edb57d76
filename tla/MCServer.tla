------------------------------ MODULE MCServer ------------------------------
(***************************************************************************)
(* Work on its way in, through a plan and out, for TLC: admission, the     *)
(* planned route and delivery share no state here, so a behaviour chooses  *)
(* one of them and leaves the others as they began.                        *)
(***************************************************************************)
EXTENDS Naturals, TLC

CONSTANTS
  None, Foreign,
  MaxLast, AutoMerge, MaxAttempts, MaxSha,                \* PipelineDelivery
  text, slug1, slug2, stone,                              \* Planning
  MaxNumber, MaxCheckpoints, MaxPasses,
  Clients, ProcedureKeys, name1, name2, prompt1, prompt2, id,   \* Admission
  MaxTasks, MaxPipelines, MaxRuns, MaxEdits

\* A split into a pebble of a stone, and one into another pebble without stones.
Splits ==
  {[chosen |-> (slug1 :> stone), kept |-> {stone}], [chosen |-> (slug2 :> None), kept |-> {}]}
\* Two submissions whose Task names collide, the second on an operator's Pipeline.
Submissions ==
  {[key |-> "k1", name |-> name1, prompt |-> prompt1, source |-> "orchestrator",
    pipeline |-> "critique"],
   [key |-> "k2", name |-> name1, prompt |-> prompt2, source |-> "cockpit",
    pipeline |-> id]}
\* An operator types, for RunTask, the key AdmitWork takes for its own.
TaskKeys == {<<"work:", "k1">>}

VARIABLES
  part,
  last, fast, work, cancel, try, stage, verdict, outcome, evidence, checking, pr,
  verified, merge, rows, refused, head, red, merged, merger, pass, judged,
  route, stones, pebbles, passes, reading,
  tasks, pipelines, admissions, halted, request, answers, server, edits

Delivery == INSTANCE PipelineDelivery
Plan == INSTANCE Planning WITH Null <- None, Texts <- {text}, Slugs <- {slug1, slug2},
                               Stones <- {stone}
Admit == INSTANCE Admission WITH Names <- {name1, name2}, Prompts <- {prompt1, prompt2},
                                 Ids <- {id}, Titles <- {"critique", "other"},
                                 runs <- admissions, paused <- halted

ASSUME Constants ==
  /\ Delivery!PipelineAssumption /\ Delivery!ModeAssumption
  /\ Plan!PlanningConstants /\ Plan!SplitsAreValid /\ Admit!AdmissionConstants

deliveryVars == <<last, fast, work, cancel, try, stage, verdict, outcome, evidence,
                  checking, pr, verified, merge, rows, refused, head, red, merged, merger,
                  pass, judged>>
planVars == <<route, stones, pebbles, passes, reading>>
admitVars == <<tasks, pipelines, admissions, halted, request, answers, server, edits>>
vars == <<part, deliveryVars, planVars, admitVars>>

\* A delivery that rests is in one of its initial states.
Init ==
  /\ part \in {"delivery", "planning", "admission", "lines"}
  /\ Delivery!Init /\ Plan!Init /\ Admit!Init
  /\ part = "delivery" \/ (last = 0 /\ ~fast)

Deliveries ==
  part = "delivery" /\ Delivery!Next /\ UNCHANGED <<part, planVars, admitVars>>
Planning ==
  part = "planning" /\ Plan!Next /\ UNCHANGED <<part, deliveryVars, admitVars>>
\* The bounds of admission: requests meet one another, MaxEdits edits and a Run by hand
\* while the Work of their Runs goes on, or the Work of one submission is run, retried,
\* replaced and rebuilt by hand MaxRuns times and nothing is edited.
RequestBounds ==
  /\ part = "admission" /\ Admit!ByHand' <= 1
  /\ \A r \in DOMAIN admissions : admissions'[r].work = "open"
LineBounds ==
  /\ part = "lines" /\ edits' = 0
  /\ admissions # <<>> => \A c \in Clients : request'[c].step = "idle"
Admissions ==
  Admit!Next /\ (RequestBounds \/ LineBounds) /\ UNCHANGED <<part, deliveryVars, planVars>>

Next == Deliveries \/ Planning \/ Admissions

Spec == Init /\ [][Next]_vars

\* Clients and the keys of Procedure Runs are interchangeable.
Symmetry == Permutations(Clients) \cup Permutations(ProcedureKeys)

-----------------------------------------------------------------------------
\* A part that rests is in an initial state; a property looks at the part that runs.
Runs(name) == part = name
AdmissionRuns == part \in {"admission", "lines"}

\* Every part keeps its type invariant.
TypeOK ==
  /\ Runs("delivery") => Delivery!TypeOK
  /\ Runs("planning") => Plan!TypeOK
  /\ AdmissionRuns => Admit!TypeOK
\* PipelineDelivery: the stage rows tell how far the Pipeline came (stage_runs.go).
StagesTellProgress == Runs("delivery") => Delivery!StagesTellProgress
\* PipelineDelivery: reviewed Work is merged only on a current approval; Factory merges
\* the commit it verified, and its ledger says so once and only then (approval.go,
\* ready_verification.go, automerge.go).
MergedAsApproved == Runs("delivery") =>
  /\ Delivery!MergedOnCurrentApproval
  /\ Delivery!MergedWhatWasVerified /\ Delivery!LedgerNeverClaimsTooMuch
\* PipelineDelivery: nothing moves a delivered Work or begins its merge again
\* (CompleteAttempt, RetrySession, recordMergeRefusal).
DeliveryStands == Delivery!DeliveryStands
\* Planning: a closed checkpoint stands, and what cites a checkpoint by its number
\* still means that one after any renumbering (InsertPlanningCheckpoint).
RouteStands == Plan!RouteStands
\* Planning: the card of a checkpoint that was closed when it was read shows its own
\* pebbles and passes, whatever is renumbered between the queries (readRoadmap).
PageTellsTruth == Runs("planning") => Plan!PageTellsTruth
\* Admission: a request key has one Run, of the submitted prompt, a Task's Pipeline
\* exists, and Work is rebuilt, replaced and retried in lines of one open Work each
\* (AdmitWork, admitTask, selectProcedurePredecessors, validateWorkRetryGuards).
AdmittedOnce == AdmissionRuns =>
  Admit!OneRunPerKey /\ Admit!PipelinesExist /\ Admit!OneLine
\* Admission: an admitted key is never refused, another one only for what somebody
\* else did (AdmitWork, adoptAdmittedTask).
RefusedForCause == AdmissionRuns => Admit!RefusedForCause
=============================================================================
