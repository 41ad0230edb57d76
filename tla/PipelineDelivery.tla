-------------------------- MODULE PipelineDelivery --------------------------
(***************************************************************************)
(* One Work with its Pipeline, from claim to the automatic merge of its    *)
(* pull request: the stage rows, the verdicts the stages record, the ready *)
(* report the control plane checks against GitHub before the transaction   *)
(* that stores it, and the merge it attempts after the transaction that    *)
(* completes the attempt.  GitHub calls are steps of their own: commits,   *)
(* checks and people move in between.                                      *)
(*                                                                         *)
(* Abstracted: the rows WorkLifecycle relates (session, execution and      *)
(* attempt agree, so `work` stands for the three and a call of any attempt *)
(* but the newest is refused); results, costs and messages; which worker.  *)
(* A commit is a number; 0 is none.                                        *)
(***************************************************************************)
EXTENDS Naturals, FiniteSets

CONSTANTS
  MaxLast,       \* bound: position of the last stage of a Pipeline
  AutoMerge,     \* session.delivery is pull_request_auto_merge
  MaxAttempts,   \* bound: attempts of the Work
  MaxSha         \* bound: commits pushed to the publish branch

Verdict == {"none", "approve", "blocked"}   \* request-changes decides like blocked

PipelineAssumption == MaxLast \in Nat /\ MaxAttempts \in Nat /\ MaxSha \in Nat
ModeAssumption == AutoMerge \in BOOLEAN

VARIABLES
  last,      \* position of the last stage of the Pipeline it was admitted with
  fast,      \* run.assurance is fast
  work,      \* sessions.state
  cancel,    \* executions.cancellation_requested
  try,       \* number of the newest attempt
  stage,     \* session_stages.state
  verdict,   \* session_stages.review_verdict
  outcome,   \* ending status the newest attempt reported
  evidence,  \* commit of that report when it is ready
  checking,  \* the ready report between its GitHub check and its transaction
  pr,        \* sessions.pull_request_head_sha
  verified,  \* sessions.delivery_verification_source is server-github
  merge,     \* where the post-commit merge of CompleteAttempt stands
  rows,      \* number of work_updates rows with status merged
  refused,   \* the terminal message says that the merge was refused
  head,      \* GitHub: head of the publish branch and of its pull request
  red,       \* GitHub: commits with a failing or running check
  merged,    \* GitHub: the commit that was merged
  merger,    \* GitHub: who merged it
  pass,      \* history: attempts made before the last retry
  judged     \* history: the attempt that completed each stage last

admitted == <<last, fast>>
stageVars == <<stage, verdict, judged>>
reportVars == <<outcome, evidence, checking, verified>>
mergeVars == <<merge, rows, refused>>
githubVars == <<head, red, merged, merger>>
vars == <<work, cancel, try, stageVars, reportVars, pr, mergeVars, githubVars, pass, admitted>>

Stage == 0..last

Init ==
  /\ last \in 0..MaxLast /\ fast \in BOOLEAN
  /\ work = "queued" /\ cancel = FALSE /\ try = 0
  /\ stage = [s \in Stage |-> "pending"]
  /\ verdict = [s \in Stage |-> "none"]
  /\ judged = [s \in Stage |-> 0]
  /\ outcome = "none" /\ evidence = 0 /\ checking = <<>> /\ verified = FALSE
  /\ pr = 0 /\ merge = "none" /\ rows = 0 /\ refused = FALSE
  /\ head = 0 /\ red = {} /\ merged = 0 /\ merger = "nobody"
  /\ pass = 0

Held == {"preparing", "running"}
----------------------------------------------------------------------------
(* The attempt and its stages *)

Claim ==
  /\ work = "queued" /\ try < MaxAttempts
  /\ work' = "preparing" /\ try' = try + 1 /\ cancel' = FALSE
  /\ outcome' = "none" /\ evidence' = 0
  /\ UNCHANGED <<stageVars, checking, verified, pr, mergeVars, githubVars, pass, admitted>>

StartAttempt ==
  /\ work = "preparing" /\ work' = "running"
  /\ UNCHANGED <<cancel, try, stageVars, reportVars, pr, mergeVars, githubVars, pass, admitted>>

\* Mutant: the earlier stages are not looked at.
StartableOpen(s) == stage[s] \in {"pending", "running"}
Startable(s) == /\ stage[s] \in {"pending", "running"}
                /\ \A t \in 0..(s - 1) : stage[t] = "succeeded"

StartStage(s) ==
  /\ work = "running" /\ ~cancel
  /\ Startable(s)
  /\ stage' = [stage EXCEPT ![s] = "running"]
  /\ UNCHANGED <<work, cancel, try, verdict, judged, reportVars, pr, mergeVars,
                 githubVars, pass, admitted>>

\* The first stage may not judge its own work.  Mutant: it may.
AnyoneJudges(s) == TRUE
MayJudge(s) == s > 0

\* CompleteStage, unless it replays a completion it already stored.  A failure
\* cancels what has not started.
CompleteStage(s, end, v) ==
  /\ work = "running"
  /\ stage[s] = "running"
  /\ v # "none" => MayJudge(s)
  /\ stage' = [t \in Stage |-> IF t = s THEN end
                               ELSE IF t > s /\ end # "succeeded" /\ stage[t] = "pending"
                                    THEN "cancelled" ELSE stage[t]]
  /\ verdict' = [verdict EXCEPT ![s] = v]
  /\ judged' = [judged EXCEPT ![s] = try]
  /\ UNCHANGED <<work, cancel, try, reportVars, pr, mergeVars, githubVars, pass, admitted>>
----------------------------------------------------------------------------
(* Agent updates *)

\* verifyReadyDelivery, before the transaction and for whoever holds the token
\* of an attempt: repository, branch, pull request head and branch ref all name
\* the commit the agent reports.
VerifyReady ==
  /\ try > 0 /\ checking = <<>>
  /\ head # 0
  /\ checking' = <<try, head>>
  /\ UNCHANGED <<work, cancel, try, stageVars, outcome, evidence, verified, pr,
                 mergeVars, githubVars, pass, admitted>>

\* The guards of the transaction of AppendAgentUpdate, for a report of attempt n.
Reportable(n) == n = try /\ work = "running" /\ ~cancel /\ outcome = "none"

\* The transaction of a ready report: it stores the evidence, or refuses it.
RecordReady ==
  /\ checking # <<>>
  /\ checking' = <<>>
  /\ LET accepted == Reportable(checking[1]) IN
       /\ outcome' = IF accepted THEN "ready" ELSE outcome
       /\ evidence' = IF accepted THEN checking[2] ELSE evidence
       /\ verified' = (accepted \/ verified)
  /\ UNCHANGED <<work, cancel, try, stageVars, pr, mergeVars, githubVars, pass, admitted>>

AppendAgentUpdate(status) ==
  /\ Reportable(try)
  /\ outcome' = status
  /\ UNCHANGED <<work, cancel, try, stageVars, evidence, checking, verified, pr,
                 mergeVars, githubVars, pass, admitted>>
----------------------------------------------------------------------------
(* The end of an attempt *)

\* What becomes of the stages when the attempt does not succeed.
Settled(rest, ended) ==
  [s \in Stage |-> CASE rest[s] = "running" -> ended
                     [] rest[s] = "pending" -> "cancelled"
                     [] OTHER -> rest[s]]

\* The stages a successful attempt leaves: the Pipeline of one stage is finished
\* here when nobody reported it.
OneStage == [s \in Stage |-> IF last = 0 /\ stage[s] \in {"pending", "running"}
                             THEN "succeeded" ELSE stage[s]]

PipelineDone == \A s \in Stage : OneStage[s] = "succeeded"

\* CompleteAttempt under the agent_update contract.
CompleteAttempt(reported) ==
  /\ work \in Held
  /\ LET missing == ~cancel /\ reported = "succeeded" /\ outcome = "none"
         end == IF cancel THEN "cancelled" ELSE IF missing THEN "failed" ELSE reported
         begun == IF missing /\ stage[last] = "succeeded"
                  THEN [stage EXCEPT ![last] = "failed"] ELSE stage
     IN
       /\ IF end = "succeeded"
          THEN /\ work = "running" /\ PipelineDone
               /\ stage' = OneStage
               /\ work' = outcome
               /\ merge' = IF outcome = "ready" THEN "decide" ELSE merge
          ELSE /\ stage' = Settled(begun, end)
               /\ work' = end
               /\ UNCHANGED merge
       /\ pr' = IF outcome = "ready" THEN evidence ELSE pr
  /\ UNCHANGED <<cancel, try, verdict, judged, reportVars, rows, refused, githubVars, pass, admitted>>

\* SweepExpired: the lease of the attempt ran out.
SweepExpired ==
  /\ work \in Held
  /\ work' = "failed"
  /\ stage' = Settled(stage, "failed")
  /\ pr' = IF outcome = "ready" THEN evidence ELSE pr
  /\ UNCHANGED <<cancel, try, verdict, judged, reportVars, mergeVars, githubVars, pass, admitted>>

CancelSession ==
  \/ /\ work \in {"queued", "needs-input"}
     /\ work' = "cancelled"
     /\ stage' = [s \in Stage |-> IF stage[s] \in {"pending", "running"} THEN "cancelled" ELSE stage[s]]
     /\ UNCHANGED cancel
     /\ UNCHANGED <<try, verdict, judged, reportVars, pr, mergeVars, githubVars, pass, admitted>>
  \/ /\ work \in Held
     /\ cancel' = TRUE
     /\ UNCHANGED <<work, try, stageVars, reportVars, pr, mergeVars, githubVars, pass, admitted>>

\* The stages a retry runs again.  Mutant: those an answer would.
RerunLast == {last}
Rerun == Stage

\* Mutant: Work that was delivered may be retried too.
RetryableReady == {"failed", "cancelled", "ready"}
Retryable == {"failed", "cancelled"}

RetrySession ==
  /\ work \in Retryable
  /\ work' = "queued" /\ cancel' = FALSE
  /\ stage' = [s \in Stage |-> IF s \in Rerun THEN "pending" ELSE stage[s]]
  /\ pass' = try
  /\ UNCHANGED <<try, verdict, judged, reportVars, pr, mergeVars, githubVars, admitted>>

\* AnswerWork: only the stage that asked runs again.
AnswerWork ==
  /\ work = "needs-input"
  /\ work' = "queued" /\ cancel' = FALSE
  /\ stage' = [stage EXCEPT ![last] = "pending"]
  /\ UNCHANGED <<try, verdict, judged, reportVars, pr, mergeVars, githubVars, pass, admitted>>
----------------------------------------------------------------------------
(* maybeAutoMerge, after the transaction of CompleteAttempt *)

\* The verdict of the highest stage that recorded one.
ReviewVerdict ==
  IF \A s \in Stage : verdict[s] = "none" THEN "none"
  ELSE verdict[CHOOSE s \in Stage : /\ verdict[s] # "none"
                                    /\ \A t \in Stage : t > s => verdict[t] = "none"]

\* The local conditions, cheapest first.
Decide ==
  /\ merge = "decide"
  /\ merge' = IF /\ AutoMerge /\ verified
                 /\ fast \/ ReviewVerdict = "approve"
                 /\ pr # 0 /\ rows = 0
              THEN "checks" ELSE "none"
  /\ UNCHANGED <<work, cancel, try, stageVars, reportVars, pr, rows, refused, githubVars, pass, admitted>>

\* What follows passing checks.  Mutant: the ledger row is written first.
RecordFirst == "record"
AfterChecks == "call"

\* FailingChecks: nothing failing, something failing, or the read fails.
ReadChecks ==
  /\ merge = "checks"
  /\ \/ pr \notin red /\ merge' = AfterChecks
     \/ pr \in red /\ merge' = "none"
     \/ merge' = "refuse"
  /\ UNCHANGED <<work, cancel, try, stageVars, reportVars, pr, rows, refused, githubVars, pass, admitted>>

\* What GitHub takes the commit to merge from.  Mutant: the request does not pin it.
Unpinned == head
Pinned == pr

\* MergePullRequest.  GitHub merges the commit it is asked for while it is still
\* the head; its answer may not arrive; it may refuse for reasons of its own.
CallMerge ==
  /\ merge = "call"
  /\ \/ /\ head = Pinned /\ merged = 0
        /\ merged' = head /\ merger' = "factory"
        /\ merge' \in {"record", "refuse"}
     \/ /\ merge' = "refuse"
        /\ UNCHANGED <<merged, merger>>
  /\ UNCHANGED <<work, cancel, try, stageVars, reportVars, pr, rows, refused, head, red, pass, admitted>>

\* recordMerge; CompleteAttempt notes its failure as a refusal.
RecordMerge ==
  /\ merge = "record"
  /\ \/ rows' = rows + 1 /\ merge' = "none"
     \/ UNCHANGED rows /\ merge' = "refuse"
  /\ UNCHANGED <<work, cancel, try, stageVars, reportVars, pr, refused, githubVars, pass, admitted>>

RecordMergeRefusal ==
  /\ merge = "refuse"
  /\ merge' = "none" /\ refused' = TRUE
  /\ UNCHANGED <<work, cancel, try, stageVars, reportVars, pr, rows, githubVars, pass, admitted>>

\* Mutant: a server that was stopped goes back to the merge of a delivered Work.
ResumeMerge ==
  /\ work = "ready" /\ merge' = IF merge = "none" THEN "decide" ELSE "none"
  /\ UNCHANGED <<work, cancel, try, stageVars, reportVars, pr, rows, refused, githubVars, pass, admitted>>

\* The server dies, or the request of CompleteAttempt is given up and with it
\* the context of every statement that is still to come.
AbandonMerge ==
  /\ merge # "none"
  /\ merge' = "none"
  /\ UNCHANGED <<work, cancel, try, stageVars, reportVars, pr, rows, refused, githubVars, pass, admitted>>
----------------------------------------------------------------------------
(* GitHub: commits, checks, and a human who merges *)

Push ==
  /\ head < MaxSha /\ merged = 0
  /\ head' = head + 1
  /\ UNCHANGED <<work, cancel, try, stageVars, reportVars, pr, mergeVars, red, merged, merger, pass, admitted>>

RunChecks ==
  /\ head # 0
  /\ red' = IF head \in red THEN red \ {head} ELSE red \cup {head}
  /\ UNCHANGED <<work, cancel, try, stageVars, reportVars, pr, mergeVars, head, merged, merger, pass, admitted>>

HumanMerges ==
  /\ head # 0 /\ merged = 0
  /\ merged' = head /\ merger' = "human"
  /\ UNCHANGED <<work, cancel, try, stageVars, reportVars, pr, mergeVars, head, red, pass, admitted>>
----------------------------------------------------------------------------
Attempt ==
  \/ Claim
  \/ StartAttempt
  \/ \E s \in Stage : StartStage(s)
  \/ \E s \in Stage, end \in {"succeeded", "failed", "cancelled"}, v \in Verdict :
       CompleteStage(s, end, v)
  \/ VerifyReady
  \/ RecordReady
  \/ \E status \in {"needs-input", "failed", "no-change"} : AppendAgentUpdate(status)
  \/ \E reported \in {"succeeded", "failed", "cancelled"} : CompleteAttempt(reported)
  \/ SweepExpired

Operator == CancelSession \/ RetrySession \/ AnswerWork

Merge == Decide \/ ReadChecks \/ CallMerge \/ RecordMerge \/ RecordMergeRefusal \/ AbandonMerge

GitHub == Push \/ RunChecks \/ HumanMerges

Next == Attempt \/ Operator \/ Merge \/ GitHub

Spec == Init /\ [][Next]_vars
----------------------------------------------------------------------------
(* Properties *)

TypeOK ==
  /\ last \in 0..MaxLast /\ fast \in BOOLEAN
  /\ work \in {"queued", "preparing", "running", "needs-input", "ready",
               "failed", "no-change", "cancelled"}
  /\ cancel \in BOOLEAN /\ try \in 0..MaxAttempts
  /\ stage \in [Stage -> {"pending", "running", "succeeded", "failed", "cancelled"}]
  /\ verdict \in [Stage -> Verdict] /\ verdict[0] = "none"
  /\ outcome \in {"none", "ready", "needs-input", "failed", "no-change"}
  /\ evidence \in 0..MaxSha /\ pr \in 0..MaxSha
  /\ checking \in {<<>>} \cup ((1..MaxAttempts) \X (1..MaxSha))
  /\ verified \in BOOLEAN /\ refused \in BOOLEAN
  /\ merge \in {"none", "decide", "checks", "call", "record", "refuse"}
  /\ rows \in Nat
  /\ head \in 0..MaxSha /\ red \subseteq 1..MaxSha /\ merged \in 0..MaxSha
  /\ merger \in {"nobody", "factory", "human"}
  /\ pass \in 0..MaxAttempts /\ judged \in [Stage -> 0..MaxAttempts]

\* The stage rows tell how far the Pipeline came: a stage that runs or succeeded
\* has only finished stages before it, nothing runs once the Work has ended, and
\* a delivered Work or a question has the whole Pipeline behind it.
StagesTellProgress ==
  /\ \A s \in Stage : stage[s] = "running" =>
       work \in Held /\ \A t \in 0..(s - 1) : stage[t] = "succeeded"
  /\ work \notin Held \cup {"queued"} => \A s \in Stage : stage[s] # "pending"
  /\ work \in {"ready", "needs-input", "no-change"} => \A s \in Stage : stage[s] = "succeeded"

\* What Factory merged is the delivery: the very commit it verified for the
\* attempt that completed the Work, whatever was pushed since.
MergedWhatWasVerified ==
  merger = "factory" => /\ AutoMerge /\ work = "ready" /\ verified
                        /\ outcome = "ready" /\ merged = pr /\ pr = evidence

\* Reviewed Work is merged only on an approval that no later stage took back,
\* and that a stage other than the first gave after the last retry.
MergedOnCurrentApproval ==
  merger = "factory" /\ ~fast =>
    \E s \in 1..last : /\ verdict[s] = "approve" /\ judged[s] > pass
                       /\ \A t \in Stage : t > s => verdict[t] = "none"

\* A merged row of the ledger is unambiguous evidence that Factory merged, once.
LedgerNeverClaimsTooMuch == rows <= 1 /\ (rows = 1 => merger = "factory")

\* The delivery stands: once Work is ready nothing moves its state, its stages
\* or its evidence, whatever becomes of the merge.
Delivered ==
  work = "ready" => /\ work' = "ready" /\ stage' = stage /\ verdict' = verdict
                    /\ pr' = pr /\ outcome' = outcome
\* Once the merge of a ready Work is decided, done or given up, Factory neither merges
\* nor records a merge any more, whatever is retried or replayed.
DecidedOnce ==
  work = "ready" /\ merge = "none" =>
    /\ merge' = "none" /\ rows' = rows
    /\ merger' = "factory" => merger = "factory"

\* No later call moves a delivered Work or begins its merge again, also when the server
\* died before it merged (CompleteAttempt, RetrySession, recordMergeRefusal).
DeliveryStands == [][Delivered /\ DecidedOnce]_vars

\* What the comments of recordMergeRefusal and maybeAutoMerge say: where a
\* refusal is noted, the merge did not happen.
RefusalMeansUnmerged == refused => merger # "factory"
=============================================================================
