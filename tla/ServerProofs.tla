---------------------------- MODULE ServerProofs ----------------------------
(***************************************************************************)
(* What holds of a delivery (PipelineDelivery) for every length of the     *)
(* Pipeline, every number of attempts and of commits: how far the stages   *)
(* came, what may be merged and on whose word, and that a delivered Work   *)
(* stands.  What holds of an admission (Admission) for every number of     *)
(* clients, Tasks, Runs and edits: one Run per request key, and no refusal *)
(* without a cause.  What holds of a plan (Planning) for every number of   *)
(* checkpoints and passes: closed checkpoints and citations stand, and the *)
(* page shows the truth.                                                   *)
(***************************************************************************)
EXTENDS MCServer, Sequences, FiniteSets, FiniteSetTheorems, WellFoundedInduction, TLAPS

-----------------------------------------------------------------------------
(* A delivery *)

StageStates == {"pending", "running", "succeeded", "failed", "cancelled"}

\* The last attempt began before the last retry, unless it is being made; what
\* succeeded after the first stage was judged since that retry.
JudgedSinceRetry ==
  /\ pass <= try
  /\ work \in Delivery!Held => pass < try
  /\ \A s \in Delivery!Stage : stage[s] = "succeeded" /\ s > 0 => pass < judged[s]

\* The approval that decides: of a later stage than the first, given since the
\* last retry, and taken back by nobody.
ApprovedBy(s) ==
  /\ verdict[s] = "approve" /\ pass < judged[s]
  /\ \A t \in Delivery!Stage : t > s => verdict[t] = "none"
Approved == \E s \in 1..last : ApprovedBy(s)

\* A merge is under way, or was made, for a delivery that stands.
Merging == merge # "none" \/ merger = "factory"
Delivered == work = "ready" /\ outcome = "ready" /\ pr = evidence
\* ... and past the local conditions only for one that may be merged.
PastDecision == merge \in {"checks", "call", "record"} \/ merger = "factory"
Mergeable == AutoMerge /\ verified /\ (fast \/ Approved)

MergeInv ==
  /\ Merging => Delivered
  /\ PastDecision => Mergeable
  /\ merge \in {"checks", "call"} => pr # 0 /\ rows = 0
  /\ merge = "record" => merger = "factory" /\ rows = 0
  /\ merger = "factory" => merged = pr
  /\ merger # "nobody" => merged # 0
  /\ rows <= 1 /\ (rows = 1 => merger = "factory")

DeliveryInv == /\ Delivery!TypeOK /\ Delivery!StagesTellProgress
               /\ JudgedSinceRetry /\ MergeInv

\* A finite set of numbers has a highest one: the highest stage with a verdict is
\* the one that ReviewVerdict looks up.
LEMMA HighestExists ==
  ASSUME NEW T, T \subseteq Nat, IsFiniteSet(T), T # {}
  PROVE  \E m \in T : \A t \in T : ~ (t > m)
<1> DEFINE Above(s) == {t \in T : t >= s}
           F == {Above(s) : s \in T}
<1>1. F \subseteq FiniteSubsetsOf(T)
  <2>1. ASSUME NEW s \in T PROVE Above(s) \in SUBSET T /\ IsFiniteSet(Above(s))
    BY FS_Subset
  <2> QED BY <2>1 DEF FiniteSubsetsOf
<1>2. F # {}
  OBVIOUS
<1>3. IsWellFoundedOn(StrictSubsetOrdering(T), FiniteSubsetsOf(T))
  BY FS_StrictSubsetOrderingWellFounded
<1> HIDE DEF F
<1>4. PICK X \in F : \A Y \in F : ~ (<<Y, X>> \in StrictSubsetOrdering(T))
  BY <1>1, <1>2, <1>3, WFMin
<1>5. PICK m \in T : X = Above(m)
  BY <1>4 DEF F
<1>6. ASSUME NEW t \in T, t > m PROVE FALSE
  <2>1. Above(t) \in F
    BY DEF F
  <2>2. Above(t) \subseteq X /\ Above(t) # X
    <3>1. m \in X /\ m \notin Above(t)
      BY <1>5, <1>6
    <3>2. ASSUME NEW u \in T, u >= t PROVE u >= m
      <4>1. u \in Nat /\ t \in Nat /\ m \in Nat
        OBVIOUS
      <4> QED BY <4>1, <3>2, <1>6
    <3> QED BY <3>1, <3>2, <1>5
  <2>3. <<Above(t), X>> \in StrictSubsetOrdering(T)
    BY <2>2, <1>5 DEF StrictSubsetOrdering
  <2> QED BY <2>1, <2>3, <1>4
<1> QED BY <1>6

LEMMA DeliveryStart == ASSUME Constants, Delivery!Init PROVE DeliveryInv
<1> USE DEF Delivery!Init, Delivery!Stage, Delivery!Held
<1>1. Delivery!TypeOK
  BY DEF Constants, Delivery!TypeOK, Delivery!PipelineAssumption, Delivery!Verdict
<1>2. Delivery!StagesTellProgress
  BY DEF Delivery!StagesTellProgress
<1>3. JudgedSinceRetry
  BY DEF JudgedSinceRetry
<1>4. MergeInv
  BY DEF MergeInv, Merging, PastDecision
<1> QED BY <1>1, <1>2, <1>3, <1>4 DEF DeliveryInv

\* What the server does about the merge, and what happens on GitHub, touches
\* neither the Work nor what is known of its stages and of its report.
LEMMA MergeAside ==
  ASSUME Delivery!Merge \/ Delivery!GitHub
  PROVE  UNCHANGED <<last, fast, work, cancel, try, stage, verdict, outcome, evidence,
                     checking, pr, verified, pass, judged>>
<1> USE DEF Delivery!admitted, Delivery!stageVars, Delivery!reportVars, Delivery!mergeVars,
            Delivery!githubVars
<1>1. CASE Delivery!Decide BY <1>1 DEF Delivery!Decide
<1>2. CASE Delivery!ReadChecks BY <1>2 DEF Delivery!ReadChecks
<1>3. CASE Delivery!CallMerge BY <1>3 DEF Delivery!CallMerge
<1>4. CASE Delivery!RecordMerge BY <1>4 DEF Delivery!RecordMerge
<1>5. CASE Delivery!RecordMergeRefusal BY <1>5 DEF Delivery!RecordMergeRefusal
<1>6. CASE Delivery!AbandonMerge BY <1>6 DEF Delivery!AbandonMerge
<1>7. CASE Delivery!Push BY <1>7 DEF Delivery!Push
<1>8. CASE Delivery!RunChecks BY <1>8 DEF Delivery!RunChecks
<1>9. CASE Delivery!HumanMerges BY <1>9 DEF Delivery!HumanMerges
<1> QED BY <1>1, <1>2, <1>3, <1>4, <1>5, <1>6, <1>7, <1>8, <1>9
        DEF Delivery!Merge, Delivery!GitHub

\* No call of the attempt or of an operator moves a delivered Work; merges and
\* commits are not theirs.
LEMMA DeliveredStays ==
  ASSUME Delivery!Attempt \/ Delivery!Operator
  PROVE  /\ UNCHANGED <<rows, merged, merger, head, red, refused, last, fast>>
         /\ work = "ready" =>
              /\ UNCHANGED <<work, stage, verdict, judged, pr, outcome, evidence, pass, merge>>
              /\ verified => verified'
<1> USE DEF Delivery!admitted, Delivery!stageVars, Delivery!reportVars, Delivery!mergeVars,
            Delivery!githubVars, Delivery!Held
<1>1. CASE Delivery!Claim BY <1>1 DEF Delivery!Claim
<1>2. CASE Delivery!StartAttempt BY <1>2 DEF Delivery!StartAttempt
<1>3. CASE \E s \in Delivery!Stage : Delivery!StartStage(s)
  BY <1>3 DEF Delivery!StartStage
<1>4. CASE \E s \in Delivery!Stage, end \in {"succeeded", "failed", "cancelled"},
              v \in Delivery!Verdict : Delivery!CompleteStage(s, end, v)
  BY <1>4 DEF Delivery!CompleteStage
<1>5. CASE Delivery!VerifyReady BY <1>5 DEF Delivery!VerifyReady
<1>6. CASE Delivery!RecordReady BY <1>6 DEF Delivery!RecordReady, Delivery!Reportable
<1>7. CASE \E status \in {"needs-input", "failed", "no-change"} :
             Delivery!AppendAgentUpdate(status)
  BY <1>7 DEF Delivery!AppendAgentUpdate, Delivery!Reportable
<1>8. CASE \E reported \in {"succeeded", "failed", "cancelled"} :
             Delivery!CompleteAttempt(reported)
  BY <1>8 DEF Delivery!CompleteAttempt
<1>9. CASE Delivery!SweepExpired BY <1>9 DEF Delivery!SweepExpired
<1>10. CASE Delivery!CancelSession BY <1>10 DEF Delivery!CancelSession
<1>11. CASE Delivery!RetrySession BY <1>11 DEF Delivery!RetrySession, Delivery!Retryable
<1>12. CASE Delivery!AnswerWork BY <1>12 DEF Delivery!AnswerWork
<1> QED BY <1>1, <1>2, <1>3, <1>4, <1>5, <1>6, <1>7, <1>8, <1>9, <1>10, <1>11, <1>12
        DEF Delivery!Attempt, Delivery!Operator

\* A call of the attempt or of an operator keeps the types.
LEMMA AttemptTypes ==
  ASSUME Constants, Delivery!TypeOK, Delivery!Attempt \/ Delivery!Operator
  PROVE  Delivery!TypeOK'
<1> DEFINE S == {"pending", "running", "succeeded", "failed", "cancelled"}
<1>c. MaxLast \in Nat /\ MaxAttempts \in Nat /\ MaxSha \in Nat
  BY DEF Constants, Delivery!PipelineAssumption
<1>0. last \in Nat /\ 0 \in Delivery!Stage
  BY <1>c DEF Delivery!TypeOK, Delivery!Stage
<1>s. UNCHANGED <<last, fast, rows, refused, head, red, merged, merger>>
  BY DeliveredStays
<1>t. Delivery!Stage' = Delivery!Stage
  BY <1>s DEF Delivery!Stage
<1> USE DEF Delivery!stageVars, Delivery!reportVars, Delivery!mergeVars
<1>1. CASE Delivery!Claim
  <2>1. try' \in 0..MaxAttempts
    BY <1>1, <1>c DEF Delivery!Claim, Delivery!TypeOK
  <2>2. /\ work' = "preparing" /\ cancel' = FALSE /\ outcome' = "none" /\ evidence' = 0
        /\ UNCHANGED <<stage, verdict, judged, checking, verified, pr, merge, pass>>
    BY <1>1 DEF Delivery!Claim
  <2>3. evidence' \in 0..MaxSha
    BY <2>2, <1>c
  <2>6. cancel' \in BOOLEAN
    <3>1. cancel' = FALSE
      BY <2>2
    <3> QED BY <3>1
  <2>4. outcome' \in {"none", "ready", "needs-input", "failed", "no-change"}
    BY <2>2
  <2>5. work' \in {"queued", "preparing", "running", "needs-input", "ready",
                   "failed", "no-change", "cancelled"}
    BY <2>2
  <2> QED BY <2>1, <2>2, <2>3, <2>4, <2>5, <2>6, <1>s, <1>t DEF Delivery!TypeOK
<1>2. CASE Delivery!StartAttempt
  BY <1>2, <1>c, <1>s, <1>t DEF Delivery!StartAttempt, Delivery!TypeOK
<1>3. ASSUME NEW s \in Delivery!Stage, Delivery!StartStage(s) PROVE Delivery!TypeOK'
  <2>1. stage' \in [Delivery!Stage -> S]
    BY <1>3 DEF Delivery!StartStage, Delivery!TypeOK
  <2> QED BY <1>3, <2>1, <1>s, <1>t DEF Delivery!StartStage, Delivery!TypeOK
<1>4. ASSUME NEW s \in Delivery!Stage, NEW end \in {"succeeded", "failed", "cancelled"},
             NEW v \in Delivery!Verdict, Delivery!CompleteStage(s, end, v)
      PROVE  Delivery!TypeOK'
  <2>1. stage' \in [Delivery!Stage -> S]
    BY <1>4 DEF Delivery!CompleteStage, Delivery!TypeOK
  <2>2. verdict' \in [Delivery!Stage -> Delivery!Verdict]
    BY <1>4 DEF Delivery!CompleteStage, Delivery!TypeOK
  <2>3. verdict'[0] = "none"
    BY <1>4, <1>0 DEF Delivery!CompleteStage, Delivery!MayJudge, Delivery!TypeOK
  <2>4. judged' \in [Delivery!Stage -> 0..MaxAttempts]
    BY <1>4 DEF Delivery!CompleteStage, Delivery!TypeOK
  <2> QED BY <1>4, <2>1, <2>2, <2>3, <2>4, <1>s, <1>t
          DEF Delivery!CompleteStage, Delivery!TypeOK
<1>5. CASE Delivery!VerifyReady
  <2>1. checking' \in (1..MaxAttempts) \X (1..MaxSha)
    BY <1>5, <1>c DEF Delivery!VerifyReady, Delivery!TypeOK
  <2> QED BY <1>5, <2>1, <1>s, <1>t DEF Delivery!VerifyReady, Delivery!TypeOK
<1>6. CASE Delivery!RecordReady
  <2>1. checking[2] \in 0..MaxSha
    BY <1>6, <1>c DEF Delivery!RecordReady, Delivery!TypeOK
  <2>2. outcome' \in {"none", "ready", "needs-input", "failed", "no-change"}
    BY <1>6 DEF Delivery!RecordReady, Delivery!TypeOK
  <2>3. evidence' \in 0..MaxSha
    BY <1>6, <2>1 DEF Delivery!RecordReady, Delivery!TypeOK
  <2>4. verified' \in BOOLEAN
    <3>1. Delivery!Reportable(checking[1]) \in BOOLEAN
      BY DEF Delivery!Reportable
    <3>2. verified \in BOOLEAN
      BY DEF Delivery!TypeOK
    <3>3. verified' = (Delivery!Reportable(checking[1]) \/ verified)
      BY <1>6 DEF Delivery!RecordReady
    <3> QED BY <3>3
  <2> QED BY <1>6, <2>2, <2>3, <2>4, <1>s, <1>t DEF Delivery!RecordReady, Delivery!TypeOK
<1>7. ASSUME NEW status \in {"needs-input", "failed", "no-change"},
             Delivery!AppendAgentUpdate(status)
      PROVE  Delivery!TypeOK'
  BY <1>7, <1>s, <1>t DEF Delivery!AppendAgentUpdate, Delivery!TypeOK
<1>8. ASSUME NEW reported \in {"succeeded", "failed", "cancelled"},
             Delivery!CompleteAttempt(reported)
      PROVE  Delivery!TypeOK'
  <2>1. stage' \in [Delivery!Stage -> S]
    BY <1>8, <1>0 DEF Delivery!CompleteAttempt, Delivery!TypeOK, Delivery!OneStage,
                Delivery!Settled
  <2>2. work' \in {"queued", "preparing", "running", "needs-input", "ready",
                   "failed", "no-change", "cancelled"}
    BY <1>8 DEF Delivery!CompleteAttempt, Delivery!TypeOK
  <2>3. merge' \in {"none", "decide", "checks", "call", "record", "refuse"}
    BY <1>8 DEF Delivery!CompleteAttempt, Delivery!TypeOK
  <2>4. pr' \in 0..MaxSha
    BY <1>8 DEF Delivery!CompleteAttempt, Delivery!TypeOK
  <2>5. UNCHANGED <<cancel, try, verdict, judged, outcome, evidence, checking, verified, pass>>
    BY <1>8 DEF Delivery!CompleteAttempt
  <2> QED BY <2>1, <2>2, <2>3, <2>4, <2>5, <1>s, <1>t DEF Delivery!TypeOK
<1>9. CASE Delivery!SweepExpired
  <2>1. stage' \in [Delivery!Stage -> S]
    BY <1>9 DEF Delivery!SweepExpired, Delivery!TypeOK, Delivery!Settled
  <2> QED BY <1>9, <2>1, <1>s, <1>t DEF Delivery!SweepExpired, Delivery!TypeOK
<1>10. CASE Delivery!CancelSession
  <2>1. /\ UNCHANGED <<try, verdict, judged, outcome, evidence, checking, verified, pr,
                       merge, pass>>
        /\ cancel' = cancel \/ cancel' = TRUE
        /\ work' = work \/ work' = "cancelled"
    BY <1>10 DEF Delivery!CancelSession
  <2>2. \/ stage' = stage
        \/ stage' = [s \in Delivery!Stage |->
                       IF stage[s] \in {"pending", "running"} THEN "cancelled" ELSE stage[s]]
    BY <1>10 DEF Delivery!CancelSession
  <2>3. stage' \in [Delivery!Stage -> S]
    BY <2>2 DEF Delivery!TypeOK
  <2>4. cancel' \in BOOLEAN
    BY <2>1 DEF Delivery!TypeOK
  <2> QED BY <2>1, <2>3, <2>4, <1>s, <1>t DEF Delivery!TypeOK
<1>11. CASE Delivery!RetrySession
  <2>1. stage' \in [Delivery!Stage -> S]
    BY <1>11 DEF Delivery!RetrySession, Delivery!TypeOK
  <2> QED BY <1>11, <2>1, <1>s, <1>t DEF Delivery!RetrySession, Delivery!TypeOK
<1>12. CASE Delivery!AnswerWork
  <2>1. stage' \in [Delivery!Stage -> S]
    BY <1>12 DEF Delivery!AnswerWork, Delivery!TypeOK
  <2> QED BY <1>12, <2>1, <1>s, <1>t DEF Delivery!AnswerWork, Delivery!TypeOK
<1> QED BY <1>1, <1>2, <1>3, <1>4, <1>5, <1>6, <1>7, <1>8, <1>9, <1>10, <1>11, <1>12
        DEF Delivery!Attempt, Delivery!Operator

LEMMA MergeTypes ==
  ASSUME Constants, Delivery!TypeOK, Delivery!Merge \/ Delivery!GitHub
  PROVE  Delivery!TypeOK'
<1>c. MaxSha \in Nat
  BY DEF Constants, Delivery!PipelineAssumption
<1>s. UNCHANGED <<last, fast, work, cancel, try, stage, verdict, outcome, evidence,
                  checking, pr, verified, pass, judged>>
  BY MergeAside
<1>t. Delivery!Stage' = Delivery!Stage
  BY <1>s DEF Delivery!Stage
<1> USE DEF Delivery!TypeOK
<1>1. CASE Delivery!Decide BY <1>1, <1>s, <1>t DEF Delivery!Decide, Delivery!githubVars
<1>2. CASE Delivery!ReadChecks
  BY <1>2, <1>s, <1>t DEF Delivery!ReadChecks, Delivery!AfterChecks, Delivery!githubVars
<1>3. CASE Delivery!CallMerge BY <1>3, <1>s, <1>t DEF Delivery!CallMerge
<1>4. CASE Delivery!RecordMerge
  BY <1>4, <1>s, <1>t DEF Delivery!RecordMerge, Delivery!githubVars
<1>5. CASE Delivery!RecordMergeRefusal
  BY <1>5, <1>s, <1>t DEF Delivery!RecordMergeRefusal, Delivery!githubVars
<1>6. CASE Delivery!AbandonMerge
  BY <1>6, <1>s, <1>t DEF Delivery!AbandonMerge, Delivery!githubVars
<1>7. CASE Delivery!Push BY <1>7, <1>c, <1>s, <1>t DEF Delivery!Push, Delivery!mergeVars
<1>8. CASE Delivery!RunChecks
  <2>1. red' \subseteq 1..MaxSha
    BY <1>8, <1>c DEF Delivery!RunChecks
  <2> QED BY <1>8, <2>1, <1>s, <1>t DEF Delivery!RunChecks, Delivery!mergeVars
<1>9. CASE Delivery!HumanMerges
  BY <1>9, <1>s, <1>t DEF Delivery!HumanMerges, Delivery!mergeVars
<1> QED BY <1>1, <1>2, <1>3, <1>4, <1>5, <1>6, <1>7, <1>8, <1>9
        DEF Delivery!Merge, Delivery!GitHub

\* The stage rows tell how far the Pipeline came, before and after every call.
LEMMA ProgressStep ==
  ASSUME Constants, DeliveryInv, Delivery!Attempt \/ Delivery!Operator
  PROVE  Delivery!StagesTellProgress'
<1>0. last \in Nat /\ Delivery!TypeOK /\ Delivery!StagesTellProgress
  BY DEF DeliveryInv, Delivery!TypeOK, Constants, Delivery!PipelineAssumption
<1>s. last' = last /\ Delivery!Stage' = Delivery!Stage
  BY DeliveredStays DEF Delivery!Stage
<1> USE <1>0, <1>s DEF Delivery!Stage, Delivery!Held, Delivery!stageVars, Delivery!reportVars
<1>1. CASE Delivery!Claim
  BY <1>1 DEF Delivery!Claim, Delivery!StagesTellProgress
<1>2. CASE Delivery!StartAttempt
  BY <1>2 DEF Delivery!StartAttempt, Delivery!StagesTellProgress
<1>3. ASSUME NEW s \in Delivery!Stage, Delivery!StartStage(s)
      PROVE  Delivery!StagesTellProgress'
  <2>1. /\ work = "running" /\ work' = work
        /\ stage[s] \in {"pending", "running"} /\ \A t \in 0..(s - 1) : stage[t] = "succeeded"
        /\ stage' = [stage EXCEPT ![s] = "running"]
    BY <1>3 DEF Delivery!StartStage, Delivery!Startable
  <2>2. ASSUME NEW r \in 0..last, stage'[r] = "running", NEW t \in 0..(r - 1)
        PROVE  stage'[t] = "succeeded"
    <3>1. t # s
      BY <2>1, <2>2 DEF Delivery!TypeOK, Delivery!StagesTellProgress
    <3>2. stage[t] = "succeeded"
      BY <2>1, <2>2 DEF Delivery!TypeOK, Delivery!StagesTellProgress
    <3> QED BY <2>1, <2>2, <3>1, <3>2 DEF Delivery!TypeOK
  <2> QED BY <2>1, <2>2 DEF Delivery!StagesTellProgress
<1>4. ASSUME NEW s \in Delivery!Stage, NEW end \in {"succeeded", "failed", "cancelled"},
             NEW v \in Delivery!Verdict, Delivery!CompleteStage(s, end, v)
      PROVE  Delivery!StagesTellProgress'
  <2>1. /\ work = "running" /\ work' = work /\ stage[s] = "running"
        /\ stage' = [t \in Delivery!Stage |->
                       IF t = s THEN end
                       ELSE IF t > s /\ end # "succeeded" /\ stage[t] = "pending"
                            THEN "cancelled" ELSE stage[t]]
    BY <1>4 DEF Delivery!CompleteStage
  <2>2. ASSUME NEW r \in 0..last, stage'[r] = "running", NEW t \in 0..(r - 1)
        PROVE  stage'[t] = "succeeded"
    <3>1. stage[r] = "running" /\ r # s
      BY <2>1, <2>2
    <3>2. stage[t] = "succeeded" /\ t # s
      BY <2>1, <2>2, <3>1 DEF Delivery!StagesTellProgress
    <3> QED BY <2>1, <2>2, <3>2
  <2> QED BY <2>1, <2>2 DEF Delivery!StagesTellProgress
<1>5. CASE Delivery!VerifyReady
  BY <1>5 DEF Delivery!VerifyReady, Delivery!StagesTellProgress
<1>6. CASE Delivery!RecordReady
  BY <1>6 DEF Delivery!RecordReady, Delivery!StagesTellProgress
<1>7. CASE \E status \in {"needs-input", "failed", "no-change"} :
             Delivery!AppendAgentUpdate(status)
  BY <1>7 DEF Delivery!AppendAgentUpdate, Delivery!StagesTellProgress
<1>8. ASSUME NEW reported \in {"succeeded", "failed", "cancelled"},
             Delivery!CompleteAttempt(reported)
      PROVE  Delivery!StagesTellProgress'
  <2>1. \/ /\ work' \notin {"ready", "needs-input", "no-change"}
           /\ \A s \in Delivery!Stage : stage'[s] \notin {"pending", "running"}
        \/ \A s \in Delivery!Stage : stage'[s] = "succeeded"
    <3> DEFINE missing == ~cancel /\ reported = "succeeded" /\ outcome = "none"
               end == IF cancel THEN "cancelled" ELSE IF missing THEN "failed" ELSE reported
               begun == IF missing /\ stage[last] = "succeeded"
                        THEN [stage EXCEPT ![last] = "failed"] ELSE stage
    <3>1. CASE end = "succeeded"
      BY <1>8, <3>1 DEF Delivery!CompleteAttempt, Delivery!PipelineDone
    <3>2. CASE end # "succeeded"
      <4>1. end \in {"failed", "cancelled"}
        BY <3>2
      <4>2. stage' = Delivery!Settled(begun, end) /\ work' = end
        BY <1>8, <3>2 DEF Delivery!CompleteAttempt
      <4> HIDE DEF end, begun
      <4> QED BY <4>1, <4>2 DEF Delivery!Settled
    <3> QED BY <3>1, <3>2
  <2> QED BY <2>1 DEF Delivery!StagesTellProgress
<1>9. CASE Delivery!SweepExpired
  <2>1. \A s \in Delivery!Stage : stage'[s] \notin {"pending", "running"}
    BY <1>9 DEF Delivery!SweepExpired, Delivery!Settled
  <2> QED BY <1>9, <2>1 DEF Delivery!SweepExpired, Delivery!StagesTellProgress
<1>10. CASE Delivery!CancelSession
  <2>1. CASE work \in {"queued", "needs-input"}
    BY <1>10, <2>1 DEF Delivery!CancelSession, Delivery!StagesTellProgress
  <2>2. CASE work \notin {"queued", "needs-input"}
    BY <1>10, <2>2 DEF Delivery!CancelSession, Delivery!StagesTellProgress
  <2> QED BY <2>1, <2>2
<1>11. CASE Delivery!RetrySession
  BY <1>11 DEF Delivery!RetrySession, Delivery!Rerun, Delivery!StagesTellProgress
<1>12. CASE Delivery!AnswerWork
  <2>1. \A s \in Delivery!Stage : stage'[s] # "running"
    BY <1>12 DEF Delivery!AnswerWork, Delivery!StagesTellProgress, Delivery!TypeOK
  <2> QED BY <1>12, <2>1 DEF Delivery!AnswerWork, Delivery!StagesTellProgress
<1> QED BY <1>1, <1>2, <1>3, <1>4, <1>5, <1>6, <1>7, <1>8, <1>9, <1>10, <1>11, <1>12
        DEF Delivery!Attempt, Delivery!Operator

\* A stage after the first that stands succeeded was judged since the last retry.
LEMMA JudgedStep ==
  ASSUME Constants, DeliveryInv, Delivery!Attempt \/ Delivery!Operator
  PROVE  JudgedSinceRetry'
<1>0. /\ last \in Nat /\ try \in Nat /\ pass \in Nat /\ judged \in [Delivery!Stage -> Nat]
      /\ Delivery!TypeOK /\ JudgedSinceRetry
  BY DEF DeliveryInv, Delivery!TypeOK, Constants, Delivery!PipelineAssumption
<1>s. last' = last /\ Delivery!Stage' = Delivery!Stage
  BY DeliveredStays DEF Delivery!Stage
<1> USE <1>0, <1>s DEF Delivery!Stage, Delivery!Held, Delivery!stageVars, Delivery!reportVars
<1>1. CASE Delivery!Claim BY <1>1 DEF Delivery!Claim, JudgedSinceRetry
<1>2. CASE Delivery!StartAttempt BY <1>2 DEF Delivery!StartAttempt, JudgedSinceRetry
<1>3. ASSUME NEW s \in Delivery!Stage, Delivery!StartStage(s) PROVE JudgedSinceRetry'
  BY <1>3 DEF Delivery!StartStage, JudgedSinceRetry, Delivery!TypeOK
<1>4. ASSUME NEW s \in Delivery!Stage, NEW end \in {"succeeded", "failed", "cancelled"},
             NEW v \in Delivery!Verdict, Delivery!CompleteStage(s, end, v)
      PROVE  JudgedSinceRetry'
  BY <1>4 DEF Delivery!CompleteStage, JudgedSinceRetry
<1>5. CASE Delivery!VerifyReady BY <1>5 DEF Delivery!VerifyReady, JudgedSinceRetry
<1>6. CASE Delivery!RecordReady BY <1>6 DEF Delivery!RecordReady, JudgedSinceRetry
<1>7. CASE \E status \in {"needs-input", "failed", "no-change"} :
             Delivery!AppendAgentUpdate(status)
  BY <1>7 DEF Delivery!AppendAgentUpdate, JudgedSinceRetry
<1>8. ASSUME NEW reported \in {"succeeded", "failed", "cancelled"},
             Delivery!CompleteAttempt(reported)
      PROVE  JudgedSinceRetry'
  <2>1. /\ UNCHANGED <<try, pass, judged>> /\ work \in Delivery!Held
        /\ \A s \in Delivery!Stage : stage'[s] = "succeeded" /\ s > 0 => stage[s] = "succeeded"
    <3> DEFINE missing == ~cancel /\ reported = "succeeded" /\ outcome = "none"
               end == IF cancel THEN "cancelled" ELSE IF missing THEN "failed" ELSE reported
               begun == IF missing /\ stage[last] = "succeeded"
                        THEN [stage EXCEPT ![last] = "failed"] ELSE stage
    <3>0. UNCHANGED <<try, pass, judged>> /\ work \in Delivery!Held
      BY <1>8 DEF Delivery!CompleteAttempt
    <3>1. CASE end = "succeeded"
      <4>1. stage' = Delivery!OneStage
        BY <1>8, <3>1 DEF Delivery!CompleteAttempt
      <4> QED BY <4>1, <3>0 DEF Delivery!OneStage
    <3>2. CASE end # "succeeded"
      <4>1. stage' = Delivery!Settled(begun, end)
        BY <1>8, <3>2 DEF Delivery!CompleteAttempt
      <4>2. \A s \in Delivery!Stage : begun[s] = "succeeded" => stage[s] = "succeeded"
        BY DEF Delivery!TypeOK
      <4> HIDE DEF end, begun
      <4> QED BY <4>1, <4>2, <3>0, <3>2 DEF Delivery!Settled
    <3> QED BY <3>1, <3>2
  <2> QED BY <2>1 DEF JudgedSinceRetry
<1>9. CASE Delivery!SweepExpired
  BY <1>9 DEF Delivery!SweepExpired, Delivery!Settled, JudgedSinceRetry
<1>10. CASE Delivery!CancelSession
  <2>1. CASE work \in {"queued", "needs-input"}
    BY <1>10, <2>1 DEF Delivery!CancelSession, JudgedSinceRetry
  <2>2. CASE work \notin {"queued", "needs-input"}
    BY <1>10, <2>2 DEF Delivery!CancelSession, JudgedSinceRetry
  <2> QED BY <2>1, <2>2
<1>11. CASE Delivery!RetrySession
  BY <1>11 DEF Delivery!RetrySession, Delivery!Rerun, Delivery!Retryable, JudgedSinceRetry
<1>12. CASE Delivery!AnswerWork
  BY <1>12 DEF Delivery!AnswerWork, JudgedSinceRetry, Delivery!TypeOK
<1> QED BY <1>1, <1>2, <1>3, <1>4, <1>5, <1>6, <1>7, <1>8, <1>9, <1>10, <1>11, <1>12
        DEF Delivery!Attempt, Delivery!Operator

\* The verdict that is looked up is an approval exactly of a stage that decides.
LEMMA LookedUp ==
  ASSUME Constants, DeliveryInv, work = "ready", Delivery!ReviewVerdict = "approve"
  PROVE  Approved
<1> DEFINE T == {s \in Delivery!Stage : verdict[s] # "none"}
<1>0. /\ last \in Nat /\ verdict[0] = "none" /\ judged \in [Delivery!Stage -> Nat] /\ pass \in Nat
      /\ \A s \in Delivery!Stage : stage[s] = "succeeded" /\ (s > 0 => pass < judged[s])
  BY DEF DeliveryInv, Delivery!TypeOK, Delivery!StagesTellProgress, JudgedSinceRetry,
         Constants, Delivery!PipelineAssumption
<1>1. T # {}
  <2>1. "none" # "approve"
    OBVIOUS
  <2> QED BY <2>1 DEF Delivery!ReviewVerdict
<1>2. IsFiniteSet(T)
  <2>1. IsFiniteSet(0..last)
    BY <1>0, FS_Interval
  <2>2. T \subseteq 0..last
    BY DEF Delivery!Stage
  <2> QED BY <2>1, <2>2, FS_Subset
<1>3. T \subseteq Nat
  BY <1>0 DEF Delivery!Stage
<1>4. PICK m \in T : \A t \in T : ~ (t > m)
  BY <1>1, <1>2, <1>3, HighestExists
<1> DEFINE c == CHOOSE s \in Delivery!Stage : /\ verdict[s] # "none"
                                    /\ \A t \in Delivery!Stage : t > s => verdict[t] = "none"
<1>5. \E s \in Delivery!Stage : /\ verdict[s] # "none"
                                /\ \A t \in Delivery!Stage : t > s => verdict[t] = "none"
  BY <1>4
<1>6. /\ c \in Delivery!Stage /\ verdict[c] # "none"
      /\ \A t \in Delivery!Stage : t > c => verdict[t] = "none"
  BY <1>5
<1>7. verdict[c] = "approve"
  <2>1. ~ \A s \in Delivery!Stage : verdict[s] = "none"
    BY <1>1
  <2> QED BY <2>1 DEF Delivery!ReviewVerdict
<1> HIDE DEF c
<1>8. c \in 1..last
  BY <1>6, <1>0 DEF Delivery!Stage
<1>9. pass < judged[c]
  BY <1>0, <1>6, <1>8
<1> QED BY <1>6, <1>7, <1>8, <1>9 DEF Approved, ApprovedBy

\* Nobody but the merge itself comes near a merge: the calls of the attempt and of
\* an operator leave a delivered Work alone, and a new delivery starts at its decision.
LEMMA MergeKept ==
  ASSUME Constants, DeliveryInv, Delivery!Attempt \/ Delivery!Operator
  PROVE  MergeInv'
<1>0. MergeInv /\ rows \in Nat /\ merger \in {"nobody", "factory", "human"}
  BY DEF DeliveryInv, Delivery!TypeOK
<1>1. /\ UNCHANGED <<rows, merged, merger, last, fast>>
      /\ work = "ready" =>
           /\ UNCHANGED <<work, stage, verdict, judged, pr, outcome, evidence, pass, merge>>
           /\ verified => verified'
  BY DeliveredStays
<1>2. CASE work = "ready"
  <2>1. Delivered => Delivered'
    BY <1>1, <1>2 DEF Delivered
  <2>2. Approved => Approved'
    <3>1. ASSUME NEW s \in 1..last, ApprovedBy(s) PROVE s \in 1..last' /\ ApprovedBy(s)'
      BY <1>1, <1>2, <3>1 DEF ApprovedBy, Delivery!Stage
    <3> QED BY <3>1 DEF Approved
  <2>3. Mergeable => Mergeable'
    BY <1>1, <1>2, <2>2 DEF Mergeable
  <2> QED BY <1>0, <1>1, <1>2, <2>1, <2>3 DEF MergeInv, Merging, PastDecision
<1>3. CASE work # "ready"
  <2>1. merge = "none" /\ merger # "factory" /\ rows = 0
    BY <1>0, <1>3 DEF MergeInv, Merging, Delivered
  <2>2. \/ merge' = "none"
        \/ merge' = "decide" /\ Delivered'
    <3>1. ASSUME NEW reported \in {"succeeded", "failed", "cancelled"},
                 Delivery!CompleteAttempt(reported)
          PROVE  merge' = "none" \/ (merge' = "decide" /\ Delivered')
      <4>1. \/ merge' = "none"
            \/ merge' = "decide" /\ outcome = "ready" /\ work' = outcome /\ pr' = evidence
        BY <2>1, <3>1 DEF Delivery!CompleteAttempt
      <4>2. UNCHANGED <<outcome, evidence>>
        BY <3>1 DEF Delivery!CompleteAttempt, Delivery!reportVars
      <4> QED BY <4>1, <4>2 DEF Delivered
    <3>2. Delivery!Claim => merge' = merge
      BY DEF Delivery!Claim, Delivery!mergeVars
    <3>3. Delivery!StartAttempt => merge' = merge
      BY DEF Delivery!StartAttempt, Delivery!mergeVars
    <3>4. \A s \in Delivery!Stage : Delivery!StartStage(s) => merge' = merge
      BY DEF Delivery!StartStage, Delivery!mergeVars
    <3>5. \A s \in Delivery!Stage, end \in {"succeeded", "failed", "cancelled"},
             v \in Delivery!Verdict : Delivery!CompleteStage(s, end, v) => merge' = merge
      BY DEF Delivery!CompleteStage, Delivery!mergeVars
    <3>6. Delivery!VerifyReady \/ Delivery!RecordReady => merge' = merge
      BY DEF Delivery!VerifyReady, Delivery!RecordReady, Delivery!mergeVars
    <3>7. \A status \in {"needs-input", "failed", "no-change"} :
             Delivery!AppendAgentUpdate(status) => merge' = merge
      BY DEF Delivery!AppendAgentUpdate, Delivery!mergeVars
    <3>8. Delivery!SweepExpired => merge' = merge
      BY DEF Delivery!SweepExpired, Delivery!mergeVars
    <3>9. Delivery!CancelSession => merge' = merge
      BY DEF Delivery!CancelSession, Delivery!mergeVars
    <3>10. Delivery!RetrySession \/ Delivery!AnswerWork => merge' = merge
      BY DEF Delivery!RetrySession, Delivery!AnswerWork, Delivery!mergeVars
    <3> QED BY <2>1, <3>1, <3>2, <3>3, <3>4, <3>5, <3>6, <3>7, <3>8, <3>9, <3>10
            DEF Delivery!Attempt, Delivery!Operator
  <2> QED BY <1>0, <1>1, <2>1, <2>2 DEF MergeInv, Merging, PastDecision
<1> QED BY <1>2, <1>3

\* The merge itself, and what happens on GitHub meanwhile.
LEMMA MergeStep ==
  ASSUME Constants, DeliveryInv, Delivery!Merge \/ Delivery!GitHub
  PROVE  MergeInv'
<1>0. /\ MergeInv /\ rows \in Nat /\ merger \in {"nobody", "factory", "human"}
      /\ merge \in {"none", "decide", "checks", "call", "record", "refuse"}
      /\ head \in Nat
  BY DEF DeliveryInv, Delivery!TypeOK, Constants, Delivery!PipelineAssumption
<1>s. UNCHANGED <<last, fast, work, stage, verdict, outcome, evidence, pr, verified, pass, judged>>
  BY MergeAside
<1>d. Delivered' = Delivered
  BY <1>s DEF Delivered
<1>m. Mergeable => Mergeable'
  <2>1. Approved => Approved'
    <3>1. ASSUME NEW s \in 1..last, ApprovedBy(s) PROVE s \in 1..last' /\ ApprovedBy(s)'
      BY <1>s, <3>1 DEF ApprovedBy, Delivery!Stage
    <3> QED BY <3>1 DEF Approved
  <2> QED BY <1>s, <2>1 DEF Mergeable
<1>1. CASE Delivery!Decide
  <2>1. merge = "decide" /\ UNCHANGED <<rows, merged, merger>> /\ Delivered
    BY <1>0, <1>1 DEF Delivery!Decide, Delivery!githubVars, MergeInv, Merging
  <2>2. \/ merge' = "none"
        \/ /\ merge' = "checks" /\ pr # 0 /\ rows = 0
           /\ AutoMerge /\ verified /\ (fast \/ Delivery!ReviewVerdict = "approve")
    BY <1>1 DEF Delivery!Decide
  <2>3. merge' = "checks" => Mergeable
    BY <2>1, <2>2, LookedUp DEF Mergeable, Delivered
  <2> QED BY <1>0, <1>s, <1>d, <1>m, <2>1, <2>2, <2>3 DEF MergeInv, Merging, PastDecision
<1>2. CASE Delivery!ReadChecks
  <2>1. /\ merge = "checks" /\ merge' \in {"call", "none", "refuse"}
        /\ UNCHANGED <<rows, merged, merger>>
    BY <1>2 DEF Delivery!ReadChecks, Delivery!AfterChecks, Delivery!githubVars
  <2> QED BY <1>0, <1>s, <1>d, <1>m, <2>1 DEF MergeInv, Merging, PastDecision
<1>3. CASE Delivery!CallMerge
  <2>1. /\ merge = "call" /\ merge' \in {"record", "refuse"} /\ rows' = rows
        /\ \/ head = pr /\ merged' = head /\ merger' = "factory"
           \/ merge' = "refuse" /\ UNCHANGED <<merged, merger>>
    BY <1>3 DEF Delivery!CallMerge, Delivery!Pinned
  <2> QED BY <1>0, <1>s, <1>d, <1>m, <2>1 DEF MergeInv, Merging, PastDecision
<1>4. CASE Delivery!RecordMerge
  <2>1. /\ merge = "record" /\ UNCHANGED <<merged, merger>>
        /\ (merge' = "none" /\ rows' = rows + 1) \/ (merge' = "refuse" /\ rows' = rows)
    BY <1>4 DEF Delivery!RecordMerge, Delivery!githubVars
  <2> QED BY <1>0, <1>s, <1>d, <1>m, <2>1 DEF MergeInv, Merging, PastDecision
<1>5. CASE Delivery!RecordMergeRefusal
  <2>1. merge' = "none" /\ UNCHANGED <<rows, merged, merger>>
    BY <1>5 DEF Delivery!RecordMergeRefusal, Delivery!githubVars
  <2> QED BY <1>0, <1>s, <1>d, <1>m, <2>1 DEF MergeInv, Merging, PastDecision
<1>6. CASE Delivery!AbandonMerge
  <2>1. merge' = "none" /\ UNCHANGED <<rows, merged, merger>>
    BY <1>6 DEF Delivery!AbandonMerge, Delivery!githubVars
  <2> QED BY <1>0, <1>s, <1>d, <1>m, <2>1 DEF MergeInv, Merging, PastDecision
<1>7. CASE Delivery!Push \/ Delivery!RunChecks
  <2>1. UNCHANGED <<merge, rows, merged, merger>>
    BY <1>7 DEF Delivery!Push, Delivery!RunChecks, Delivery!mergeVars
  <2> QED BY <1>0, <1>s, <1>d, <1>m, <2>1 DEF MergeInv, Merging, PastDecision
<1>8. CASE Delivery!HumanMerges
  <2>1. /\ merged = 0 /\ head # 0 /\ merged' = head /\ merger' = "human"
        /\ UNCHANGED <<merge, rows>>
    BY <1>8 DEF Delivery!HumanMerges, Delivery!mergeVars
  <2>2. merger # "factory" /\ rows = 0
    BY <1>0, <2>1 DEF MergeInv
  <2> QED BY <1>0, <1>s, <1>d, <1>m, <2>1, <2>2 DEF MergeInv, Merging, PastDecision
<1> QED BY <1>1, <1>2, <1>3, <1>4, <1>5, <1>6, <1>7, <1>8 DEF Delivery!Merge, Delivery!GitHub

LEMMA DeliveryStep == ASSUME Constants, DeliveryInv, Delivery!Next PROVE DeliveryInv'
<1>0. Delivery!TypeOK /\ Delivery!StagesTellProgress /\ JudgedSinceRetry
  BY DEF DeliveryInv
<1>1. CASE Delivery!Attempt \/ Delivery!Operator
  BY <1>0, <1>1, AttemptTypes, ProgressStep, JudgedStep, MergeKept DEF DeliveryInv
<1>2. CASE Delivery!Merge \/ Delivery!GitHub
  <2>1. UNCHANGED <<last, fast, work, try, stage, pass, judged>>
    BY <1>2, MergeAside
  <2>2. Delivery!StagesTellProgress' /\ JudgedSinceRetry'
    BY <1>0, <2>1 DEF Delivery!StagesTellProgress, JudgedSinceRetry, Delivery!Stage
  <2> QED BY <1>0, <1>2, <2>2, MergeTypes, MergeStep DEF DeliveryInv
<1> QED BY <1>1, <1>2 DEF Delivery!Next

\* In a behaviour of the server the delivery moves by its own steps.
LEMMA DeliveryMoves == ASSUME [Next]_vars PROVE [Delivery!Next]_(Delivery!vars)
BY DEF Next, vars, Deliveries, Planning, Admissions, deliveryVars, Delivery!vars,
       Delivery!stageVars, Delivery!reportVars, Delivery!mergeVars, Delivery!githubVars,
       Delivery!admitted

THEOREM DeliverySafe == Spec => []DeliveryInv
<1>1. Init => DeliveryInv
  BY Constants, DeliveryStart DEF Init
<1>2. DeliveryInv /\ [Next]_vars => DeliveryInv'
  <2>1. DeliveryInv /\ Delivery!Next => DeliveryInv'
    BY Constants, DeliveryStep
  <2>2. DeliveryInv /\ UNCHANGED Delivery!vars => DeliveryInv'
    BY DEF DeliveryInv, Delivery!vars, Delivery!stageVars, Delivery!reportVars,
           Delivery!mergeVars, Delivery!githubVars, Delivery!admitted, Delivery!TypeOK,
           Delivery!StagesTellProgress, Delivery!Stage, JudgedSinceRetry, MergeInv,
           Merging, Delivered, PastDecision, Mergeable, Approved, ApprovedBy
  <2> QED BY <2>1, <2>2, DeliveryMoves
<1> QED BY <1>1, <1>2, PTL DEF Spec

\* The stage rows tell how far the Pipeline came: what runs or succeeded has only
\* finished stages before it, nothing waits once the Work has ended, and a delivered
\* Work or a question has the whole Pipeline behind it (stage_runs.go).
THEOREM ProgressAlwaysTold == Spec => []StagesTellProgress
<1>1. DeliveryInv => StagesTellProgress
  BY DEF DeliveryInv, StagesTellProgress
<1> QED BY <1>1, DeliverySafe, PTL

\* Reviewed Work is merged only on an approval given after the last retry and taken
\* back by no later stage; Factory merges the commit it verified, while the Work
\* stands as it was delivered; its ledger says so once and only then (maybeAutoMerge).
THEOREM MergesAlwaysApproved == Spec => []MergedAsApproved
<1>1. DeliveryInv => MergedAsApproved
  <2>1. ASSUME DeliveryInv, merger = "factory", ~fast PROVE Approved
    BY <2>1 DEF DeliveryInv, MergeInv, PastDecision, Mergeable
  <2>2. DeliveryInv => Delivery!MergedOnCurrentApproval
    <3>1. ASSUME DeliveryInv, Approved PROVE
            \E s \in 1..last : /\ verdict[s] = "approve" /\ judged[s] > pass
                               /\ \A t \in Delivery!Stage : t > s => verdict[t] = "none"
      BY <3>1 DEF Approved, ApprovedBy
    <3> QED BY <2>1, <3>1 DEF Delivery!MergedOnCurrentApproval
  <2>3. DeliveryInv => Delivery!MergedWhatWasVerified
    BY DEF DeliveryInv, MergeInv, Merging, Delivered, PastDecision, Mergeable,
           Delivery!MergedWhatWasVerified
  <2>4. DeliveryInv => Delivery!LedgerNeverClaimsTooMuch
    BY DEF DeliveryInv, MergeInv, Delivery!LedgerNeverClaimsTooMuch
  <2> QED BY <2>2, <2>3, <2>4 DEF MergedAsApproved
<1> QED BY <1>1, DeliverySafe, PTL

\* Once Work is ready nothing moves its state, its stages, their verdicts or its
\* evidence, and a merge that was decided, done or given up is not begun again
\* (CompleteAttempt, RetrySession, recordMergeRefusal).
THEOREM DeliveryAlwaysStands == Spec => DeliveryStands
<1> DEFINE Stands == Delivery!Delivered /\ Delivery!DecidedOnce
<1>1. Delivery!Next => Stands
  <2>1. CASE Delivery!Attempt \/ Delivery!Operator
    BY <2>1, DeliveredStays DEF Delivery!Delivered, Delivery!DecidedOnce
  <2>2. CASE Delivery!Merge \/ Delivery!GitHub
    <3>1. Delivery!Delivered
      BY <2>2, MergeAside DEF Delivery!Delivered
    <3>2. Delivery!DecidedOnce
      <4>1. CASE Delivery!Merge
        BY <4>1 DEF Delivery!DecidedOnce, Delivery!Merge, Delivery!Decide, Delivery!ReadChecks,
           Delivery!CallMerge, Delivery!RecordMerge, Delivery!RecordMergeRefusal,
           Delivery!AbandonMerge
      <4>2. CASE Delivery!GitHub
        BY <4>2 DEF Delivery!DecidedOnce, Delivery!GitHub, Delivery!Push, Delivery!RunChecks,
           Delivery!HumanMerges, Delivery!mergeVars
      <4> QED BY <2>2, <4>1, <4>2
    <3> QED BY <3>1, <3>2
  <2> QED BY <2>1, <2>2 DEF Delivery!Next
<1>2. [Next]_vars => [Stands]_(Delivery!vars)
  BY <1>1, DeliveryMoves
<1> QED BY <1>2, PTL DEF Spec, DeliveryStands, Delivery!DeliveryStands

-----------------------------------------------------------------------------
(* Admission *)

Edited == \E t \in DOMAIN tasks : tasks[t].edited
TaskRecords == [name : {name1, name2}, prompt : {prompt1, prompt2},
                pipeline : {id, Admit!Critique}, archived : BOOLEAN, by : Submissions,
                edited : BOOLEAN]
\* No two Tasks have a name in common; what nobody edited is what was submitted;
\* a Task's Pipeline is there.
TasksInv ==
  /\ tasks \in Seq(TaskRecords)
  /\ \A t, u \in DOMAIN tasks : tasks[t].name = tasks[u].name => t = u
  /\ \A t \in DOMAIN tasks :
       /\ tasks[t].pipeline \in DOMAIN pipelines
       /\ tasks[t].edited \/ (tasks[t].name = tasks[t].by.name /\ tasks[t].prompt = tasks[t].by.prompt)
PipelinesInv ==
  /\ pipelines \in [DOMAIN pipelines -> [title : {"critique", "other"}, edited : BOOLEAN]]
  /\ DOMAIN pipelines \subseteq {id, Admit!Critique} /\ Admit!Critique \in DOMAIN pipelines

RunKeys == {Admit!Prefixed(s.key) : s \in Submissions} \cup TaskKeys \cup ProcedureKeys
Digests == ({"task", "replace"} \X Nat) \cup ({"procedure"} \X {name1, name2} \X BOOLEAN)
RunRecords == [key : RunKeys, source : {"orchestrator", "cockpit", "github", "manual"},
               task : Nat, digest : Digests, after : Nat, prompt : {prompt1, prompt2},
               work : {"open", "done", "failed"}, since : Nat,
               wanted : Submissions \cup {Admit!NoSubmission}]
\* A Run that was asked for keeps what the submission said, unless somebody edits.
RunAsWanted(r) ==
  r.wanted # Admit!NoSubmission =>
    /\ r.source = r.wanted.source
    /\ r.prompt = r.wanted.prompt \/ tasks[r.task].edited
    /\ tasks[r.task].name = r.wanted.name \/ Edited
\* What was followed is not open, one follows it, and older Work of a Procedure is open
\* beside a rebuild only when it was opened again since.
FollowedRests ==
  \A r \in DOMAIN admissions : admissions[r].after # 0 =>
    admissions[r].after \in DOMAIN admissions /\ ~Admit!Open(admissions[r].after)
OneFollows ==
  \A r, q \in DOMAIN admissions :
    admissions[r].after # 0 /\ admissions[q].after = admissions[r].after => q = r
OlderRest ==
  \A r, q \in DOMAIN admissions :
    /\ admissions[r].after # 0 /\ admissions[r].digest[1] = "procedure"
    /\ q < r /\ admissions[q].task = admissions[r].task /\ Admit!Open(q)
    => admissions[q].since >= r
RunsInv ==
  /\ admissions \in Seq(RunRecords)
  /\ \A r, q \in DOMAIN admissions : admissions[r].key = admissions[q].key => r = q
  /\ \A r \in DOMAIN admissions :
       /\ admissions[r].task \in DOMAIN tasks /\ admissions[r].after < r
       /\ RunAsWanted(admissions[r])
  /\ FollowedRests /\ OneFollows /\ OlderRest
AnswersInv ==
  /\ answers \subseteq {s.key : s \in Submissions} \X Nat
  /\ \A a \in answers : /\ a[2] \in DOMAIN admissions
                        /\ admissions[a[2]].key = Admit!Prefixed(a[1])

Codes == {"factory_paused", "task_limit_reached", "pipeline_not_found", "task_name_conflict",
          "admission_name_collision", "task_archived", "request_key_conflict"}
Requests ==
  {Admit!Idle}
  \cup [step : {"replay", "pause", "create", "adopt"}, of : Submissions, known : BOOLEAN]
  \cup [step : {"admit"}, of : Submissions, known : BOOLEAN, task : Nat]
  \cup [step : {"refused"}, of : Submissions, known : BOOLEAN, code : Codes]
\* What a request has found out still holds, whatever was done since.
Cause(q) ==
  /\ q.code = "task_name_conflict" => Edited
  /\ q.code = "admission_name_collision" =>
       Edited \/ \E t \in DOMAIN tasks : tasks[t].by # q.of /\ tasks[t].by.name = q.of.name
  /\ q.code = "request_key_conflict" =>
       \E r \in Admit!RunOf(Admit!Prefixed(q.of.key)) :
         \/ admissions[r].wanted = Admit!NoSubmission
         \/ admissions[r].wanted.source # q.of.source
         \/ admissions[r].wanted.name # q.of.name \/ Edited
RequestOK(q) ==
  /\ q.step = "replay" /\ q.known => Admit!RunOf(Admit!Prefixed(q.of.key)) # {}
  /\ q.step \in {"pause", "create", "adopt", "admit", "refused"} => ~q.known
  /\ q.step = "adopt" => Edited \/ Admit!Named(q.of.name) # {}
  /\ q.step = "admit" =>
       /\ q.task \in DOMAIN tasks
       /\ tasks[q.task].prompt = q.of.prompt \/ tasks[q.task].edited
       /\ tasks[q.task].name = q.of.name \/ Edited
  /\ q.step = "refused" => Cause(q)
RequestsInv ==
  /\ request \in [Clients -> Requests]
  /\ \A c \in Clients : RequestOK(request[c])

AdmissionInv == TasksInv /\ PipelinesInv /\ RunsInv /\ AnswersInv /\ RequestsInv

LEMMA AdmissionConstantsHold ==
  /\ MaxTasks \in Nat
  /\ \A s \in Submissions : /\ s.name \in {name1, name2} /\ s.prompt \in {prompt1, prompt2}
                            /\ s.source \in {"orchestrator", "cockpit", "github"}
BY Constants DEF Constants, Admit!AdmissionConstants

LEMMA AdmissionCardinality == ASSUME NEW S PROVE Admit!Cardinality(S) = Cardinality(S)
BY DEF Admit!Cardinality, Cardinality

\* A longer sequence keeps what it had.
LEMMA Appended ==
  ASSUME NEW S, NEW s \in Seq(S), NEW e \in S
  PROVE  /\ Append(s, e) \in Seq(S) /\ DOMAIN Append(s, e) = DOMAIN s \cup {Len(s) + 1}
         /\ Len(s) \in Nat /\ DOMAIN s = 1..Len(s) /\ Len(s) + 1 \notin DOMAIN s
         /\ \A i \in DOMAIN s : Append(s, e)[i] = s[i]
         /\ Append(s, e)[Len(s) + 1] = e
OBVIOUS
LEMMA Replaced ==
  ASSUME NEW S, NEW s \in Seq(S), NEW i \in DOMAIN s, NEW e \in S
  PROVE  /\ [s EXCEPT ![i] = e] \in Seq(S) /\ DOMAIN [s EXCEPT ![i] = e] = DOMAIN s
         /\ \A j \in DOMAIN s : [s EXCEPT ![i] = e][j] = IF j = i THEN e ELSE s[j]
<1>1. Len(s) \in Nat /\ DOMAIN s = 1..Len(s)
  OBVIOUS
<1>2. [s EXCEPT ![i] = e] \in [1..Len(s) -> S]
  BY <1>1
<1> QED BY <1>1, <1>2

LEMMA AdmissionStart == Init => AdmissionInv
<1> SUFFICES ASSUME Init PROVE AdmissionInv
  OBVIOUS
<1>1. /\ tasks = <<>> /\ admissions = <<>> /\ answers = {}
      /\ request = [c \in Clients |-> Admit!Idle]
      /\ pipelines = [p \in {Admit!Critique} |-> Admit!Definition]
  BY DEF Init, Admit!Init
<1>2. PipelinesInv
  BY <1>1 DEF PipelinesInv, Admit!Definition, Admit!Critique
<1>3. TasksInv
  BY <1>1 DEF TasksInv
<1>4. RunsInv
  BY <1>1 DEF RunsInv, FollowedRests, OneFollows, OlderRest
<1>5. AnswersInv
  BY <1>1 DEF AnswersInv
<1>6. RequestsInv
  BY <1>1 DEF RequestsInv, Requests, RequestOK, Admit!Idle
<1> QED BY <1>2, <1>3, <1>4, <1>5, <1>6 DEF AdmissionInv

(* What a step may do to the Tasks, the Runs and the Pipelines. *)
TaskAdded(n) ==
  /\ n \in TaskRecords /\ tasks' = Append(tasks, n)
  /\ ~n.edited /\ n.name = n.by.name /\ n.prompt = n.by.prompt
  /\ Admit!Named(n.name) = {} /\ n.pipeline \in DOMAIN pipelines
TaskChanged(t, n) ==
  /\ t \in DOMAIN tasks /\ n \in TaskRecords /\ tasks' = [tasks EXCEPT ![t] = n]
  /\ n.by = tasks[t].by /\ n.pipeline \in DOMAIN pipelines
  /\ n.edited \/ (n.name = tasks[t].name /\ n.prompt = tasks[t].prompt /\ ~tasks[t].edited)
  /\ Admit!Named(n.name) \subseteq {t}
TasksMove ==
  \/ /\ tasks' = tasks
     /\ \A t \in DOMAIN tasks : tasks[t].pipeline \in DOMAIN pipelines'
  \/ pipelines' = pipelines /\ \E n \in TaskRecords : TaskAdded(n)
  \/ pipelines' = pipelines /\ \E t \in DOMAIN tasks, n \in TaskRecords : TaskChanged(t, n)
RunAdded(r) ==
  /\ r \in RunRecords /\ admissions' = Append(admissions, r)
  /\ Admit!RunOf(r.key) = {} /\ r.task \in DOMAIN tasks /\ RunAsWanted(r)
  /\ r.after # 0 => /\ r.after \in DOMAIN admissions /\ ~Admit!Open(r.after)
                    /\ \A q \in DOMAIN admissions : admissions[q].after # r.after
  /\ r.after # 0 /\ r.digest[1] = "procedure" =>
       \A q \in DOMAIN admissions : admissions[q].task = r.task => ~Admit!Open(q)
\* Work ends, or what nothing followed is opened again.
RunTurned(i, r) ==
  /\ i \in DOMAIN admissions /\ r \in RunRecords /\ admissions' = [admissions EXCEPT ![i] = r]
  /\ r.work = "open" => /\ r.since = Len(admissions)
                        /\ \A q \in DOMAIN admissions : admissions[q].after # i
  /\ r.digest = admissions[i].digest
  /\ r.key = admissions[i].key /\ r.source = admissions[i].source /\ r.task = admissions[i].task
  /\ r.after = admissions[i].after /\ r.prompt = admissions[i].prompt
  /\ r.wanted = admissions[i].wanted
RunsMove ==
  \/ admissions' = admissions
  \/ tasks' = tasks /\ \E r \in RunRecords : RunAdded(r)
  \/ tasks' = tasks /\ \E i \in DOMAIN admissions, r \in RunRecords : RunTurned(i, r)

\* Nothing that was found out about Tasks and Runs is undone.
TasksGrow ==
  \A t \in DOMAIN tasks :
    /\ t \in DOMAIN tasks' /\ tasks'[t].by = tasks[t].by
    /\ tasks[t].edited => tasks'[t].edited
    /\ tasks'[t].edited \/ (tasks'[t].name = tasks[t].name /\ tasks'[t].prompt = tasks[t].prompt)
RunsGrow ==
  \A r \in DOMAIN admissions :
    /\ r \in DOMAIN admissions' /\ admissions'[r].key = admissions[r].key
    /\ admissions'[r].source = admissions[r].source /\ admissions'[r].task = admissions[r].task
    /\ admissions'[r].after = admissions[r].after
    /\ admissions'[r].prompt = admissions[r].prompt
    /\ admissions'[r].wanted = admissions[r].wanted
Grows == TasksGrow /\ RunsGrow

LEMMA GrowsOn ==
  ASSUME AdmissionInv, TasksMove, RunsMove PROVE Grows
<1>0. tasks \in Seq(TaskRecords) /\ admissions \in Seq(RunRecords)
  BY DEF AdmissionInv, TasksInv, RunsInv
<1>1. TasksGrow
  <2>1. CASE tasks' = tasks
    BY <2>1 DEF TasksGrow
  <2>2. ASSUME NEW n \in TaskRecords, TaskAdded(n) PROVE TasksGrow
    <3>1. tasks' = Append(tasks, n)
      BY <2>2 DEF TaskAdded
    <3>2. DOMAIN tasks \subseteq DOMAIN tasks' /\ \A t \in DOMAIN tasks : tasks'[t] = tasks[t]
      BY <1>0, <3>1, Appended
    <3> QED BY <3>2 DEF TasksGrow
  <2>3. ASSUME NEW t \in DOMAIN tasks, NEW n \in TaskRecords, TaskChanged(t, n) PROVE TasksGrow
    <3>1. tasks' = [tasks EXCEPT ![t] = n]
      BY <2>3 DEF TaskChanged
    <3>2. /\ DOMAIN tasks' = DOMAIN tasks
          /\ \A u \in DOMAIN tasks : tasks'[u] = IF u = t THEN n ELSE tasks[u]
      BY <1>0, <3>1, Replaced
    <3> QED BY <2>3, <3>2 DEF TaskChanged, TasksGrow
  <2> QED BY <2>1, <2>2, <2>3 DEF TasksMove
<1>2. RunsGrow
  <2>1. CASE admissions' = admissions
    BY <2>1 DEF RunsGrow
  <2>2. ASSUME NEW n \in RunRecords, RunAdded(n) PROVE RunsGrow
    <3>1. admissions' = Append(admissions, n)
      BY <2>2 DEF RunAdded
    <3>2. /\ DOMAIN admissions \subseteq DOMAIN admissions'
          /\ \A t \in DOMAIN admissions : admissions'[t] = admissions[t]
      BY <1>0, <3>1, Appended
    <3> QED BY <3>2 DEF RunsGrow
  <2>3. ASSUME NEW t \in DOMAIN admissions, NEW n \in RunRecords, RunTurned(t, n) PROVE RunsGrow
    <3>1. admissions' = [admissions EXCEPT ![t] = n]
      BY <2>3 DEF RunTurned
    <3>2. /\ DOMAIN admissions' = DOMAIN admissions
          /\ \A u \in DOMAIN admissions : admissions'[u] = IF u = t THEN n ELSE admissions[u]
      BY <1>0, <3>1, Replaced
    <3> QED BY <2>3, <3>2 DEF RunTurned, RunsGrow
  <2> QED BY <2>1, <2>2, <2>3 DEF RunsMove
<1> QED BY <1>1, <1>2 DEF Grows

LEMMA TasksKept ==
  ASSUME AdmissionInv, TasksMove PROVE TasksInv'
<1>0. tasks \in Seq(TaskRecords) /\ TasksInv
  BY DEF AdmissionInv, TasksInv
<1>1. CASE tasks' = tasks /\ \A t \in DOMAIN tasks : tasks[t].pipeline \in DOMAIN pipelines'
  BY <1>0, <1>1 DEF TasksInv
<1>2. ASSUME NEW n \in TaskRecords, TaskAdded(n), pipelines' = pipelines PROVE TasksInv'
  <2>1. /\ tasks' = Append(tasks, n) /\ ~n.edited /\ n.name = n.by.name /\ n.prompt = n.by.prompt
        /\ n.pipeline \in DOMAIN pipelines
        /\ \A t \in DOMAIN tasks : tasks[t].name # n.name
    BY <1>2 DEF TaskAdded, Admit!Named
  <2> DEFINE m == Len(tasks) + 1
  <2>2. /\ tasks' \in Seq(TaskRecords) /\ DOMAIN tasks' = DOMAIN tasks \cup {m}
        /\ m \notin DOMAIN tasks /\ tasks'[m] = n
        /\ \A t \in DOMAIN tasks : tasks'[t] = tasks[t]
    BY <1>0, <2>1, Appended
  <2> HIDE DEF m
  <2>3. \A t, u \in DOMAIN tasks' : tasks'[t].name = tasks'[u].name => t = u
    <3>1. ASSUME NEW t \in DOMAIN tasks, NEW u \in DOMAIN tasks, tasks'[t].name = tasks'[u].name
          PROVE  t = u
      BY <1>0, <2>2, <3>1 DEF TasksInv
    <3>2. ASSUME NEW t \in DOMAIN tasks PROVE tasks'[t].name # tasks'[m].name
      BY <2>1, <2>2
    <3> QED BY <2>2, <3>1, <3>2
  <2>4. \A t \in DOMAIN tasks' :
          /\ tasks'[t].pipeline \in DOMAIN pipelines'
          /\ tasks'[t].edited \/ (tasks'[t].name = tasks'[t].by.name /\ tasks'[t].prompt = tasks'[t].by.prompt)
    BY <1>0, <1>2, <2>1, <2>2 DEF TasksInv
  <2> QED BY <2>2, <2>3, <2>4 DEF TasksInv
<1>3. ASSUME NEW i \in DOMAIN tasks, NEW n \in TaskRecords, TaskChanged(i, n),
             pipelines' = pipelines
      PROVE  TasksInv'
  <2>1. /\ tasks' = [tasks EXCEPT ![i] = n]
        /\ n.by = tasks[i].by /\ n.pipeline \in DOMAIN pipelines
        /\ n.edited \/ (n.name = tasks[i].name /\ n.prompt = tasks[i].prompt /\ ~tasks[i].edited)
        /\ \A t \in DOMAIN tasks : tasks[t].name = n.name => t = i
    BY <1>3 DEF TaskChanged, Admit!Named
  <2>2. /\ tasks' \in Seq(TaskRecords) /\ DOMAIN tasks' = DOMAIN tasks
        /\ \A t \in DOMAIN tasks : tasks'[t] = IF t = i THEN n ELSE tasks[t]
    BY <1>0, <2>1, Replaced
  <2>3. \A t, u \in DOMAIN tasks' : tasks'[t].name = tasks'[u].name => t = u
    BY <1>0, <2>1, <2>2 DEF TasksInv
  <2>4. \A t \in DOMAIN tasks' :
          /\ tasks'[t].pipeline \in DOMAIN pipelines'
          /\ tasks'[t].edited \/ (tasks'[t].name = tasks'[t].by.name /\ tasks'[t].prompt = tasks'[t].by.prompt)
    BY <1>0, <1>3, <2>1, <2>2 DEF TasksInv
  <2> QED BY <2>2, <2>3, <2>4 DEF TasksInv
<1> QED BY <1>1, <1>2, <1>3 DEF TasksMove

LEMMA EditedStays == ASSUME TasksGrow, Edited PROVE Edited'
BY DEF TasksGrow, Edited

LEMMA WantedStays ==
  ASSUME TasksGrow, NEW r, r.task \in DOMAIN tasks, RunAsWanted(r) PROVE RunAsWanted(r)'
BY EditedStays DEF TasksGrow, RunAsWanted, Edited

LEMMA RunsKept ==
  ASSUME AdmissionInv, TasksMove, RunsMove PROVE RunsInv'
<1>0. /\ admissions \in Seq(RunRecords) /\ RunsInv /\ TasksGrow
      /\ \A r, q \in DOMAIN admissions : admissions[r].key = admissions[q].key => r = q
      /\ \A r \in DOMAIN admissions :
           /\ admissions[r].task \in DOMAIN tasks /\ admissions[r].after < r
           /\ RunAsWanted(admissions[r])
      /\ FollowedRests /\ OneFollows /\ OlderRest
  BY GrowsOn DEF AdmissionInv, RunsInv, Grows
<1>d. \A t \in DOMAIN tasks : t \in DOMAIN tasks'
  BY <1>0 DEF TasksGrow
<1>w. ASSUME NEW r \in RunRecords, r.task \in DOMAIN tasks, RunAsWanted(r) PROVE RunAsWanted(r)'
  BY <1>0, <1>w, WantedStays
<1>n. Len(admissions) \in Nat /\ DOMAIN admissions = 1..Len(admissions)
  BY <1>0
<1>1. CASE admissions' = admissions
  <2>1. ASSUME NEW r \in DOMAIN admissions'
        PROVE  /\ admissions'[r].task \in DOMAIN tasks' /\ admissions'[r].after < r
               /\ RunAsWanted(admissions[r])'
    <3>1. PICK x \in RunRecords : x = admissions[r]
      BY <1>0, <1>1
    <3>2. RunAsWanted(x)'
      BY <1>0, <1>1, <1>w, <3>1
    <3>3. RunAsWanted(admissions[r])'
      BY <1>1, <3>1, <3>2 DEF RunAsWanted
    <3> QED BY <1>0, <1>d, <1>1, <3>3
  <2>2. FollowedRests' /\ OneFollows' /\ OlderRest'
    BY <1>0, <1>1 DEF FollowedRests, OneFollows, OlderRest, Admit!Open
  <2> QED BY <1>0, <1>1, <2>1, <2>2 DEF RunsInv
<1>2. ASSUME NEW n \in RunRecords, RunAdded(n) PROVE RunsInv'
  <2>1. /\ admissions' = Append(admissions, n)
        /\ n.task \in DOMAIN tasks /\ RunAsWanted(n)
        /\ \A r \in DOMAIN admissions : admissions[r].key # n.key
        /\ n.after # 0 => /\ n.after \in DOMAIN admissions /\ ~Admit!Open(n.after)
                          /\ \A q \in DOMAIN admissions : admissions[q].after # n.after
        /\ n.after # 0 /\ n.digest[1] = "procedure" =>
             \A q \in DOMAIN admissions : admissions[q].task = n.task => ~Admit!Open(q)
    BY <1>2 DEF RunAdded, Admit!RunOf
  <2> DEFINE m == Len(admissions) + 1
  <2>2. /\ admissions' \in Seq(RunRecords) /\ DOMAIN admissions' = DOMAIN admissions \cup {m}
        /\ m \notin DOMAIN admissions /\ admissions'[m] = n
        /\ \A t \in DOMAIN admissions : admissions'[t] = admissions[t]
    BY <1>0, <2>1, Appended
  <2>3. m \in Nat /\ \A r \in DOMAIN admissions : r \in Nat /\ r < m
    BY <1>n
  <2> HIDE DEF m
  <2>4. \A r, q \in DOMAIN admissions' : admissions'[r].key = admissions'[q].key => r = q
    <3>1. ASSUME NEW r \in DOMAIN admissions, NEW q \in DOMAIN admissions,
                 admissions'[r].key = admissions'[q].key
          PROVE  r = q
      BY <1>0, <2>2, <3>1
    <3>2. ASSUME NEW r \in DOMAIN admissions PROVE admissions'[r].key # admissions'[m].key
      BY <2>1, <2>2
    <3> QED BY <2>2, <3>1, <3>2
  <2>5. ASSUME NEW r \in DOMAIN admissions'
        PROVE  /\ admissions'[r].task \in DOMAIN tasks' /\ admissions'[r].after < r
               /\ RunAsWanted(admissions[r])'
    <3>1. PICK x \in RunRecords : x = admissions'[r]
      <4>1. \A t \in DOMAIN admissions : admissions[t] \in RunRecords
        BY <1>0
      <4> QED BY <2>2, <4>1
    <3>2. x.task \in DOMAIN tasks /\ x.after < r /\ RunAsWanted(x)
      <4>1. CASE r \in DOMAIN admissions
        <5>1. x = admissions[r]
          BY <2>2, <3>1, <4>1
        <5> QED BY <1>0, <4>1, <5>1
      <4>2. CASE r = m
        <5>1. x = n
          BY <2>2, <3>1, <4>2
        <5>2. x.after < r
          <6>1. n.after \in Nat
            BY DEF RunRecords
          <6>2. n.after = 0 \/ n.after < m
            BY <2>1, <2>3
          <6>3. 0 < m
            BY <1>n DEF m
          <6> QED BY <4>2, <5>1, <6>2, <6>3
        <5> QED BY <2>1, <5>1, <5>2
      <4> QED BY <2>2, <4>1, <4>2
    <3>3. RunAsWanted(x)'
      BY <1>w, <3>2
    <3>4. RunAsWanted(admissions[r])'
      BY <3>1, <3>3 DEF RunAsWanted
    <3> QED BY <1>d, <3>1, <3>2, <3>4
  <2>6. \A t \in DOMAIN admissions : Admit!Open(t)' <=> Admit!Open(t)
    BY <2>2 DEF Admit!Open
  <2>7. FollowedRests'
    <3>1. ASSUME NEW r \in DOMAIN admissions, admissions[r].after # 0
          PROVE  admissions'[r].after \in DOMAIN admissions' /\ admissions'[admissions'[r].after].work # "open"
      BY <1>0, <2>2, <2>6, <3>1 DEF FollowedRests, Admit!Open
    <3>2. ASSUME n.after # 0
          PROVE  n.after \in DOMAIN admissions' /\ admissions'[n.after].work # "open"
      BY <2>1, <2>2, <3>2 DEF Admit!Open
    <3> QED BY <2>2, <3>1, <3>2 DEF FollowedRests, Admit!Open
  <2>8. OneFollows'
    BY <1>0, <2>1, <2>2 DEF OneFollows
  <2>9. OlderRest'
    <3>1. ASSUME NEW r \in DOMAIN admissions', NEW q \in DOMAIN admissions',
                 admissions'[r].after # 0, admissions'[r].digest[1] = "procedure",
                 q < r, admissions'[q].task = admissions'[r].task, Admit!Open(q)'
          PROVE  admissions'[q].since >= r
      <4>1. q \in DOMAIN admissions
        BY <2>2, <2>3, <3>1
      <4>2. CASE r \in DOMAIN admissions
        BY <1>0, <2>2, <2>6, <3>1, <4>1, <4>2 DEF OlderRest
      <4>3. CASE r = m
        BY <2>1, <2>2, <2>6, <3>1, <4>1, <4>3
      <4> QED BY <2>2, <4>2, <4>3
    <3> QED BY <3>1 DEF OlderRest
  <2> QED BY <2>2, <2>4, <2>5, <2>7, <2>8, <2>9 DEF RunsInv
<1>3. ASSUME NEW i \in DOMAIN admissions, NEW n \in RunRecords, RunTurned(i, n) PROVE RunsInv'
  <2>1. /\ admissions' = [admissions EXCEPT ![i] = n] /\ n.digest = admissions[i].digest
        /\ n.work = "open" => /\ n.since = Len(admissions)
                              /\ \A q \in DOMAIN admissions : admissions[q].after # i
        /\ n.key = admissions[i].key /\ n.source = admissions[i].source
        /\ n.task = admissions[i].task /\ n.after = admissions[i].after
        /\ n.prompt = admissions[i].prompt /\ n.wanted = admissions[i].wanted
    BY <1>3 DEF RunTurned
  <2>2. /\ admissions' \in Seq(RunRecords) /\ DOMAIN admissions' = DOMAIN admissions
        /\ \A t \in DOMAIN admissions : admissions'[t] = IF t = i THEN n ELSE admissions[t]
    BY <1>0, <2>1, Replaced
  <2>3. \A r \in DOMAIN admissions :
          /\ admissions'[r].key = admissions[r].key /\ admissions'[r].task = admissions[r].task
          /\ admissions'[r].after = admissions[r].after
          /\ admissions'[r].digest = admissions[r].digest
    BY <2>1, <2>2
  <2>4. ASSUME NEW r \in DOMAIN admissions
        PROVE  RunAsWanted(admissions[r])'
    <3>1. PICK x \in RunRecords : x = admissions[r]
      BY <1>0
    <3>2. RunAsWanted(x)'
      BY <1>0, <1>w, <3>1
    <3>3. /\ admissions'[r].wanted = x.wanted /\ admissions'[r].source = x.source
          /\ admissions'[r].prompt = x.prompt /\ admissions'[r].task = x.task
      BY <2>1, <2>2, <3>1
    <3> QED BY <3>2, <3>3 DEF RunAsWanted
  <2>5. \A r, q \in DOMAIN admissions' : admissions'[r].key = admissions'[q].key => r = q
    BY <1>0, <2>2, <2>3
  <2>6. FollowedRests'
    <3>1. ASSUME NEW r \in DOMAIN admissions, admissions[r].after # 0
          PROVE  admissions'[admissions[r].after].work # "open"
      <4>1. /\ admissions[r].after \in DOMAIN admissions
            /\ admissions[admissions[r].after].work # "open"
        BY <1>0, <3>1 DEF FollowedRests, Admit!Open
      <4>2. CASE admissions[r].after = i
        BY <2>1, <2>2, <4>1, <4>2 DEF Admit!Open
      <4>3. CASE admissions[r].after # i
        BY <2>2, <4>1, <4>3 DEF Admit!Open
      <4> QED BY <4>2, <4>3
    <3>2. ASSUME NEW r \in DOMAIN admissions', admissions'[r].after # 0
          PROVE  admissions'[r].after \in DOMAIN admissions' /\ admissions'[admissions'[r].after].work # "open"
      BY <1>0, <2>2, <2>3, <3>1, <3>2 DEF FollowedRests, Admit!Open
    <3> QED BY <3>2 DEF FollowedRests, Admit!Open
  <2>8. OneFollows'
    BY <1>0, <2>2, <2>3 DEF OneFollows
  <2>9. OlderRest'
    <3>1. ASSUME NEW r \in DOMAIN admissions', NEW q \in DOMAIN admissions',
                 admissions'[r].after # 0, admissions'[r].digest[1] = "procedure",
                 q < r, admissions'[q].task = admissions'[r].task, Admit!Open(q)'
          PROVE  admissions'[q].since >= r
      <4>1. r \in DOMAIN admissions /\ q \in DOMAIN admissions /\ r <= Len(admissions)
        BY <1>n, <2>2
      <4>2. CASE q = i
        <5>1. admissions'[q] = n /\ n.work = "open"
          BY <2>2, <3>1, <4>2 DEF Admit!Open
        <5>2. n.since = Len(admissions) /\ r \in Nat
          BY <1>n, <2>1, <4>1, <5>1
        <5> QED BY <1>n, <4>1, <5>1, <5>2
      <4>3. CASE q # i
        BY <1>0, <2>2, <2>3, <3>1, <4>1, <4>3 DEF OlderRest, Admit!Open
      <4> QED BY <4>2, <4>3
    <3> QED BY <3>1 DEF OlderRest
  <2>7. \A r \in DOMAIN admissions' :
          admissions'[r].task \in DOMAIN tasks' /\ admissions'[r].after < r
    BY <1>0, <1>d, <2>2, <2>3
  <2> QED BY <2>2, <2>4, <2>5, <2>6, <2>7, <2>8, <2>9 DEF RunsInv
<1> QED BY <1>1, <1>2, <1>3 DEF RunsMove

\* What a request has found out still holds after any step of others.
LEMMA RequestStays ==
  ASSUME AdmissionInv, Grows, NEW q \in Requests, RequestOK(q) PROVE RequestOK(q)'
<1>0. TasksGrow /\ RunsGrow
  BY DEF Grows
<1>1. Edited => Edited'
  BY <1>0, EditedStays
<1>2. ASSUME NEW k PROVE \A r \in Admit!RunOf(k) : r \in Admit!RunOf(k)'
  BY <1>0 DEF RunsGrow, Admit!RunOf
<1>3. ASSUME NEW n, Admit!Named(n) # {} PROVE Edited' \/ Admit!Named(n)' # {}
  BY <1>0, <1>3 DEF TasksGrow, Admit!Named, Edited
<1>4. q.step = "replay" /\ q.known => Admit!RunOf(Admit!Prefixed(q.of.key))' # {}
  BY <1>2 DEF RequestOK, Admit!Prefixed
<1>5. q.step = "adopt" => Edited' \/ Admit!Named(q.of.name)' # {}
  BY <1>1, <1>3 DEF RequestOK
<1>6. q.step = "admit" =>
       /\ q.task \in DOMAIN tasks'
       /\ tasks'[q.task].prompt = q.of.prompt \/ tasks'[q.task].edited
       /\ tasks'[q.task].name = q.of.name \/ Edited'
  BY <1>0, <1>1 DEF RequestOK, TasksGrow, Edited
<1>7. q.step = "refused" => Cause(q)'
  <2>1. ASSUME Cause(q) PROVE Cause(q)'
    <3>1. (\E t \in DOMAIN tasks : tasks[t].by # q.of /\ tasks[t].by.name = q.of.name) =>
            \E t \in DOMAIN tasks' : tasks'[t].by # q.of /\ tasks'[t].by.name = q.of.name
      BY <1>0 DEF TasksGrow
    <3>2. ASSUME NEW r \in Admit!RunOf(Admit!Prefixed(q.of.key)),
                 \/ admissions[r].wanted = Admit!NoSubmission
                 \/ admissions[r].wanted.source # q.of.source
                 \/ admissions[r].wanted.name # q.of.name \/ Edited
          PROVE  /\ r \in Admit!RunOf(Admit!Prefixed(q.of.key))'
                 /\ \/ admissions'[r].wanted = Admit!NoSubmission
                    \/ admissions'[r].wanted.source # q.of.source
                    \/ admissions'[r].wanted.name # q.of.name \/ Edited'
      <4>1. r \in DOMAIN admissions
        BY DEF Admit!RunOf
      <4>2. admissions'[r].wanted = admissions[r].wanted
        BY <1>0, <4>1 DEF RunsGrow
      <4>3. r \in Admit!RunOf(Admit!Prefixed(q.of.key))'
        BY <1>2 DEF Admit!Prefixed
      <4> QED BY <1>1, <3>2, <4>2, <4>3
    <3>3. (\E r \in Admit!RunOf(Admit!Prefixed(q.of.key)) :
             \/ admissions[r].wanted = Admit!NoSubmission
             \/ admissions[r].wanted.source # q.of.source
             \/ admissions[r].wanted.name # q.of.name \/ Edited) =>
          \E r \in Admit!RunOf(Admit!Prefixed(q.of.key))' :
             \/ admissions'[r].wanted = Admit!NoSubmission
             \/ admissions'[r].wanted.source # q.of.source
             \/ admissions'[r].wanted.name # q.of.name \/ Edited'
      BY <3>2
    <3> QED BY <1>1, <2>1, <3>1, <3>3 DEF Cause, Admit!NoSubmission, Admit!Prefixed
  <2> QED BY <2>1 DEF RequestOK
<1> QED BY <1>4, <1>5, <1>6, <1>7 DEF RequestOK, Admit!Prefixed

-----------------------------------------------------------------------------
\* What the records of a request hold at each of its steps.
Asking == [step : {"replay", "pause", "create", "adopt"}, of : Submissions, known : BOOLEAN]
Admitting == [step : {"admit"}, of : Submissions, known : BOOLEAN, task : Nat]
RefusedWith == [step : {"refused"}, of : Submissions, known : BOOLEAN, code : Codes]

LEMMA RequestShapes ==
  ASSUME NEW q \in Requests
  PROVE  /\ q.step \in {"replay", "pause", "create", "adopt"} => q \in Asking
         /\ q.step = "admit" => q \in Admitting
         /\ q.step = "refused" => q \in RefusedWith
         /\ q.step \in {"idle", "replay", "pause", "create", "adopt", "admit", "refused"}
BY DEF Requests, Admit!Idle, Asking, Admitting, RefusedWith

\* One request turns to q; the others keep what they found out.
LEMMA RequestsTurn ==
  ASSUME AdmissionInv, Grows, NEW c \in Clients, NEW q \in Requests,
         request' = [request EXCEPT ![c] = q], RequestOK(q)'
  PROVE  RequestsInv'
<1>0. request \in [Clients -> Requests] /\ \A d \in Clients : RequestOK(request[d])
  BY DEF AdmissionInv, RequestsInv
<1>1. request' \in [Clients -> Requests]
  BY <1>0
<1>2. ASSUME NEW d \in Clients PROVE RequestOK(request[d])'
  <2>1. PICK x \in Requests : x = request'[d]
    BY <1>1
  <2>2. RequestOK(x)'
    <3>1. CASE d = c
      <4>1. x = q
        BY <1>0, <2>1, <3>1
      <4> QED BY <4>1
    <3>2. CASE d # c
      <4>1. x = request[d]
        BY <1>0, <2>1, <3>2
      <4>2. RequestOK(x)
        BY <1>0, <4>1
      <4> QED BY <4>2, RequestStays
    <3> QED BY <3>1, <3>2
  <2> QED BY <2>1, <2>2 DEF RequestOK, Cause
<1> QED BY <1>1, <1>2 DEF RequestsInv

LEMMA RequestsStay ==
  ASSUME AdmissionInv, Grows, request' = request PROVE RequestsInv'
<1>0. request \in [Clients -> Requests] /\ \A d \in Clients : RequestOK(request[d])
  BY DEF AdmissionInv, RequestsInv
<1>2. ASSUME NEW d \in Clients PROVE RequestOK(request[d])'
  <2>1. PICK x \in Requests : x = request[d]
    BY <1>0
  <2>2. RequestOK(x)
    BY <1>0, <2>1
  <2>3. RequestOK(x)' /\ x = request'[d]
    BY <2>1, <2>2, RequestStays
  <2> QED BY <2>3 DEF RequestOK, Cause
<1> QED BY <1>0, <1>2 DEF RequestsInv

LEMMA AnswersStay ==
  ASSUME AdmissionInv, Grows, answers' = answers PROVE AnswersInv'
BY DEF AdmissionInv, AnswersInv, Grows, RunsGrow, Admit!Prefixed
LEMMA AnswersGrow ==
  ASSUME AdmissionInv, Grows, NEW s \in Submissions, NEW r \in Nat, r \in DOMAIN admissions',
         admissions'[r].key = Admit!Prefixed(s.key),
         answers' = answers \cup {<<s.key, r>>}
  PROVE  AnswersInv'
<1>1. \A a \in answers : a[2] \in DOMAIN admissions' /\ admissions'[a[2]].key = Admit!Prefixed(a[1])
  BY DEF AdmissionInv, AnswersInv, Grows, RunsGrow
<1>2. answers \subseteq {t.key : t \in Submissions} \X Nat
  BY DEF AdmissionInv, AnswersInv
<1> QED BY <1>1, <1>2 DEF AnswersInv, Admit!Prefixed

\* What every step but a Restart shows of the whole.
AdmissionMoves ==
  TasksMove /\ RunsMove /\ PipelinesInv' /\ AnswersInv' /\ RequestsInv'
LEMMA AdmissionGoes == ASSUME AdmissionInv, AdmissionMoves PROVE AdmissionInv'
BY TasksKept, RunsKept DEF AdmissionMoves, AdmissionInv

LEMMA AtRest ==
  ASSUME AdmissionInv, tasks' = tasks, admissions' = admissions, pipelines' = pipelines
  PROVE  TasksMove /\ RunsMove /\ PipelinesInv' /\ Grows
<1>1. TasksMove /\ RunsMove
  BY DEF TasksMove, RunsMove, AdmissionInv, TasksInv
<1> QED BY <1>1, GrowsOn DEF AdmissionInv, PipelinesInv

LEMMA SubmitKept ==
  ASSUME AdmissionInv, NEW c \in Clients, NEW s \in Submissions, Admit!Submit(c, s)
  PROVE  AdmissionMoves
<1>1. /\ tasks' = tasks /\ admissions' = admissions /\ pipelines' = pipelines
      /\ answers' = answers
      /\ request' = [request EXCEPT ![c] =
           [step |-> "replay", of |-> s, known |-> Admit!RunOf(Admit!Prefixed(s.key)) # {}]]
  BY DEF Admit!Submit
<1>2. PICK q : q = [step |-> "replay", of |-> s,
                    known |-> Admit!RunOf(Admit!Prefixed(s.key)) # {}]
  OBVIOUS
<1>3. (Admit!RunOf(Admit!Prefixed(s.key)) # {}) \in BOOLEAN
  OBVIOUS
<1>4. q \in Requests
  BY <1>2, <1>3 DEF Requests
<1>5. q.step = "replay" /\ q.of = s /\ (q.known => Admit!RunOf(Admit!Prefixed(s.key)) # {})
  BY <1>2
<1>6. RequestOK(q)
  BY <1>5 DEF RequestOK
<1>7. RequestOK(q)'
  BY <1>1, <1>4, <1>6, RequestStays, AtRest
<1> QED BY <1>1, <1>2, <1>4, <1>7, AtRest, AnswersStay, RequestsTurn DEF AdmissionMoves

\* A request goes on without a Run having been found.
LEMMA GoesTo ==
  ASSUME AdmissionInv, NEW c \in Clients, NEW step \in {"pause", "create", "adopt"},
         request[c].step \in {"replay", "pause", "create", "adopt"}, ~request[c].known,
         step = "adopt" => Admit!Named(request[c].of.name) # {},
         Admit!Goes(c, step),
         tasks' = tasks, admissions' = admissions, pipelines' = pipelines
  PROVE  RequestsInv'
<1>0. PICK p \in Asking : p = request[c]
  BY RequestShapes DEF AdmissionInv, RequestsInv
<1>1. PICK q : q = [step |-> step, of |-> p.of, known |-> p.known]
  OBVIOUS
<1>2. request' = [request EXCEPT ![c] = q]
  <2>1. request' = [request EXCEPT ![c] = [@ EXCEPT !.step = step]]
    BY DEF Admit!Goes
  <2>2. [p EXCEPT !.step = step] = q
    BY <1>1 DEF Asking
  <2> QED BY <1>0, <2>1, <2>2 DEF AdmissionInv, RequestsInv
<1>3. q \in Requests /\ q.step = step /\ ~q.known /\ q.of = p.of
  BY <1>0, <1>1 DEF Asking, Requests
<1>4. RequestOK(q)
  BY <1>0, <1>3 DEF RequestOK
<1> QED BY <1>2, <1>3, <1>4, RequestStays, RequestsTurn, AtRest

\* A request is refused for a cause that its step has found.
LEMMA RefusedTo ==
  ASSUME AdmissionInv, NEW c \in Clients, NEW code \in Codes,
         request[c].step \in {"pause", "create", "adopt", "admit"},
         Admit!Refuse(c, code),
         code = "task_name_conflict" => Edited,
         code = "admission_name_collision" =>
           Edited \/ \E t \in DOMAIN tasks : /\ tasks[t].by # request[c].of
                                             /\ tasks[t].by.name = request[c].of.name,
         code = "request_key_conflict" =>
           \E r \in Admit!RunOf(Admit!Prefixed(request[c].of.key)) :
             \/ admissions[r].wanted = Admit!NoSubmission
             \/ admissions[r].wanted.source # request[c].of.source
             \/ admissions[r].wanted.name # request[c].of.name \/ Edited,
         tasks' = tasks, admissions' = admissions, pipelines' = pipelines
  PROVE  AdmissionMoves
<1>0. PICK p \in Requests : p = request[c] /\ p \in Asking \cup Admitting /\ ~p.known /\ RequestOK(p)
  <2>1. request[c] \in Requests /\ RequestOK(request[c])
    BY DEF AdmissionInv, RequestsInv
  <2> QED BY <2>1, RequestShapes DEF RequestOK
<1>1. PICK q : q = [step |-> "refused", of |-> p.of, known |-> p.known, code |-> code]
  OBVIOUS
<1>2. request' = [request EXCEPT ![c] = q] /\ answers' = answers
  BY <1>0, <1>1 DEF Admit!Refuse, AdmissionInv, RequestsInv
<1>3. q \in Requests /\ q.step = "refused" /\ ~q.known /\ q.of = p.of /\ q.code = code
  BY <1>0, <1>1 DEF Asking, Admitting, Requests
<1>4. Cause(q)
  BY <1>0, <1>3 DEF Cause
<1>5. RequestOK(q)
  BY <1>3, <1>4 DEF RequestOK
<1> QED BY <1>2, <1>3, <1>5, RequestStays, RequestsTurn, AtRest, AnswersStay DEF AdmissionMoves

LEMMA GoesWithTo ==
  ASSUME AdmissionInv, Grows, NEW c \in Clients, NEW t \in Nat,
         request[c].step \in {"replay", "pause", "create", "adopt"}, ~request[c].known,
         Admit!GoesWith(c, t), t \in DOMAIN tasks',
         tasks'[t].prompt = request[c].of.prompt \/ tasks'[t].edited,
         tasks'[t].name = request[c].of.name \/ Edited'
  PROVE  RequestsInv'
<1>0. PICK p \in Asking : p = request[c]
  BY RequestShapes DEF AdmissionInv, RequestsInv
<1>1. PICK q : q = [step |-> "admit", of |-> p.of, known |-> p.known, task |-> t]
  OBVIOUS
<1>2. request' = [request EXCEPT ![c] = q]
  BY <1>0, <1>1 DEF Admit!GoesWith, AdmissionInv, RequestsInv
<1>3. q \in Requests /\ q.step = "admit" /\ ~q.known /\ q.of = p.of /\ q.task = t
  BY <1>0, <1>1 DEF Asking, Requests
<1>4. RequestOK(q)'
  BY <1>0, <1>3 DEF RequestOK
<1> QED BY <1>2, <1>3, <1>4, RequestsTurn

LEMMA AnsweredTo ==
  ASSUME AdmissionInv, Grows, NEW c \in Clients, NEW r \in Nat,
         request[c].step \in {"replay", "admit"}, Admit!Answer(c, r),
         r \in DOMAIN admissions',
         admissions'[r].key = Admit!Prefixed(request[c].of.key)
  PROVE  AnswersInv' /\ RequestsInv'
<1>0. request[c].of \in Submissions
  BY RequestShapes DEF AdmissionInv, RequestsInv, Asking, Admitting
<1>1. AnswersInv'
  BY <1>0, AnswersGrow DEF Admit!Answer
<1>2. PICK q : q = Admit!Idle
  OBVIOUS
<1>3. q \in Requests /\ q.step = "idle"
  BY <1>2 DEF Admit!Idle, Requests
<1>4. request' = [request EXCEPT ![c] = q]
  BY <1>2 DEF Admit!Answer
<1>5. RequestOK(q)'
  BY <1>3 DEF RequestOK
<1> QED BY <1>1, <1>3, <1>4, <1>5, RequestsTurn

\* What AdmissionInv says of the request that takes a step.
LEMMA RequestFacts ==
  ASSUME AdmissionInv, NEW c \in Clients
  PROVE  /\ request[c] \in Requests /\ RequestOK(request[c])
         /\ request[c].step \notin {"idle"} => request[c].of \in Submissions
BY RequestShapes DEF AdmissionInv, RequestsInv, Asking, Admitting, RefusedWith
LEMMA RunFacts ==
  ASSUME AdmissionInv, NEW k, NEW r \in Admit!RunOf(k)
  PROVE  /\ r \in DOMAIN admissions /\ r \in Nat /\ admissions[r].key = k
         /\ admissions[r] \in RunRecords /\ RunAsWanted(admissions[r])
         /\ admissions[r].task \in DOMAIN tasks
BY DEF AdmissionInv, RunsInv, Admit!RunOf
LEMMA TaskFacts ==
  ASSUME AdmissionInv, NEW t \in DOMAIN tasks
  PROVE  /\ t \in Nat /\ tasks[t] \in TaskRecords /\ tasks[t].pipeline \in DOMAIN pipelines
         /\ tasks[t].edited \/ (tasks[t].name = tasks[t].by.name /\ tasks[t].prompt = tasks[t].by.prompt)
         /\ tasks[t].edited => Edited
         /\ \A u \in DOMAIN tasks : tasks[t].name = tasks[u].name => t = u
BY DEF AdmissionInv, TasksInv, Edited

LEMMA ReplayKept ==
  ASSUME AdmissionInv, NEW c \in Clients, Admit!Replay(c) PROVE AdmissionMoves
<1> DEFINE found == Admit!RunOf(Admit!Prefixed(request[c].of.key))
<1>0. /\ request[c].step = "replay"
      /\ tasks' = tasks /\ admissions' = admissions /\ pipelines' = pipelines
      /\ \/ \E r \in found : Admit!Answer(c, r)
         \/ found = {} /\ Admit!Goes(c, "pause") /\ answers' = answers
  BY DEF Admit!Replay
<1>1. TasksMove /\ RunsMove /\ PipelinesInv' /\ Grows
  BY <1>0, AtRest
<1>2. ASSUME NEW r \in found, Admit!Answer(c, r) PROVE AnswersInv' /\ RequestsInv'
  <2>1. r \in Nat /\ r \in DOMAIN admissions /\ admissions[r].key = Admit!Prefixed(request[c].of.key)
    BY RunFacts
  <2> QED BY <1>0, <1>1, <1>2, <2>1, AnsweredTo
<1>3. CASE found = {} /\ Admit!Goes(c, "pause") /\ answers' = answers
  <2>1. ~request[c].known
    BY <1>0, <1>3, RequestFacts DEF RequestOK
  <2>2. RequestsInv'
    BY <1>0, <1>3, <2>1, GoesTo
  <2> QED BY <1>1, <1>3, <2>2, AnswersStay DEF AdmissionMoves
<1> QED BY <1>0, <1>1, <1>2, <1>3 DEF AdmissionMoves

LEMMA ReadPauseKept ==
  ASSUME AdmissionInv, NEW c \in Clients, Admit!ReadPause(c) PROVE AdmissionMoves
<1>0. /\ request[c].step = "pause"
      /\ tasks' = tasks /\ admissions' = admissions /\ pipelines' = pipelines
      /\ \/ Admit!Refuse(c, "factory_paused")
         \/ Admit!Goes(c, "create") /\ answers' = answers
  BY DEF Admit!ReadPause
<1>1. CASE Admit!Refuse(c, "factory_paused")
  <2>1. "factory_paused" \in Codes
    BY DEF Codes
  <2> QED BY <1>0, <1>1, <2>1, RefusedTo
<1>2. CASE Admit!Goes(c, "create") /\ answers' = answers
  <2>1. ~request[c].known
    BY <1>0, RequestFacts DEF RequestOK
  <2>2. RequestsInv'
    BY <1>0, <1>2, <2>1, GoesTo
  <2> QED BY <1>0, <1>2, <2>2, AtRest, AnswersStay DEF AdmissionMoves
<1> QED BY <1>0, <1>1, <1>2

LEMMA CreateTaskKept ==
  ASSUME AdmissionInv, NEW c \in Clients, Admit!CreateTask(c) PROVE AdmissionMoves
<1> DEFINE s == request[c].of
           n == [name |-> s.name, prompt |-> s.prompt, pipeline |-> s.pipeline,
                 archived |-> FALSE, by |-> s, edited |-> FALSE]
<1>0. /\ request[c].step = "create" /\ ~request[c].known
      /\ s \in Submissions /\ admissions' = admissions /\ pipelines' = pipelines
  BY RequestFacts DEF Admit!CreateTask, RequestOK
<1>1. CASE tasks' = tasks /\ \/ Admit!Refuse(c, "task_limit_reached")
                             \/ Admit!Refuse(c, "pipeline_not_found")
  <2>1. "task_limit_reached" \in Codes /\ "pipeline_not_found" \in Codes
    BY DEF Codes
  <2>2. CASE Admit!Refuse(c, "task_limit_reached")
    BY <1>0, <1>1, <2>1, <2>2, RefusedTo
  <2>3. CASE Admit!Refuse(c, "pipeline_not_found")
    BY <1>0, <1>1, <2>1, <2>3, RefusedTo
  <2> QED BY <1>1, <2>2, <2>3
<1>2. CASE /\ tasks' = tasks /\ answers' = answers /\ Admit!Named(s.name) # {}
           /\ Admit!Goes(c, "adopt")
  <2>1. RequestsInv'
    BY <1>0, <1>2, GoesTo
  <2> QED BY <1>0, <1>2, <2>1, AtRest, AnswersStay DEF AdmissionMoves
<1>3. CASE /\ s.pipeline \in DOMAIN pipelines /\ Admit!Named(s.name) = {}
           /\ tasks' = Append(tasks, n) /\ Admit!GoesWith(c, Len(tasks) + 1)
           /\ answers' = answers
  <2>0. PICK x : x = n
    OBVIOUS
  <2>1. x \in TaskRecords
    BY <1>0, <1>3, <2>0, AdmissionConstantsHold DEF TaskRecords, AdmissionInv, PipelinesInv
  <2>2. TaskAdded(x)
    BY <1>3, <2>0, <2>1 DEF TaskAdded
  <2>3. TasksMove /\ RunsMove
    BY <1>0, <2>1, <2>2 DEF TasksMove, RunsMove
  <2>4. Grows
    BY <2>3, GrowsOn
  <2>5. /\ Len(tasks) + 1 \in Nat /\ Len(tasks) + 1 \in DOMAIN tasks'
        /\ tasks'[Len(tasks) + 1] = x
    BY <1>3, <2>0, <2>1, Appended DEF AdmissionInv, TasksInv
  <2>6. RequestsInv'
    BY <1>0, <1>3, <2>0, <2>4, <2>5, GoesWithTo
  <2> QED BY <1>0, <1>3, <2>3, <2>4, <2>6, AnswersStay DEF AdmissionMoves, AdmissionInv, PipelinesInv
<1> QED BY <1>1, <1>2, <1>3 DEF Admit!CreateTask

LEMMA AdoptKept ==
  ASSUME AdmissionInv, NEW c \in Clients, Admit!Adopt(c) PROVE AdmissionMoves
<1> DEFINE s == request[c].of
<1>0. /\ request[c].step = "adopt" /\ ~request[c].known /\ s \in Submissions
      /\ Edited \/ Admit!Named(s.name) # {}
      /\ tasks' = tasks /\ admissions' = admissions /\ pipelines' = pipelines
  BY RequestFacts DEF Admit!Adopt, RequestOK
<1>1. CASE Admit!Named(s.name) = {} /\ Admit!Refuse(c, "task_name_conflict")
  <2>1. "task_name_conflict" \in Codes
    BY DEF Codes
  <2> QED BY <1>0, <1>1, <2>1, RefusedTo
<1>2. ASSUME NEW t \in Admit!Named(s.name), tasks[t].prompt # s.prompt,
             Admit!Refuse(c, "admission_name_collision")
      PROVE  AdmissionMoves
  <2>1. "admission_name_collision" \in Codes
    BY DEF Codes
  <2>2. t \in DOMAIN tasks /\ tasks[t].name = s.name
    BY DEF Admit!Named
  <2>3. Edited \/ (tasks[t].by # s /\ tasks[t].by.name = s.name)
    BY <1>2, <2>2, TaskFacts
  <2> QED BY <1>0, <1>2, <2>1, <2>2, <2>3, RefusedTo
<1>3. ASSUME NEW t \in Admit!Named(s.name), tasks[t].prompt = s.prompt,
             Admit!GoesWith(c, t), answers' = answers
      PROVE  AdmissionMoves
  <2>1. t \in DOMAIN tasks /\ tasks[t].name = s.name /\ t \in Nat
    BY TaskFacts DEF Admit!Named
  <2>2. RequestsInv'
    BY <1>0, <1>3, <2>1, AtRest, GoesWithTo
  <2> QED BY <1>0, <1>3, <2>2, AtRest, AnswersStay DEF AdmissionMoves
<1> QED BY <1>1, <1>2, <1>3 DEF Admit!Adopt

LEMMA AdmitTaskKept ==
  ASSUME AdmissionInv, NEW c \in Clients, Admit!AdmitTask(c) PROVE AdmissionMoves
<1> DEFINE s == request[c].of
           t == request[c].task
           known == Admit!RunOf(Admit!Prefixed(s.key))
           n == Admit!NewRun(Admit!Prefixed(s.key), s.source, t, <<"task", t>>, 0, s)
<1>0. /\ request[c].step = "admit" /\ ~request[c].known /\ s \in Submissions
      /\ t \in DOMAIN tasks
      /\ tasks[t].prompt = s.prompt \/ tasks[t].edited
      /\ tasks' = tasks /\ pipelines' = pipelines
  BY RequestFacts DEF Admit!AdmitTask, RequestOK
<1>n. tasks[t].name = s.name \/ Edited
  BY <1>0, RequestFacts DEF RequestOK
<1>1. ASSUME NEW r \in known, Admit!Answer(c, r), admissions' = admissions PROVE AdmissionMoves
  <2>1. r \in Nat /\ r \in DOMAIN admissions /\ admissions[r].key = Admit!Prefixed(s.key)
    BY RunFacts
  <2>2. TasksMove /\ RunsMove /\ PipelinesInv' /\ Grows
    BY <1>0, <1>1, AtRest
  <2>3. AnswersInv' /\ RequestsInv'
    BY <1>0, <1>1, <2>1, <2>2, AnsweredTo
  <2> QED BY <2>2, <2>3 DEF AdmissionMoves
<1>2. ASSUME NEW r \in known, admissions[r].task # t \/ admissions[r].source # s.source,
             Admit!Refuse(c, "request_key_conflict"), admissions' = admissions
      PROVE  AdmissionMoves
  <2>1. "request_key_conflict" \in Codes
    BY DEF Codes
  <2>2. \/ admissions[r].wanted = Admit!NoSubmission
        \/ admissions[r].wanted.source # s.source
        \/ admissions[r].wanted.name # s.name \/ Edited
    <3>1. RunAsWanted(admissions[r]) /\ admissions[r].task \in DOMAIN tasks
      BY RunFacts
    <3>2. CASE admissions[r].source # s.source
      BY <3>1, <3>2 DEF RunAsWanted
    <3>3. CASE admissions[r].task # t
      BY <1>0, <1>n, <3>1, <3>3, TaskFacts DEF RunAsWanted
    <3> QED BY <1>2, <3>2, <3>3
  <2> QED BY <1>0, <1>2, <2>1, <2>2, RefusedTo
<1>3. CASE admissions' = admissions /\ \/ Admit!Refuse(c, "factory_paused")
                                       \/ Admit!Refuse(c, "task_archived")
  <2>1. "factory_paused" \in Codes /\ "task_archived" \in Codes
    BY DEF Codes
  <2>2. CASE Admit!Refuse(c, "factory_paused")
    BY <1>0, <1>3, <2>1, <2>2, RefusedTo
  <2>3. CASE Admit!Refuse(c, "task_archived")
    BY <1>0, <1>3, <2>1, <2>3, RefusedTo
  <2> QED BY <1>3, <2>2, <2>3
<1>4. CASE known = {} /\ admissions' = Append(admissions, n)
           /\ Admit!Answer(c, Len(admissions) + 1)
  <2>0. PICK x : x = n
    OBVIOUS
  <2>1. x \in RunRecords
    <3>1. Admit!Prefixed(s.key) \in RunKeys
      BY <1>0 DEF RunKeys
    <3>2. t \in Nat /\ tasks[t].prompt \in {prompt1, prompt2}
      BY <1>0, TaskFacts DEF TaskRecords
    <3>3. <<"task", t>> \in Digests
      BY <3>2 DEF Digests
    <3>4. s.source \in {"orchestrator", "cockpit", "github", "manual"}
      BY <1>0, AdmissionConstantsHold
    <3> QED BY <1>0, <2>0, <3>1, <3>2, <3>3, <3>4 DEF Admit!NewRun, RunRecords
  <2>2. RunAsWanted(x)
    BY <1>0, <1>n, <2>0 DEF RunAsWanted, Admit!NewRun
  <2>3. RunAdded(x)
    BY <1>0, <1>4, <2>0, <2>1, <2>2 DEF RunAdded, Admit!NewRun
  <2>4. TasksMove /\ RunsMove
    BY <1>0, <2>1, <2>3 DEF TasksMove, RunsMove, AdmissionInv, TasksInv
  <2>5. Grows
    BY <2>4, GrowsOn
  <2>6. /\ Len(admissions) + 1 \in Nat /\ Len(admissions) + 1 \in DOMAIN admissions'
        /\ admissions'[Len(admissions) + 1] = x
    BY <1>4, <2>0, <2>1, Appended DEF AdmissionInv, RunsInv
  <2>7. AnswersInv' /\ RequestsInv'
    <3>1. x.key = Admit!Prefixed(s.key)
      BY <2>0 DEF Admit!NewRun
    <3> QED BY <1>0, <1>4, <2>5, <2>6, <3>1, AnsweredTo
  <2> QED BY <1>0, <2>4, <2>7 DEF AdmissionMoves, AdmissionInv, PipelinesInv
<1> QED BY <1>1, <1>2, <1>3, <1>4 DEF Admit!AdmitTask

LEMMA FailKept ==
  ASSUME AdmissionInv, NEW c \in Clients, Admit!Fail(c) PROVE AdmissionMoves
<1>1. /\ tasks' = tasks /\ admissions' = admissions /\ pipelines' = pipelines
      /\ answers' = answers /\ request' = [request EXCEPT ![c] = Admit!Idle]
  BY DEF Admit!Fail
<1>2. PICK q : q = Admit!Idle
  OBVIOUS
<1>3. q \in Requests /\ q.step = "idle"
  BY <1>2 DEF Admit!Idle, Requests
<1>4. RequestOK(q)'
  BY <1>3 DEF RequestOK
<1> QED BY <1>1, <1>2, <1>3, <1>4, AtRest, AnswersStay, RequestsTurn DEF AdmissionMoves

\* What an operator does leaves the requests and their answers alone.
LEMMA OperatorMoves ==
  ASSUME AdmissionInv, TasksMove, RunsMove, PipelinesInv', request' = request, answers' = answers
  PROVE  AdmissionMoves
BY GrowsOn, RequestsStay, AnswersStay DEF AdmissionMoves

LEMMA RunTaskKept ==
  ASSUME AdmissionInv, NEW key \in TaskKeys, NEW t \in DOMAIN tasks, Admit!RunTask(key, t)
  PROVE  AdmissionMoves
<1>1. PICK x : x = Admit!NewRun(key, "manual", t, <<"task", t>>, 0, Admit!NoSubmission)
  OBVIOUS
<1>2. /\ Admit!RunOf(key) = {} /\ admissions' = Append(admissions, x)
      /\ tasks' = tasks /\ pipelines' = pipelines /\ request' = request /\ answers' = answers
  BY <1>1 DEF Admit!RunTask
<1>3. x \in RunRecords /\ x.key = key /\ x.task = t /\ x.after = 0 /\ x.wanted = Admit!NoSubmission
  <2>1. t \in Nat /\ tasks[t].prompt \in {prompt1, prompt2}
    BY TaskFacts DEF TaskRecords
  <2>2. <<"task", t>> \in Digests /\ key \in RunKeys
    BY <2>1 DEF Digests, RunKeys
  <2> QED BY <1>1, <2>1, <2>2 DEF Admit!NewRun, RunRecords
<1>4. RunAdded(x)
  BY <1>2, <1>3 DEF RunAdded, RunAsWanted
<1>5. TasksMove /\ RunsMove /\ PipelinesInv'
  BY <1>2, <1>3, <1>4 DEF TasksMove, RunsMove, AdmissionInv, TasksInv, PipelinesInv
<1> QED BY <1>2, <1>5, OperatorMoves

\* A rebuild follows one of the finished Runs that nothing followed.
LEMMA NewestIs ==
  ASSUME AdmissionInv, NEW t, Admit!Finished(t) # {}
  PROVE  Admit!Newest(Admit!Finished(t)) \in Admit!Finished(t)
<1> DEFINE F == Admit!Finished(t)
<1>1. admissions \in Seq(RunRecords)
  BY DEF AdmissionInv, RunsInv
<1>2. F \subseteq 1..Len(admissions) /\ Len(admissions) \in Nat
  BY <1>1 DEF Admit!Finished
<1>3. IsFiniteSet(F) /\ F \subseteq Nat
  <2>1. IsFiniteSet(1..Len(admissions))
    BY <1>2, FS_Interval
  <2> QED BY <1>2, <2>1, FS_Subset
<1>4. PICK m \in F : \A q \in F : ~ (q > m)
  BY <1>3, HighestExists
<1>5. \A q \in F : q <= m
  BY <1>3, <1>4
<1> HIDE DEF F
<1>6. (CHOOSE r \in F : \A q \in F : q <= r) \in F
  BY <1>5
<1> QED BY <1>6 DEF Admit!Newest, F

LEMMA ProcedureRunKept ==
  ASSUME AdmissionInv, NEW key \in ProcedureKeys, NEW rebuild \in BOOLEAN, NEW t \in DOMAIN tasks,
         Admit!ProcedureRun(key, t, rebuild)
  PROVE  AdmissionMoves
<1>a. PICK after : after = IF rebuild THEN Admit!Newest(Admit!Finished(t)) ELSE 0
  OBVIOUS
<1>1. PICK x : x = Admit!NewRun(key, "manual", t, <<"procedure", tasks[t].name, rebuild>>,
                                after, Admit!NoSubmission)
  OBVIOUS
<1>2. /\ Admit!RunOf(key) = {} /\ admissions' = Append(admissions, x)
      /\ tasks' = tasks /\ pipelines' = pipelines /\ request' = request /\ answers' = answers
      /\ rebuild => /\ \A r \in DOMAIN admissions : admissions[r].task = t => ~Admit!Open(r)
                    /\ Admit!Finished(t) # {}
  BY <1>a, <1>1 DEF Admit!ProcedureRun
<1>b. after # 0 => /\ after \in DOMAIN admissions /\ ~Admit!Open(after)
                   /\ \A q \in DOMAIN admissions : admissions[q].after # after
                   /\ \A q \in DOMAIN admissions : admissions[q].task = t => ~Admit!Open(q)
  <2>1. CASE rebuild
    <3>1. after \in Admit!Finished(t)
      BY <1>a, <1>2, <2>1, NewestIs
    <3> QED BY <1>2, <2>1, <3>1 DEF Admit!Finished, Admit!Followed
  <2>2. CASE ~rebuild
    BY <1>a, <2>2
  <2> QED BY <2>1, <2>2
<1>c. after \in Nat
  BY <1>b DEF AdmissionInv, RunsInv
<1>3. x \in RunRecords /\ x.key = key /\ x.task = t /\ x.after = after
      /\ x.wanted = Admit!NoSubmission
  <2>1. /\ t \in Nat /\ tasks[t].prompt \in {prompt1, prompt2}
        /\ tasks[t].name \in {name1, name2}
    BY TaskFacts DEF TaskRecords
  <2>2. <<"procedure", tasks[t].name, rebuild>> \in Digests
    BY <2>1 DEF Digests
  <2>3. key \in RunKeys
    BY DEF RunKeys
  <2> QED BY <1>1, <1>c, <2>1, <2>2, <2>3 DEF Admit!NewRun, RunRecords
<1>4. RunAdded(x)
  BY <1>2, <1>3, <1>b DEF RunAdded, RunAsWanted
<1>5. TasksMove /\ RunsMove /\ PipelinesInv'
  BY <1>2, <1>3, <1>4 DEF TasksMove, RunsMove, AdmissionInv, TasksInv, PipelinesInv
<1> QED BY <1>2, <1>5, OperatorMoves

\* Work that ends or is opened again keeps all else of its Run.
LEMMA TurnKept ==
  ASSUME AdmissionInv, NEW r \in DOMAIN admissions, NEW state \in {"open", "done", "failed"},
         NEW since \in Nat,
         state = "open" => /\ since = Len(admissions)
                          /\ \A q \in DOMAIN admissions : admissions[q].after # r,
         admissions' = [admissions EXCEPT ![r].work = state, ![r].since = since],
         tasks' = tasks, pipelines' = pipelines, request' = request, answers' = answers
  PROVE  AdmissionMoves
<1>2. PICK x : x = [admissions[r] EXCEPT !.work = state, !.since = since]
  OBVIOUS
<1>3. admissions[r] \in RunRecords
  BY DEF AdmissionInv, RunsInv
<1>4. /\ x \in RunRecords /\ x.work = state /\ x.since = since
      /\ x.key = admissions[r].key /\ x.source = admissions[r].source /\ x.task = admissions[r].task
      /\ x.after = admissions[r].after /\ x.prompt = admissions[r].prompt
      /\ x.wanted = admissions[r].wanted /\ x.digest = admissions[r].digest
  BY <1>2, <1>3 DEF RunRecords
<1>5. admissions' = [admissions EXCEPT ![r] = x]
  BY <1>2 DEF AdmissionInv, RunsInv
<1>6. RunTurned(r, x)
  BY <1>4, <1>5 DEF RunTurned
<1>7. TasksMove /\ RunsMove /\ PipelinesInv'
  BY <1>4, <1>6 DEF TasksMove, RunsMove, AdmissionInv, TasksInv, PipelinesInv
<1> QED BY <1>7, OperatorMoves

LEMMA FinishKept ==
  ASSUME AdmissionInv, NEW r \in DOMAIN admissions, Admit!Finish(r) PROVE AdmissionMoves
<1>1. PICK end \in {"done", "failed"} : admissions' = [admissions EXCEPT ![r].work = end]
  BY DEF Admit!Finish
<1>2. /\ tasks' = tasks /\ pipelines' = pipelines /\ request' = request /\ answers' = answers
  BY DEF Admit!Finish
<1>4. admissions \in Seq(RunRecords) /\ admissions[r] \in RunRecords
  BY DEF AdmissionInv, RunsInv
<1>3. PICK since \in Nat : since = admissions[r].since
  BY <1>4 DEF RunRecords
<1>5. [admissions[r] EXCEPT !.work = end] = [admissions[r] EXCEPT !.work = end, !.since = since]
  BY <1>3, <1>4 DEF RunRecords
<1>6. admissions' = [admissions EXCEPT ![r].work = end, ![r].since = since]
  BY <1>1, <1>4, <1>5
<1> QED BY <1>2, <1>6, TurnKept

LEMMA RetryKept ==
  ASSUME AdmissionInv, NEW r \in DOMAIN admissions, Admit!Retry(r) PROVE AdmissionMoves
<1>1. /\ admissions' = [admissions EXCEPT ![r].work = "open", ![r].since = Len(admissions)]
      /\ tasks' = tasks /\ pipelines' = pipelines /\ request' = request /\ answers' = answers
      /\ \A q \in DOMAIN admissions : admissions[q].after # r
  BY DEF Admit!Retry, Admit!MayGoAgain, Admit!Followed
<1>2. Len(admissions) \in Nat
  BY DEF AdmissionInv, RunsInv
<1> QED BY <1>1, <1>2, TurnKept

LEMMA ReplaceKeyKept ==
  ASSUME AdmissionInv, NEW key \in ProcedureKeys, NEW r \in DOMAIN admissions,
         Admit!Replace(key, r)
  PROVE  AdmissionMoves
<1>0. /\ admissions \in Seq(RunRecords) /\ admissions[r] \in RunRecords /\ r \in Nat
      /\ admissions[r].task \in DOMAIN tasks
  BY DEF AdmissionInv, RunsInv
<1>1. PICK new : new = Admit!NewRun(key, "manual", admissions[r].task, <<"replace", r>>, r,
                                    Admit!NoSubmission)
  OBVIOUS
<1>2. PICK x : x = [new EXCEPT !.prompt = admissions[r].prompt]
  OBVIOUS
<1>3. /\ Admit!RunOf(key) = {} /\ admissions' = Append(admissions, x)
      /\ tasks' = tasks /\ pipelines' = pipelines /\ request' = request /\ answers' = answers
      /\ ~Admit!Open(r) /\ \A q \in DOMAIN admissions : admissions[q].after # r
  BY <1>1, <1>2 DEF Admit!Replace, Admit!MayGoAgain, Admit!Followed
<1>4. /\ new \in RunRecords /\ new.key = key /\ new.task = admissions[r].task
      /\ new.after = r /\ new.wanted = Admit!NoSubmission /\ new.digest = <<"replace", r>>
  <2>1. tasks[admissions[r].task].prompt \in {prompt1, prompt2} /\ admissions[r].task \in Nat
    BY <1>0, TaskFacts DEF TaskRecords
  <2>2. <<"replace", r>> \in Digests /\ key \in RunKeys
    BY <1>0 DEF Digests, RunKeys
  <2>3. Len(admissions) + 1 \in Nat
    BY <1>0
  <2> QED BY <1>0, <1>1, <2>1, <2>2, <2>3 DEF Admit!NewRun, RunRecords
<1>5. /\ x \in RunRecords /\ x.key = key /\ x.task = admissions[r].task /\ x.after = r
      /\ x.wanted = Admit!NoSubmission /\ x.digest = <<"replace", r>>
  BY <1>0, <1>2, <1>4 DEF RunRecords
<1>6. x.digest[1] # "procedure"
  BY <1>5
<1>7. RunAdded(x)
  BY <1>0, <1>3, <1>5, <1>6 DEF RunAdded, RunAsWanted
<1>8. TasksMove /\ RunsMove /\ PipelinesInv'
  BY <1>3, <1>5, <1>7 DEF TasksMove, RunsMove, AdmissionInv, TasksInv, PipelinesInv
<1> QED BY <1>3, <1>8, OperatorMoves

LEMMA TaskEditKept ==
  ASSUME AdmissionInv, NEW t \in DOMAIN tasks,
         \/ Admit!SetTaskArchived(t)
         \/ \E name \in {name1, name2}, prompt \in {prompt1, prompt2},
               pipeline \in DOMAIN pipelines : Admit!UpdateTask(t, name, prompt, pipeline)
  PROVE  AdmissionMoves
<1>0. /\ tasks \in Seq(TaskRecords) /\ tasks[t] \in TaskRecords
      /\ tasks[t].pipeline \in DOMAIN pipelines
      /\ DOMAIN pipelines \subseteq {id, Admit!Critique}
  BY DEF AdmissionInv, TasksInv, PipelinesInv
<1>1. ASSUME NEW x \in TaskRecords, TaskChanged(t, x), pipelines' = pipelines,
             admissions' = admissions, request' = request, answers' = answers
      PROVE  AdmissionMoves
  <2>1. TasksMove /\ RunsMove /\ PipelinesInv'
    BY <1>1 DEF TasksMove, RunsMove, AdmissionInv, PipelinesInv
  <2> QED BY <1>1, <2>1, OperatorMoves
<1>2. CASE Admit!SetTaskArchived(t)
  <2>0. PICK b \in BOOLEAN : b = ~tasks[t].archived
    OBVIOUS
  <2>1. PICK x : x = [tasks[t] EXCEPT !.archived = b]
    OBVIOUS
  <2>2. /\ tasks' = [tasks EXCEPT ![t] = x] /\ pipelines' = pipelines
        /\ admissions' = admissions /\ request' = request /\ answers' = answers
    <3>1. tasks' = [tasks EXCEPT ![t] = [tasks[t] EXCEPT !.archived = ~tasks[t].archived]]
      BY <1>2 DEF Admit!SetTaskArchived
    <3> QED BY <1>2, <2>0, <2>1, <3>1 DEF Admit!SetTaskArchived
  <2>3. /\ x \in TaskRecords /\ x.name = tasks[t].name /\ x.prompt = tasks[t].prompt
        /\ x.by = tasks[t].by /\ x.pipeline = tasks[t].pipeline
    BY <1>0, <2>1 DEF TaskRecords
  <2>4. x.edited = tasks[t].edited
    BY <1>0, <2>1 DEF TaskRecords
  <2>5. x.edited \/ ~tasks[t].edited
    BY <2>4
  <2>6. TaskChanged(t, x)
    BY <1>0, <2>2, <2>3, <2>5, TaskFacts DEF TaskChanged, Admit!Named
  <2> QED BY <1>1, <2>2, <2>3, <2>6
<1>3. ASSUME NEW name \in {name1, name2}, NEW prompt \in {prompt1, prompt2},
             NEW pipeline \in DOMAIN pipelines, Admit!UpdateTask(t, name, prompt, pipeline)
      PROVE  AdmissionMoves
  <2>0. PICK b \in BOOLEAN : b = TRUE
    OBVIOUS
  <2>1. PICK x : x = [tasks[t] EXCEPT !.name = name, !.prompt = prompt, !.pipeline = pipeline,
                                      !.edited = b]
    OBVIOUS
  <2>2. /\ pipelines' = pipelines
        /\ admissions' = admissions /\ request' = request /\ answers' = answers
        /\ Admit!Named(name) \subseteq {t}
    BY <1>3 DEF Admit!UpdateTask
  <2>3. tasks' = [tasks EXCEPT ![t] = x]
    <3>1. tasks' = [tasks EXCEPT ![t].name = name, ![t].prompt = prompt,
                                 ![t].pipeline = pipeline, ![t].edited = TRUE]
      BY <1>3 DEF Admit!UpdateTask
    <3> QED BY <1>0, <2>0, <2>1, <3>1
  <2>4. /\ x \in TaskRecords /\ x.name = name /\ x.by = tasks[t].by /\ x.pipeline = pipeline
        /\ x.edited = b
    BY <1>0, <2>1 DEF TaskRecords
  <2>6. x.edited
    BY <2>0, <2>4
  <2>5. TaskChanged(t, x)
    BY <2>2, <2>3, <2>4, <2>6 DEF TaskChanged
  <2> QED BY <1>1, <2>2, <2>4, <2>5
<1> QED BY <1>2, <1>3

LEMMA PipelineEditKept ==
  ASSUME AdmissionInv,
         \/ Admit!SetFactoryPause
         \/ \E i \in {id}, title \in {"critique", "other"} : Admit!CreatePipeline(i, title)
         \/ \E i \in DOMAIN pipelines : \/ Admit!DeletePipeline(i)
                                        \/ \E title \in {"critique", "other"} :
                                             Admit!UpdatePipeline(i, title)
  PROVE  AdmissionMoves
<1>0. /\ PipelinesInv /\ \A t \in DOMAIN tasks : tasks[t].pipeline \in DOMAIN pipelines
  BY DEF AdmissionInv, TasksInv
<1>1. ASSUME tasks' = tasks, admissions' = admissions, request' = request, answers' = answers,
             PipelinesInv', \A t \in DOMAIN tasks : tasks[t].pipeline \in DOMAIN pipelines'
      PROVE  AdmissionMoves
  BY <1>1, OperatorMoves DEF TasksMove, RunsMove
<1>2. CASE Admit!SetFactoryPause
  BY <1>0, <1>1, <1>2 DEF Admit!SetFactoryPause, PipelinesInv
<1>3. ASSUME NEW title \in {"critique", "other"}, Admit!CreatePipeline(id, title)
      PROVE  AdmissionMoves
  <2>1. /\ pipelines' = [p \in DOMAIN pipelines \cup {id} |->
                           IF p = id THEN [title |-> title, edited |-> TRUE] ELSE pipelines[p]]
        /\ tasks' = tasks /\ admissions' = admissions /\ request' = request /\ answers' = answers
    BY <1>3 DEF Admit!CreatePipeline
  <2>2. PipelinesInv'
    BY <1>0, <2>1 DEF PipelinesInv
  <2> QED BY <1>0, <1>1, <2>1, <2>2
<1>4. ASSUME NEW i \in DOMAIN pipelines, Admit!DeletePipeline(i) PROVE AdmissionMoves
  <2>1. /\ pipelines' = [p \in DOMAIN pipelines \ {i} |-> pipelines[p]]
        /\ i # Admit!Critique /\ \A t \in DOMAIN tasks : tasks[t].pipeline # i
        /\ tasks' = tasks /\ admissions' = admissions /\ request' = request /\ answers' = answers
    BY <1>4 DEF Admit!DeletePipeline, Admit!Restrict
  <2>2. PipelinesInv'
    BY <1>0, <2>1 DEF PipelinesInv
  <2> QED BY <1>0, <1>1, <2>1, <2>2
<1>5. ASSUME NEW i \in DOMAIN pipelines, NEW title \in {"critique", "other"},
             Admit!UpdatePipeline(i, title)
      PROVE  AdmissionMoves
  <2>1. /\ pipelines' = [pipelines EXCEPT ![i] = [title |-> title, edited |-> TRUE]]
        /\ tasks' = tasks /\ admissions' = admissions /\ request' = request /\ answers' = answers
    BY <1>5 DEF Admit!UpdatePipeline
  <2>2. PipelinesInv' /\ DOMAIN pipelines' = DOMAIN pipelines
    BY <1>0, <2>1 DEF PipelinesInv
  <2> QED BY <1>0, <1>1, <2>1, <2>2
<1> QED BY <1>2, <1>3, <1>4, <1>5

LEMMA RestartKept == ASSUME AdmissionInv, Admit!Restart PROVE AdmissionMoves
<1>0. PipelinesInv /\ \A t \in DOMAIN tasks : tasks[t].pipeline \in DOMAIN pipelines
  BY DEF AdmissionInv, TasksInv
<1>1. /\ request' = [c \in Clients |-> Admit!Idle]
      /\ tasks' = tasks /\ admissions' = admissions /\ answers' = answers
      /\ \/ pipelines' = pipelines
         \/ pipelines' = [pipelines EXCEPT ![Admit!Critique] = Admit!Definition]
  BY DEF Admit!Restart
<1>2. PipelinesInv' /\ DOMAIN pipelines' = DOMAIN pipelines
  <2>1. Admit!Definition \in [title : {"critique", "other"}, edited : BOOLEAN]
    BY DEF Admit!Definition, Admit!Critique
  <2> QED BY <1>0, <1>1, <2>1 DEF PipelinesInv
<1>3. TasksMove /\ RunsMove
  BY <1>0, <1>1, <1>2 DEF TasksMove, RunsMove
<1>4. Grows
  BY <1>3, GrowsOn
<1>5. RequestsInv'
  BY <1>1 DEF RequestsInv, Requests, RequestOK, Admit!Idle
<1> QED BY <1>1, <1>2, <1>3, <1>4, <1>5, AnswersStay DEF AdmissionMoves

LEMMA AdmissionStep == ASSUME AdmissionInv, Admit!Next PROVE AdmissionInv'
<1>1. ASSUME NEW c \in Clients, Admit!Steps(c) PROVE AdmissionMoves
  BY <1>1, SubmitKept, ReplayKept, ReadPauseKept, CreateTaskKept, AdoptKept, AdmitTaskKept,
     FailKept DEF Admit!Steps
<1>2. ASSUME Admit!Operations PROVE AdmissionMoves
  <2>1. ASSUME NEW t \in DOMAIN tasks, NEW key \in TaskKeys, Admit!RunTask(key, t)
        PROVE  AdmissionMoves
    BY <2>1, RunTaskKept
  <2>2. ASSUME NEW t \in DOMAIN tasks, NEW key \in ProcedureKeys, NEW rebuild \in BOOLEAN,
               Admit!ProcedureRun(key, t, rebuild)
        PROVE  AdmissionMoves
    BY <2>2, ProcedureRunKept
  <2>3. ASSUME NEW r \in DOMAIN admissions, Admit!Finish(r) PROVE AdmissionMoves
    BY <2>3, FinishKept
  <2>5. ASSUME NEW r \in DOMAIN admissions, Admit!Retry(r) PROVE AdmissionMoves
    BY <2>5, RetryKept
  <2>6. ASSUME NEW r \in DOMAIN admissions, NEW key \in ProcedureKeys, Admit!Replace(key, r)
        PROVE  AdmissionMoves
    BY <2>6, ReplaceKeyKept
  <2>4. ASSUME NEW t \in DOMAIN tasks,
               \/ Admit!SetTaskArchived(t)
               \/ \E name \in {name1, name2}, prompt \in {prompt1, prompt2},
                     pipeline \in DOMAIN pipelines : Admit!UpdateTask(t, name, prompt, pipeline)
        PROVE  AdmissionMoves
    BY <2>4, TaskEditKept
  <2> QED BY <1>2, <2>1, <2>2, <2>3, <2>4, <2>5, <2>6, PipelineEditKept DEF Admit!Operations
<1>3. CASE Admit!Restart
  BY <1>3, RestartKept, AdmissionGoes
<1>4. CASE \E c \in Clients : Admit!Steps(c)
  BY <1>1, <1>4, AdmissionGoes
<1>5. CASE Admit!Operations
  BY <1>2, <1>5, AdmissionGoes
<1> QED BY <1>3, <1>4, <1>5 DEF Admit!Next

LEMMA AdmissionMovesAlone == ASSUME [Next]_vars PROVE [Admit!Next]_(Admit!vars)
BY DEF Next, vars, Deliveries, Planning, Admissions, admitVars, Admit!vars

THEOREM AdmissionSafe == Spec => []AdmissionInv
<1>1. Init => AdmissionInv
  BY AdmissionStart
<1>2. AdmissionInv /\ [Next]_vars => AdmissionInv'
  <2>1. AdmissionInv /\ Admit!Next => AdmissionInv'
    BY AdmissionStep
  <2>2. AdmissionInv /\ UNCHANGED Admit!vars => AdmissionInv'
    <3> SUFFICES ASSUME AdmissionInv, UNCHANGED Admit!vars PROVE AdmissionInv'
      OBVIOUS
    <3>1. /\ tasks' = tasks /\ admissions' = admissions /\ pipelines' = pipelines
          /\ request' = request /\ answers' = answers
      BY DEF Admit!vars
    <3> QED BY <3>1, AtRest, OperatorMoves, AdmissionGoes
  <2> QED BY <2>1, <2>2, AdmissionMovesAlone
<1> QED BY <1>1, <1>2, PTL DEF Spec

\* Duplicates, retries and restarts admit one Run per request key, every answer names
\* it, it runs the submitted prompt unless somebody edited its Task; a Task's Pipeline
\* exists; Work that was rebuilt or replaced is so once and never opens again, and older
\* Work of a Procedure is open beside a rebuild only when it was retried since, however
\* often Work is retried, replaced and rebuilt (AdmitWork, selectProcedurePredecessors,
\* validateWorkRetryGuards).
THEOREM AlwaysAdmittedOnce == Spec => []AdmittedOnce
<1>1. AdmissionInv => AdmittedOnce
  <2> SUFFICES ASSUME AdmissionInv
               PROVE  Admit!OneRunPerKey /\ Admit!PipelinesExist /\ Admit!OneLine
    BY DEF AdmittedOnce
  <2>1. Admit!OneRunPerKey
    BY DEF AdmissionInv, RunsInv, AnswersInv, RunAsWanted, Admit!OneRunPerKey
  <2>2. Admit!PipelinesExist
    BY DEF AdmissionInv, TasksInv, Admit!PipelinesExist
  <2>3. FollowedRests /\ OneFollows /\ OlderRest
    BY DEF AdmissionInv, RunsInv
  <2>4. ASSUME NEW r \in DOMAIN admissions, NEW q \in 1..(r - 1)
        PROVE  q \in DOMAIN admissions /\ q < r
    <3>1. DOMAIN admissions = 1..Len(admissions) /\ Len(admissions) \in Nat
      BY DEF AdmissionInv, RunsInv
    <3> QED BY <3>1
  <2>5. Admit!OneLine
    BY <2>3, <2>4 DEF Admit!OneLine, FollowedRests, OneFollows, OlderRest
  <2> QED BY <2>1, <2>2, <2>5
<1> QED BY <1>1, AdmissionSafe, PTL

\* A submission whose key was admitted before it arrived is never refused, and another
\* one only for what another request or an operator did (AdmitWork's order).
THEOREM AlwaysRefusedForCause == Spec => []RefusedForCause
<1>1. AdmissionInv => RefusedForCause
  <2> SUFFICES ASSUME AdmissionInv, NEW c \in Clients, request[c].step = "refused"
               PROVE  ~request[c].known /\ Cause(request[c])
    BY DEF RefusedForCause, Admit!RefusedForCause, Cause, Edited
  <2> QED BY RequestFacts DEF RequestOK
<1> QED BY <1>1, AdmissionSafe, PTL

-----------------------------------------------------------------------------
(* Planning *)

Highest == MaxNumber + Cardinality(DOMAIN route)
\* The numbers are those of the rows that were created, and each row is one.
RouteInv ==
  /\ route \in [DOMAIN route -> Plan!Rows]
  /\ IsFiniteSet(DOMAIN route) /\ Cardinality(DOMAIN route) <= MaxCheckpoints
  /\ \A n \in DOMAIN route : n \in Nat /\ 1 <= n /\ n <= Highest
PebbleRecords == [number : Nat, slug : {slug1, slug2}, stone : {stone, None},
                  built : BOOLEAN, cites : {text, None}]
SplitInv ==
  /\ stones \subseteq (DOMAIN route) \X {stone}
  /\ pebbles \subseteq PebbleRecords
  /\ \A p \in pebbles : /\ p.number \in DOMAIN route
                        /\ Plan!Closed(p.number) /\ route[p.number].text = p.cites
PassesInv ==
  /\ passes \in Seq([number : Nat, of : Nat \cup {None}])
  /\ \A i \in DOMAIN passes : passes[i].of # None =>
       passes[i].number \in DOMAIN route /\ route[passes[i].number].id = passes[i].of
\* What was closed when its number was listed, or its row read, still has that number;
\* and what was read by that number since is its own.
ReadClosed == reading.row.plan = "closed"
PageInv ==
  /\ reading.step \in {"idle", "row", "stones", "pebbles", "passes", "card"}
  /\ reading.step = "row" /\ reading.listed # None =>
       Plan!Closed(reading.number) /\ route[reading.number].id = reading.listed
  /\ reading.step \in {"stones", "pebbles", "passes", "card"} /\ reading.listed # None =>
       reading.row.id = reading.listed /\ ReadClosed
  /\ reading.step \in {"stones", "pebbles", "passes"} /\ ReadClosed =>
       /\ Plan!Closed(reading.number) /\ route[reading.number].id = reading.row.id
       /\ route[reading.number].text = reading.row.text
  /\ reading.step \in {"passes", "card"} /\ ReadClosed =>
       \A p \in reading.pebbles : p.cites = reading.row.text
  /\ reading.step = "card" /\ ReadClosed =>
       reading.passes \subseteq {reading.row.id, None}
PlanningInv == RouteInv /\ SplitInv /\ PassesInv /\ PageInv

LEMMA PlanningConstantsHold ==
  /\ MaxNumber \in Nat \ {0} /\ MaxCheckpoints \in Nat /\ MaxPasses \in Nat
  /\ None \notin {text, stone}
BY Constants DEF Constants, Plan!PlanningConstants

LEMMA SplitFacts ==
  \A split \in Splits : /\ split.kept \subseteq {stone}
                        /\ DOMAIN split.chosen \subseteq {slug1, slug2}
                        /\ \A s \in DOMAIN split.chosen :
                             split.chosen[s] \in {stone, None}
<1> SUFFICES ASSUME NEW split \in Splits
             PROVE  /\ split.kept \subseteq {stone}
                    /\ DOMAIN split.chosen \subseteq {slug1, slug2}
                    /\ \A s \in DOMAIN split.chosen :
                         split.chosen[s] \in {stone, None}
  OBVIOUS
<1>1. split \in Plan!AllSplits
  BY Constants DEF Constants, Plan!SplitsAreValid
<1>2. PICK P \in SUBSET {slug1, slug2}, S \in SUBSET {stone} : split \in Plan!SplitsInto(P, S)
  BY <1>1 DEF Plan!AllSplits
<1>3. split.kept = S /\ split.chosen \in [P -> S \cup {None}]
  BY <1>2 DEF Plan!SplitsInto
<1> QED BY <1>3

LEMMA PlanningCardinality == ASSUME NEW S PROVE Plan!Cardinality(S) = Cardinality(S)
BY DEF Plan!Cardinality, Cardinality

LEMMA PlanningStart == Init => PlanningInv
<1> SUFFICES ASSUME Init PROVE PlanningInv
  OBVIOUS
<1>1. route = <<>> /\ stones = {} /\ pebbles = {} /\ passes = <<>> /\ reading = Plan!Idle
  BY DEF Init, Plan!Init
<1>2. DOMAIN route = {} /\ IsFiniteSet({}) /\ Cardinality({}) = 0
  BY <1>1, FS_EmptySet
<1>3. RouteInv
  <2>1. route \in [DOMAIN route -> Plan!Rows]
    BY <1>1
  <2> QED BY <1>2, <2>1, PlanningConstantsHold DEF RouteInv
<1>4. SplitInv /\ PassesInv
  BY <1>1 DEF SplitInv, PassesInv
<1>5. PageInv
  BY <1>1 DEF PageInv, Plan!Idle
<1> QED BY <1>3, <1>4, <1>5 DEF PlanningInv

\* The last number of the route.
LEMMA HighestIs ==
  ASSUME RouteInv
  PROVE  /\ Plan!Highest \in Nat
         /\ \A m \in DOMAIN route : m <= Plan!Highest
         /\ Plan!Highest <= Highest
<1>0. /\ DOMAIN route \subseteq Nat /\ IsFiniteSet(DOMAIN route) /\ Cardinality(DOMAIN route) \in Nat
      /\ \A n \in DOMAIN route : n <= Highest
      /\ MaxNumber \in Nat
  BY PlanningConstantsHold, FS_CardinalityType DEF RouteInv
<1>1. CASE DOMAIN route = {}
  BY <1>0, <1>1 DEF Plan!Highest, Highest
<1>2. CASE DOMAIN route # {}
  <2>1. PICK x \in DOMAIN route : \A t \in DOMAIN route : ~ (t > x)
    BY <1>0, <1>2, HighestExists
  <2>2. \A m \in DOMAIN route : m <= x
    BY <1>0, <2>1
  <2> DEFINE c == CHOOSE n \in DOMAIN route : \A m \in DOMAIN route : m <= n
  <2>3. c \in DOMAIN route /\ \A m \in DOMAIN route : m <= c
    BY <2>2
  <2>4. Plan!Highest = c
    BY <1>2 DEF Plan!Highest
  <2> HIDE DEF c
  <2> QED BY <1>0, <2>3, <2>4
<1> QED BY <1>1, <1>2

\* What a step must show: the route and what cites it, before and after.
FrozenStands ==
  \A n \in DOMAIN route : Plan!Closed(n) =>
    /\ n \in DOMAIN route' /\ route'[n].id = route[n].id
    /\ route'[n].text = route[n].text
    /\ route'[n].status \in {"frozen", "built"}
    /\ route[n].status = "built" => route'[n].status = "built"
PlanningMoves == RouteInv' /\ SplitInv' /\ PassesInv' /\ FrozenStands

\* A row that keeps its number keeps what cites it when it was closed.
LEMMA CitationsStay ==
  ASSUME PlanningInv, FrozenStands, stones' = stones, pebbles' = pebbles,
         DOMAIN route \subseteq DOMAIN route'
  PROVE  SplitInv'
<1>1. ASSUME NEW p \in pebbles
      PROVE  /\ p.number \in DOMAIN route'
             /\ Plan!Closed(p.number)' /\ route'[p.number].text = p.cites
  <2>1. /\ p.number \in DOMAIN route /\ Plan!Closed(p.number)
        /\ route[p.number].text = p.cites
    BY DEF PlanningInv, SplitInv
  <2> QED BY <2>1 DEF FrozenStands, Plan!Closed, Plan!ClosedStatuses
<1> QED BY <1>1 DEF PlanningInv, SplitInv
LEMMA PassesStay ==
  ASSUME PlanningInv, passes' = passes, DOMAIN route \subseteq DOMAIN route',
         \A n \in DOMAIN route : route'[n].id = route[n].id
  PROVE  PassesInv'
BY DEF PlanningInv, PassesInv

LEMMA RouteSame ==
  ASSUME PlanningInv, route' = route PROVE RouteInv' /\ FrozenStands
<1>1. RouteInv'
  BY DEF PlanningInv, RouteInv, Highest
<1> QED BY <1>1 DEF PlanningInv, FrozenStands, Plan!Closed, Plan!ClosedStatuses

LEMMA UpsertKept ==
  ASSUME PlanningInv, NEW n \in Plan!Numbers, Plan!UpsertCheckpoint(n, text)
  PROVE  PlanningMoves
<1>0. /\ route \in [DOMAIN route -> Plan!Rows] /\ n \in Nat /\ 1 <= n /\ n <= MaxNumber
      /\ IsFiniteSet(DOMAIN route) /\ Cardinality(DOMAIN route) <= MaxCheckpoints
      /\ Cardinality(DOMAIN route) \in Nat /\ MaxNumber \in Nat
      /\ \A m \in DOMAIN route : m \in Nat /\ 1 <= m /\ m <= Highest
  BY PlanningConstantsHold, FS_CardinalityType DEF PlanningInv, RouteInv, Plan!Numbers
<1>1. /\ ~Plan!Closed(n) /\ stones' = stones /\ pebbles' = pebbles /\ passes' = passes
      /\ n \in DOMAIN route \/ Cardinality(DOMAIN route) < MaxCheckpoints
      /\ route' = IF n \in DOMAIN route THEN [route EXCEPT ![n].text = text]
                  ELSE [m \in DOMAIN route \cup {n} |->
                          IF m = n THEN Plan!NewRow(text) ELSE route[m]]
  BY PlanningCardinality DEF Plan!UpsertCheckpoint
<1>2. CASE n \in DOMAIN route
  <2>1. PICK x \in Plan!Rows : x = [route[n] EXCEPT !.text = text]
    BY <1>0, <1>2 DEF Plan!Rows
  <2>2. route' = [route EXCEPT ![n] = x] /\ x.id = route[n].id
    BY <1>0, <1>1, <1>2, <2>1 DEF Plan!Rows
  <2>3. DOMAIN route' = DOMAIN route /\ \A m \in DOMAIN route : m # n => route'[m] = route[m]
    BY <1>0, <2>2
  <2>4. RouteInv'
    <3>1. route' \in [DOMAIN route' -> Plan!Rows]
      BY <1>0, <2>2, <2>3
    <3> QED BY <1>0, <2>3, <3>1 DEF RouteInv, Highest
  <2>5. FrozenStands
    BY <1>1, <2>3 DEF FrozenStands, Plan!Closed, Plan!ClosedStatuses
  <2>6. \A m \in DOMAIN route : route'[m].id = route[m].id
    BY <1>0, <1>2, <2>2
  <2> QED BY <1>1, <2>3, <2>4, <2>5, <2>6, CitationsStay, PassesStay DEF PlanningMoves
<1>3. CASE n \notin DOMAIN route
  <2>1. PICK x : x = Plan!NewRow(text)
    OBVIOUS
  <2>2. x \in Plan!Rows
    BY <1>0, <2>1, PlanningCardinality DEF Plan!NewRow, Plan!Rows, Plan!Statuses
  <2>3. /\ DOMAIN route' = DOMAIN route \cup {n} /\ route'[n] = x
        /\ \A m \in DOMAIN route : route'[m] = route[m]
    BY <1>1, <1>3, <2>1
  <2>4. /\ IsFiniteSet(DOMAIN route')
        /\ Cardinality(DOMAIN route') = Cardinality(DOMAIN route) + 1
    BY <1>0, <1>3, <2>3, FS_AddElement
  <2>5. RouteInv'
    <3>1. route' \in [DOMAIN route' -> Plan!Rows]
      <4>1. \A m \in DOMAIN route' : route'[m] \in Plan!Rows
        BY <1>0, <2>2, <2>3
      <4> QED BY <1>1, <1>3, <4>1
    <3>2. \A m \in DOMAIN route' : m \in Nat /\ 1 <= m /\ m <= Highest'
      BY <1>0, <2>3, <2>4 DEF Highest
    <3>3. Cardinality(DOMAIN route') <= MaxCheckpoints
      BY <1>0, <1>1, <1>3, <2>4, PlanningConstantsHold
    <3> QED BY <2>4, <3>1, <3>2, <3>3 DEF RouteInv
  <2>6. FrozenStands
    BY <2>3 DEF FrozenStands, Plan!Closed, Plan!ClosedStatuses
  <2> QED BY <1>1, <2>3, <2>5, <2>6, CitationsStay, PassesStay DEF PlanningMoves
<1> QED BY <1>2, <1>3

LEMMA TransitionKept ==
  ASSUME PlanningInv, NEW n \in DOMAIN route, NEW status \in Plan!Statuses,
         Plan!TransitionCheckpoint(n, status)
  PROVE  PlanningMoves
<1>0. route \in [DOMAIN route -> Plan!Rows] /\ RouteInv
  BY DEF PlanningInv, RouteInv
<1>1. /\ stones' = stones /\ pebbles' = pebbles /\ passes' = passes
      /\ route' = [route EXCEPT ![n].status = status]
      /\ <<route[n].status, status>> \in Plan!Transitions
  BY DEF Plan!TransitionCheckpoint
<1>2. PICK x \in Plan!Rows : x = [route[n] EXCEPT !.status = status]
  BY <1>0 DEF Plan!Rows
<1>3. /\ route' = [route EXCEPT ![n] = x] /\ x.id = route[n].id /\ x.text = route[n].text
      /\ x.status = status
  BY <1>0, <1>1, <1>2 DEF Plan!Rows
<1>4. /\ DOMAIN route' = DOMAIN route /\ route'[n] = x
      /\ \A m \in DOMAIN route : m # n => route'[m] = route[m]
  BY <1>0, <1>3
<1>5. RouteInv'
  <2>1. route' \in [DOMAIN route' -> Plan!Rows]
    BY <1>0, <1>3, <1>4
  <2> QED BY <1>0, <1>4, <2>1 DEF RouteInv, Highest
<1>6. FrozenStands
  <2>1. ASSUME Plan!Closed(n)
        PROVE  x.status \in {"frozen", "built"} /\ (route[n].status = "built" => x.status = "built")
    BY <1>1, <1>3, <2>1 DEF Plan!Closed, Plan!ClosedStatuses, Plan!Transitions
  <2> QED BY <1>3, <1>4, <2>1 DEF FrozenStands, Plan!Closed, Plan!ClosedStatuses
<1>7. \A m \in DOMAIN route : route'[m].id = route[m].id
  BY <1>3, <1>4
<1> QED BY <1>1, <1>4, <1>5, <1>6, <1>7, CitationsStay, PassesStay DEF PlanningMoves

\* Making room at n moves every later number up by one and forgets none.
LEMMA ShiftedIs ==
  ASSUME NEW n \in Nat, NEW m \in Nat
  PROVE  /\ Plan!Shifted(n, m) \in Nat /\ Plan!Shifted(n, m) # n
         /\ m <= Plan!Shifted(n, m) /\ Plan!Shifted(n, m) <= m + 1
         /\ m < n => Plan!Shifted(n, m) = m
         /\ m >= n => Plan!Shifted(n, m) = m + 1
         /\ \A k \in Nat : Plan!Shifted(n, m) = Plan!Shifted(n, k) => m = k
BY DEF Plan!Shifted

LEMMA InsertKept ==
  ASSUME PlanningInv, NEW n \in 1..(Plan!Highest + 1), Plan!InsertCheckpoint(n)
  PROVE  PlanningMoves
<1> DEFINE S(m) == Plan!Shifted(n, m)
           D == {S(k) : k \in DOMAIN route}
<1>0. /\ route \in [DOMAIN route -> Plan!Rows]
      /\ IsFiniteSet(DOMAIN route) /\ Cardinality(DOMAIN route) \in Nat
      /\ \A m \in DOMAIN route : m \in Nat /\ 1 <= m /\ m <= Highest
      /\ MaxNumber \in Nat /\ MaxCheckpoints \in Nat /\ RouteInv
  BY PlanningConstantsHold, FS_CardinalityType DEF PlanningInv, RouteInv
<1>n. n \in Nat /\ 1 <= n /\ n <= Highest + 1
  BY <1>0, HighestIs DEF Highest
<1>1. /\ \A m \in DOMAIN route : m >= n => ~Plan!Closed(m)
      /\ Cardinality(DOMAIN route) < MaxCheckpoints
      /\ stones' = {<<S(s[1]), s[2]>> : s \in stones}
      /\ pebbles' = {[p EXCEPT !.number = S(p.number)] : p \in pebbles}
      /\ passes' = [i \in DOMAIN passes |-> [passes[i] EXCEPT !.number = S(passes[i].number)]]
  BY PlanningCardinality DEF Plan!InsertCheckpoint
<1>r. route' = [m \in {n} \cup D |-> IF m = n THEN Plan!NewRow(None)
                                     ELSE IF m > n THEN route[m - 1] ELSE route[m]]
  BY DEF Plan!InsertCheckpoint
<1>2. \A m \in DOMAIN route : /\ S(m) \in DOMAIN route' /\ S(m) # n
                              /\ route'[S(m)] = route[m]
  <2>1. ASSUME NEW m \in DOMAIN route
        PROVE  S(m) \in DOMAIN route' /\ S(m) # n /\ route'[S(m)] = route[m]
    <3>1. m \in Nat /\ S(m) \in D
      BY <1>0
    <3>2. S(m) # n /\ S(m) \in Nat
      BY <1>n, <3>1, ShiftedIs
    <3>3. CASE m >= n
      <4>1. S(m) = m + 1
        BY <1>n, <3>1, <3>3 DEF Plan!Shifted
      <4>2. m + 1 > n /\ (m + 1) - 1 = m
        BY <1>n, <3>1, <3>3
      <4> HIDE DEF S, D
      <4> QED BY <1>r, <3>1, <3>2, <4>1, <4>2
    <3>4. CASE m < n
      <4>1. S(m) = m /\ ~ (m > n)
        BY <1>n, <3>1, <3>4, ShiftedIs
      <4> HIDE DEF S, D
      <4> QED BY <1>r, <3>1, <3>2, <4>1
    <3> QED BY <1>n, <3>1, <3>3, <3>4
  <2> QED BY <2>1
<1>3. /\ DOMAIN route' = {n} \cup D /\ n \notin D /\ route'[n] = Plan!NewRow(None)
  <2>1. n \notin D
    BY <1>2
  <2> HIDE DEF S, D
  <2> QED BY <1>r, <2>1
<1>4. RouteInv'
  <2>1. route' \in [DOMAIN route' -> Plan!Rows]
    <3>1. Plan!NewRow(None) \in Plan!Rows
      BY <1>0, PlanningCardinality DEF Plan!NewRow, Plan!Rows, Plan!Statuses
    <3>2. \A x \in DOMAIN route' : route'[x] \in Plan!Rows
      BY <1>0, <1>2, <1>3, <3>1
    <3>3. route' = [x \in DOMAIN route' |-> route'[x]]
      BY <1>r
    <3> QED BY <3>2, <3>3
  <2>2. IsFiniteSet(D) /\ Cardinality(D) = Cardinality(DOMAIN route)
    <3> DEFINE f == [m \in DOMAIN route |-> S(m)]
    <3>1. f \in Bijection(DOMAIN route, D)
      <4>1. ASSUME NEW a \in DOMAIN route, NEW b \in DOMAIN route, f[a] = f[b] PROVE a = b
        <5>1. a \in Nat /\ b \in Nat /\ Plan!Shifted(n, a) = Plan!Shifted(n, b)
          BY <1>0, <4>1
        <5> QED BY <1>n, <5>1, ShiftedIs
      <4>2. f \in [DOMAIN route -> D] /\ \A d \in D : \E m \in DOMAIN route : f[m] = d
        OBVIOUS
      <4> HIDE DEF f, D
      <4>3. f \in Injection(DOMAIN route, D)
        BY <4>1, <4>2 DEF Injection, IsInjective
      <4>4. f \in Surjection(DOMAIN route, D)
        BY <4>2 DEF Surjection
      <4> QED BY <4>3, <4>4 DEF Bijection
    <3> HIDE DEF f, D
    <3>2. ExistsBijection(DOMAIN route, D)
      BY <3>1 DEF ExistsBijection
    <3> QED BY <1>0, <3>2, FS_Bijection
  <2>3. /\ IsFiniteSet(DOMAIN route')
        /\ Cardinality(DOMAIN route') = Cardinality(DOMAIN route) + 1
    BY <1>3, <2>2, FS_AddElement
  <2>4. \A x \in DOMAIN route' : x \in Nat /\ 1 <= x /\ x <= Highest'
    <3>1. Highest' = Highest + 1 /\ Highest \in Nat
      BY <1>0, <2>3 DEF Highest
    <3>2. ASSUME NEW m \in DOMAIN route PROVE S(m) \in Nat /\ 1 <= S(m) /\ S(m) <= Highest + 1
      <4>1. S(m) \in Nat /\ m <= S(m) /\ S(m) <= m + 1
        BY <1>0, <1>n, ShiftedIs
      <4> HIDE DEF S
      <4> QED BY <1>0, <3>1, <4>1
    <3> HIDE DEF S
    <3> QED BY <1>3, <1>n, <3>1, <3>2
  <2>5. Cardinality(DOMAIN route') <= MaxCheckpoints
    BY <1>0, <1>1, <2>3
  <2> QED BY <2>1, <2>3, <2>4, <2>5 DEF RouteInv
<1>5. \A m \in DOMAIN route : Plan!Closed(m) => S(m) = m
  BY <1>0, <1>1, <1>n, ShiftedIs
<1>6. FrozenStands
  <2> HIDE DEF S
  <2> QED BY <1>2, <1>5 DEF FrozenStands, Plan!Closed, Plan!ClosedStatuses
<1>7. SplitInv'
  <2>1. stones' \subseteq (DOMAIN route') \X {stone}
    <3>1. ASSUME NEW s \in stones PROVE <<S(s[1]), s[2]>> \in (DOMAIN route') \X {stone}
      <4>1. s[1] \in DOMAIN route /\ s[2] \in {stone}
        BY DEF PlanningInv, SplitInv
      <4> HIDE DEF S
      <4> QED BY <1>2, <4>1
    <3> HIDE DEF S
    <3> QED BY <1>1, <3>1
  <2>2. ASSUME NEW x \in pebbles'
        PROVE  /\ x \in PebbleRecords /\ x.number \in DOMAIN route'
               /\ Plan!Closed(x.number)' /\ route'[x.number].text = x.cites
    <3>1. PICK p \in pebbles : x = [p EXCEPT !.number = S(p.number)]
      BY <1>1
    <3>2. /\ p \in PebbleRecords /\ p.number \in DOMAIN route /\ Plan!Closed(p.number)
          /\ route[p.number].text = p.cites
      BY DEF PlanningInv, SplitInv
    <3>3. S(p.number) = p.number
      BY <1>5, <3>2
    <3>4. x = p
      <4> HIDE DEF S
      <4> QED BY <3>1, <3>2, <3>3 DEF PebbleRecords
    <3>5. /\ p.number \in DOMAIN route' /\ route'[p.number] = route[p.number]
      <4> HIDE DEF S
      <4> QED BY <1>2, <3>2, <3>3
    <3> QED BY <3>2, <3>4, <3>5 DEF Plan!Closed, Plan!ClosedStatuses
  <2> QED BY <2>1, <2>2 DEF SplitInv
<1>8. PassesInv'
  <2>0. /\ passes \in Seq([number : Nat, of : Nat \cup {None}])
        /\ \A i \in DOMAIN passes : passes[i].of # None =>
             passes[i].number \in DOMAIN route /\ route[passes[i].number].id = passes[i].of
    BY DEF PlanningInv, PassesInv
  <2>1. ASSUME NEW i \in DOMAIN passes
        PROVE  /\ passes'[i] \in [number : Nat, of : Nat \cup {None}]
               /\ passes'[i].number = S(passes[i].number) /\ passes'[i].of = passes[i].of
    <3>1. passes[i] \in [number : Nat, of : Nat \cup {None}]
      <4> DEFINE R == [number : Nat, of : Nat \cup {None}]
      <4>1. passes \in Seq(R)
        BY <2>0
      <4> HIDE DEF R
      <4>2. passes[i] \in R
        BY <4>1
      <4> QED BY <4>2 DEF R
    <3>2. S(passes[i].number) \in Nat
      BY <1>n, <3>1, ShiftedIs
    <3>3. passes'[i] = [passes[i] EXCEPT !.number = S(passes[i].number)]
      BY <1>1
    <3> HIDE DEF S
    <3> QED BY <3>1, <3>2, <3>3
  <2>2. DOMAIN passes' = DOMAIN passes
    BY <1>1
  <2>3. passes' \in Seq([number : Nat, of : Nat \cup {None}])
    <3> DEFINE R == [number : Nat, of : Nat \cup {None}]
    <3>1. Len(passes) \in Nat /\ DOMAIN passes = 1..Len(passes)
      BY <2>0
    <3>2. passes' = [i \in 1..Len(passes) |-> passes'[i]]
      BY <1>1, <3>1
    <3>4. \A i \in 1..Len(passes) : passes'[i] \in R
      BY <2>1, <3>1
    <3> HIDE DEF R
    <3>3. passes' \in [1..Len(passes) -> R]
      BY <3>2, <3>4
    <3>5. passes' \in Seq(R)
      BY <3>1, <3>3
    <3> QED BY <3>5 DEF R
  <2> HIDE DEF S
  <2> QED BY <1>2, <2>0, <2>1, <2>2, <2>3 DEF PassesInv
<1> QED BY <1>4, <1>6, <1>7, <1>8 DEF PlanningMoves

LEMMA ReplaceKept ==
  ASSUME PlanningInv, NEW n \in DOMAIN route, NEW split \in Splits, Plan!ReplacePebbles(n, split)
  PROVE  PlanningMoves
<1>1. /\ route' = route /\ passes' = passes /\ route[n].status = "frozen"
      /\ stones' = {s \in stones : s[1] # n} \cup ({n} \X split.kept)
      /\ pebbles' = {p \in pebbles : p.number # n} \cup
           {[number |-> n, slug |-> slug, stone |-> split.chosen[slug],
             built |-> FALSE, cites |-> route[n].text] :
            slug \in DOMAIN split.chosen}
  BY DEF Plan!ReplacePebbles
<1>2. RouteInv' /\ FrozenStands
  BY <1>1, RouteSame
<1>3. stones' \subseteq (DOMAIN route') \X {stone}
  BY <1>1, SplitFacts DEF PlanningInv, SplitInv
<1>4. ASSUME NEW p \in pebbles'
      PROVE  /\ p \in PebbleRecords /\ p.number \in DOMAIN route
             /\ Plan!Closed(p.number) /\ route[p.number].text = p.cites
  <2>1. CASE p \in pebbles
    BY <2>1 DEF PlanningInv, SplitInv
  <2>2. CASE p \notin pebbles
    <3>1. PICK slug \in DOMAIN split.chosen :
            p = [number |-> n, slug |-> slug, stone |-> split.chosen[slug],
                 built |-> FALSE, cites |-> route[n].text]
      BY <1>1, <2>2
    <3>2. n \in Nat /\ route[n].text \in {text, None}
      BY DEF PlanningInv, RouteInv, Plan!Rows
    <3>3. p \in PebbleRecords
      <4>1. slug \in {slug1, slug2}
        BY SplitFacts
      <4>2. split.chosen[slug] \in {stone, None}
        BY SplitFacts
      <4>3. PICK b \in BOOLEAN : b = FALSE
        OBVIOUS
      <4>4. [number |-> n, slug |-> slug, stone |-> split.chosen[slug],
             built |-> b, cites |-> route[n].text] \in PebbleRecords
        BY <3>2, <4>1, <4>2 DEF PebbleRecords
      <4> QED BY <3>1, <4>3, <4>4
    <3> QED BY <1>1, <3>1, <3>3 DEF Plan!Closed, Plan!ClosedStatuses
  <2> QED BY <2>1, <2>2
<1>5. SplitInv'
  BY <1>1, <1>3, <1>4 DEF SplitInv, Plan!Closed, Plan!ClosedStatuses
<1> QED BY <1>1, <1>2, <1>5, PassesStay DEF PlanningMoves

LEMMA MarkKept ==
  ASSUME PlanningInv, NEW p \in pebbles, Plan!MarkPebbleBuilt(p) PROVE PlanningMoves
<1>1. /\ route' = route /\ passes' = passes /\ stones' = stones
      /\ pebbles' = (pebbles \ {p}) \cup {[p EXCEPT !.built = TRUE]}
  BY DEF Plan!MarkPebbleBuilt
<1>2. RouteInv' /\ FrozenStands
  BY <1>1, RouteSame
<1>3. PICK x : x = [p EXCEPT !.built = TRUE]
  OBVIOUS
<1>4. /\ p \in PebbleRecords /\ p.number \in DOMAIN route /\ Plan!Closed(p.number)
      /\ route[p.number].text = p.cites
  BY DEF PlanningInv, SplitInv
<1>5. x \in PebbleRecords /\ x.number = p.number /\ x.cites = p.cites
  <2>1. PICK b \in BOOLEAN : b = TRUE
    OBVIOUS
  <2>2. x = [p EXCEPT !.built = b]
    BY <1>3, <2>1
  <2> QED BY <1>4, <2>2 DEF PebbleRecords
<1>6. SplitInv'
  BY <1>1, <1>3, <1>4, <1>5 DEF PlanningInv, SplitInv, Plan!Closed, Plan!ClosedStatuses
<1> QED BY <1>1, <1>2, <1>6, PassesStay DEF PlanningMoves

LEMMA AdmitPassKept ==
  ASSUME PlanningInv, NEW n \in Plan!Numbers, Plan!AdmitPass(n) PROVE PlanningMoves
<1> DEFINE R == [number : Nat, of : Nat \cup {None}]
<1>0. /\ route \in [DOMAIN route -> Plan!Rows] /\ n \in Nat /\ passes \in Seq(R)
  BY PlanningConstantsHold DEF PlanningInv, RouteInv, PassesInv, Plan!Numbers
<1>1. PICK x : x = [number |-> n, of |-> IF n \in DOMAIN route THEN route[n].id ELSE None]
  OBVIOUS
<1>2. /\ passes' = Append(passes, x)
      /\ route' = route /\ stones' = stones /\ pebbles' = pebbles
  BY <1>1 DEF Plan!AdmitPass
<1>3. /\ x \in R
      /\ x.of # None => x.number \in DOMAIN route /\ route[x.number].id = x.of
  BY <1>0, <1>1 DEF Plan!Rows
<1>4. /\ passes' \in Seq(R) /\ DOMAIN passes' = DOMAIN passes \cup {Len(passes) + 1}
      /\ \A i \in DOMAIN passes : passes'[i] = passes[i]
      /\ passes'[Len(passes) + 1] = x
  BY <1>0, <1>2, <1>3, Appended
<1>5. PassesInv'
  BY <1>2, <1>3, <1>4 DEF PlanningInv, PassesInv
<1> QED BY <1>2, <1>5, RouteSame, CitationsStay DEF PlanningMoves

LEMMA PageStays == ASSUME PlanningInv, FrozenStands, reading' = reading PROVE PageInv'
<1>1. ASSUME Plan!Closed(reading.number)
      PROVE  /\ Plan!Closed(reading.number)'
             /\ route'[reading.number].id = route[reading.number].id
             /\ route'[reading.number].text = route[reading.number].text
  BY <1>1 DEF FrozenStands, Plan!Closed, Plan!ClosedStatuses
<1> QED BY <1>1 DEF PlanningInv, PageInv, ReadClosed

LEMMA ReadKept ==
  ASSUME PlanningInv,
         \/ \E n \in DOMAIN route : Plan!ListNumbers(n)
         \/ Plan!ReadRow \/ Plan!ReadStones \/ Plan!ReadPebbles \/ Plan!ReadPasses
         \/ Plan!SendPage
  PROVE  PageInv' /\ PlanningMoves
<1>1. route' = route /\ stones' = stones /\ pebbles' = pebbles /\ passes' = passes
  BY DEF Plan!ListNumbers, Plan!ReadRow, Plan!ReadStones, Plan!ReadPebbles,
         Plan!ReadPasses, Plan!SendPage
<1>2. PlanningMoves
  BY <1>1, RouteSame, CitationsStay, PassesStay DEF PlanningMoves
<1>0. PageInv
  BY DEF PlanningInv
<1>3. ASSUME NEW n \in DOMAIN route, Plan!ListNumbers(n) PROVE PageInv'
  BY <1>1, <1>3 DEF Plan!ListNumbers, PageInv, Plan!Closed
<1>4. CASE Plan!ReadRow
  <2>1. CASE reading' = Plan!Idle
    BY <1>2, <2>1 DEF PageInv, Plan!Idle
  <2>2. CASE reading' # Plan!Idle
    <3>1. /\ reading.step = "row" /\ reading.number \in DOMAIN route
          /\ reading' = [step |-> "stones", number |-> reading.number,
                         listed |-> reading.listed, row |-> Plan!Seen(reading.number)]
      BY <1>4, <2>2 DEF Plan!ReadRow
    <3> QED BY <1>0, <1>1, <1>2, <3>1 DEF PageInv, ReadClosed, Plan!Closed, Plan!Seen
  <2> QED BY <2>1, <2>2
<1>5. CASE Plan!ReadStones
  <2>1. /\ reading'.step = "pebbles" /\ reading'.number = reading.number
        /\ reading'.listed = reading.listed /\ reading'.row = reading.row
        /\ reading.step = "stones"
    BY <1>5 DEF Plan!ReadStones
  <2> QED BY <1>0, <1>1, <1>2, <2>1 DEF PageInv, ReadClosed, Plan!Closed
<1>6. CASE Plan!ReadPebbles
  <2>1. /\ reading'.step = "passes" /\ reading'.number = reading.number
        /\ reading'.listed = reading.listed /\ reading'.row = reading.row
        /\ reading'.pebbles = {p \in pebbles : p.number = reading.number}
        /\ reading.step = "pebbles"
    BY <1>6 DEF Plan!ReadPebbles
  <2>2. ASSUME ReadClosed, NEW p \in reading'.pebbles PROVE p.cites = reading.row.text
    BY <1>0, <2>1, <2>2 DEF PageInv, PlanningInv, SplitInv
  <2> QED BY <1>0, <1>1, <1>2, <2>1, <2>2 DEF PageInv, ReadClosed, Plan!Closed
<1>7. CASE Plan!ReadPasses
  <2>1. /\ reading'.step = "card" /\ reading'.number = reading.number
        /\ reading'.listed = reading.listed /\ reading'.row = reading.row
        /\ reading'.pebbles = reading.pebbles
        /\ reading'.passes = {passes[i].of : i \in {j \in DOMAIN passes :
                                                   passes[j].number = reading.number}}
        /\ reading.step = "passes"
    BY <1>7 DEF Plan!ReadPasses
  <2>2. ASSUME ReadClosed PROVE reading'.passes \subseteq {reading.row.id, None}
    <3>1. ASSUME NEW i \in DOMAIN passes, passes[i].number = reading.number
          PROVE  passes[i].of \in {reading.row.id, None}
      BY <1>0, <2>1, <2>2, <3>1 DEF PageInv, PlanningInv, PassesInv
    <3> QED BY <2>1, <3>1
  <2> QED BY <1>0, <1>1, <1>2, <2>1, <2>2 DEF PageInv, ReadClosed, Plan!Closed
<1>8. CASE Plan!SendPage
  BY <1>2, <1>8 DEF Plan!SendPage, PageInv, Plan!Idle
<1> QED BY <1>2, <1>3, <1>4, <1>5, <1>6, <1>7, <1>8

LEMMA PlanningStep ==
  ASSUME PlanningInv, Plan!Next PROVE PlanningInv' /\ FrozenStands
<1>1. ASSUME Plan!Writes PROVE PlanningMoves /\ reading' = reading
  <2>1. ASSUME NEW n \in Plan!Numbers, Plan!UpsertCheckpoint(n, text)
        PROVE  PlanningMoves /\ reading' = reading
    BY <2>1, UpsertKept DEF Plan!UpsertCheckpoint
  <2>2. ASSUME NEW n \in 1..(Plan!Highest + 1), Plan!InsertCheckpoint(n)
        PROVE  PlanningMoves /\ reading' = reading
    BY <2>2, InsertKept DEF Plan!InsertCheckpoint
  <2>3. ASSUME NEW n \in DOMAIN route, NEW status \in Plan!Statuses,
               Plan!TransitionCheckpoint(n, status)
        PROVE  PlanningMoves /\ reading' = reading
    BY <2>3, TransitionKept DEF Plan!TransitionCheckpoint
  <2>4. ASSUME NEW n \in DOMAIN route, NEW split \in Splits, Plan!ReplacePebbles(n, split)
        PROVE  PlanningMoves /\ reading' = reading
    BY <2>4, ReplaceKept DEF Plan!ReplacePebbles
  <2>5. ASSUME NEW p \in pebbles, Plan!MarkPebbleBuilt(p)
        PROVE  PlanningMoves /\ reading' = reading
    BY <2>5, MarkKept DEF Plan!MarkPebbleBuilt
  <2>6. ASSUME NEW n \in Plan!Numbers, Plan!AdmitPass(n)
        PROVE  PlanningMoves /\ reading' = reading
    BY <2>6, AdmitPassKept DEF Plan!AdmitPass
  <2> QED BY <1>1, <2>1, <2>2, <2>3, <2>4, <2>5, <2>6 DEF Plan!Writes
<1>2. CASE Plan!Writes
  BY <1>1, <1>2, PageStays DEF PlanningMoves, PlanningInv
<1>3. CASE \/ \E n \in DOMAIN route : Plan!ListNumbers(n)
           \/ Plan!ReadRow \/ Plan!ReadStones \/ Plan!ReadPebbles \/ Plan!ReadPasses
           \/ Plan!SendPage
  BY <1>3, ReadKept DEF PlanningMoves, PlanningInv
<1> QED BY <1>2, <1>3 DEF Plan!Next

LEMMA PlanningMovesAlone == ASSUME [Next]_vars PROVE [Plan!Next]_(Plan!vars)
BY DEF Next, vars, Deliveries, Planning, Admissions, planVars, Plan!vars

\* The invariant of the route, its split, the passes and a page being read.
THEOREM PlanningSafe == Spec => []PlanningInv
<1>1. Init => PlanningInv
  BY PlanningStart
<1>2. PlanningInv /\ [Next]_vars => PlanningInv'
  <2>1. PlanningInv /\ Plan!Next => PlanningInv'
    BY PlanningStep
  <2>2. PlanningInv /\ UNCHANGED Plan!vars => PlanningInv'
    <3> SUFFICES ASSUME PlanningInv, UNCHANGED Plan!vars PROVE PlanningInv'
      OBVIOUS
    <3>1. /\ route' = route /\ stones' = stones /\ pebbles' = pebbles /\ passes' = passes
          /\ reading' = reading
      BY DEF Plan!vars
    <3> QED BY <3>1, PageStays, RouteSame, CitationsStay, PassesStay DEF PlanningInv
  <2> QED BY <2>1, <2>2, PlanningMovesAlone
<1> QED BY <1>1, <1>2, PTL DEF Spec

\* A closed checkpoint keeps its number and its text and only goes on to built, and
\* what cites a checkpoint by its number cites the same one after any renumbering, for
\* every number of checkpoints, passes and writes (InsertPlanningCheckpoint).
THEOREM RouteAlwaysStands == Spec => RouteStands
<1>1. PlanningInv /\ PlanningInv' /\ [Next]_vars =>
        [Plan!FrozenTextStands /\ Plan!CitationsFollow']_(Plan!vars)
  <2> SUFFICES ASSUME PlanningInv, PlanningInv', [Next]_vars, ~ UNCHANGED Plan!vars
               PROVE  Plan!FrozenTextStands /\ Plan!CitationsFollow'
    OBVIOUS
  <2>1. Plan!Next
    BY PlanningMovesAlone
  <2>2. FrozenStands
    BY <2>1, PlanningStep
  <2>3. Plan!FrozenTextStands
    BY <2>2 DEF FrozenStands, Plan!FrozenTextStands, Plan!Closed, Plan!ClosedStatuses
  <2>4. Plan!CitationsFollow'
    BY DEF PlanningInv, SplitInv, PassesInv, Plan!CitationsFollow
  <2> QED BY <2>3, <2>4
<1>2. Spec => [][Next]_vars
  BY PTL DEF Spec
<1>3. RouteStands <=> [][Plan!FrozenTextStands /\ Plan!CitationsFollow']_(Plan!vars)
  BY PTL DEF RouteStands, Plan!RouteStands
<1> QED BY <1>1, <1>2, <1>3, PlanningSafe, PTL

-----------------------------------------------------------------------------
(* The page *)

\* The card of a checkpoint that was closed when its number was listed is that
\* checkpoint's, and one whose row was read closed shows its own pebbles and passes,
\* whatever is written and renumbered between the queries (readRoadmap,
\* InsertPlanningCheckpoint).
THEOREM PageAlwaysTellsTruth == Spec => []PageTellsTruth
<1>1. PlanningInv => PageTellsTruth
  BY DEF PlanningInv, PageInv, ReadClosed, PageTellsTruth, Plan!PageTellsTruth
<1> QED BY <1>1, PlanningSafe, PTL

-----------------------------------------------------------------------------
(* Types *)

LEMMA AdmissionTypes == ASSUME AdmissionInv PROVE Admit!TypeOK
<1>1. \A t \in DOMAIN tasks : tasks[t].name \in {name1, name2} /\ tasks[t].prompt \in {prompt1, prompt2}
  <2>1. tasks \in Seq(TaskRecords)
    BY DEF AdmissionInv, TasksInv
  <2>2. \A t \in DOMAIN tasks : tasks[t] \in TaskRecords
    BY <2>1
  <2> QED BY <2>2 DEF TaskRecords
<1>2. /\ DOMAIN pipelines \subseteq {id} \cup {Admit!Critique}
      /\ \A p \in DOMAIN pipelines : pipelines[p].title \in {"critique", "other"}
  BY DEF AdmissionInv, PipelinesInv
<1>3. \A r \in DOMAIN admissions :
        admissions[r].task \in DOMAIN tasks /\ admissions[r].after \in 0..(r - 1)
  <2>1. admissions \in Seq(RunRecords)
    BY DEF AdmissionInv, RunsInv
  <2>2. ASSUME NEW r \in DOMAIN admissions
        PROVE  admissions[r].task \in DOMAIN tasks /\ admissions[r].after \in 0..(r - 1)
    <3>1. admissions[r] \in RunRecords
      BY <2>1
    <3>2. admissions[r].after \in Nat
      BY <3>1 DEF RunRecords
    <3>3. r \in Nat
      BY <2>1
    <3>4. admissions[r].task \in DOMAIN tasks /\ admissions[r].after < r
      BY DEF AdmissionInv, RunsInv
    <3> QED BY <3>2, <3>3, <3>4
  <2> QED BY <2>2
<1>4. ASSUME NEW c \in Clients
      PROVE  request[c].step \in {"idle", "replay", "pause", "create", "adopt", "admit", "refused"}
  <2>1. request[c] \in Requests
    BY DEF AdmissionInv, RequestsInv
  <2> QED BY <2>1 DEF Requests, Admit!Idle
<1>5. \A a \in answers : a[2] \in DOMAIN admissions
  BY DEF AdmissionInv, AnswersInv
<1> QED BY <1>1, <1>2, <1>3, <1>4, <1>5 DEF Admit!TypeOK

LEMMA PlanningTypes == ASSUME PlanningInv PROVE Plan!TypeOK
<1>1. \A n \in DOMAIN route : n \in 1..(MaxNumber + MaxCheckpoints) /\ route[n] \in Plan!Rows
  <2>1. Cardinality(DOMAIN route) \in Nat
    BY FS_CardinalityType DEF PlanningInv, RouteInv
  <2> QED BY <2>1, PlanningConstantsHold DEF PlanningInv, RouteInv, Highest
<1>2. /\ stones \subseteq (DOMAIN route) \X {stone}
      /\ \A p \in pebbles : p.number \in DOMAIN route /\ p.slug \in {slug1, slug2}
  BY DEF PlanningInv, SplitInv, PebbleRecords
<1>3. \A i \in DOMAIN passes : passes[i].number \in Nat /\ passes[i].of \in Nat \cup {None}
  <2> DEFINE R == [number : Nat, of : Nat \cup {None}]
  <2>1. passes \in Seq(R)
    BY DEF PlanningInv, PassesInv
  <2> HIDE DEF R
  <2>2. \A i \in DOMAIN passes : passes[i] \in R
    BY <2>1
  <2> QED BY <2>2 DEF R
<1>4. reading.step \in {"idle", "row", "stones", "pebbles", "passes", "card"}
  BY DEF PlanningInv, PageInv
<1> QED BY <1>1, <1>2, <1>3, <1>4 DEF Plan!TypeOK

\* Every variable of a delivery, of a plan and of an admission stays in its type, for
\* every number of them.
THEOREM ServerTypesHold == Spec => []TypeOK
<1>1. DeliveryInv /\ AdmissionInv /\ PlanningInv => TypeOK
  BY AdmissionTypes, PlanningTypes DEF DeliveryInv, TypeOK
<1> QED BY <1>1, DeliverySafe, AdmissionSafe, PlanningSafe, PTL
=============================================================================
