------------------------ MODULE WorkLifecycleProofs ------------------------
(* Theorems about WorkLifecycle, for every value of its constants. *)
EXTENDS WorkLifecycle, TLAPS

LEMMA InitTyped == Init => TypeOK
<1> SUFFICES ASSUME Init PROVE TypeOK
  OBVIOUS
<1>1. state \in [Work -> {"absent"} \cup Nonterminal \cup Terminal]
  BY DEF Init
<1>2. /\ owner \in [Work -> {"none", "worker_attempt"}]
      /\ cancelShown \in [Work -> BOOLEAN] /\ approved \in [Work -> BOOLEAN]
      /\ resume \in [Work -> {0} \cup Number]
      /\ predecessor \in [Work -> Work \cup {None}] /\ root \in [Work -> Work]
  BY DEF Init
<1>3. /\ exec \in [Work -> {"none", "queued", "preparing", "running",
                            "succeeded", "failed", "cancelled"}]
      /\ cancel \in [Work -> BOOLEAN] /\ assigned \in [Work -> Worker \cup {None}]
      /\ tries \in [Work -> {0} \cup Number]
  BY DEF Init
<1>4. /\ attempt \in [Work -> [Number -> {"none"} \cup Active \cup AttemptEnd]]
      /\ outcome \in [Work -> [Number -> {"none"} \cup Ending]]
  BY DEF Init
<1>5. lease \in [Work -> [Number -> 0..LeaseTicks]]
  BY BoundAssumption DEF Init
<1>6. answered \in [Work -> SUBSET Number] /\ done \in [Run -> BOOLEAN]
  BY DEF Init
<1>7. paused \in BOOLEAN /\ eligible \in SUBSET Worker
  BY DEF Init
<1> QED
  BY <1>1, <1>2, <1>3, <1>4, <1>5, <1>6, <1>7 DEF TypeOK

LEMMA AdmitTaskTyped ==
  ASSUME TypeOK, NEW r \in Run, AdmitTask(r) PROVE TypeOK'
<1>1. CASE /\ r \in GatedRun
           /\ state' = [w \in Work |-> IF RunOf[w] = r THEN "draft" ELSE state[w]]
           /\ UNCHANGED <<owner, cancelShown, approved, resume, executionVars,
                          attemptVars, answered, done, factoryVars>>
  BY <1>1 DEF TypeOK, AdmitTask, Nonterminal, attemptVars, executionVars, factoryVars
<1>2. ASSUME NEW q \in QueuedFirst(Members(r), Limit[r]),
             NEW at \in [q -> eligible], InsertRun(r, q, at)
      PROVE  TypeOK'
  BY <1>2 DEF TypeOK, AdmitTask, InsertRun, QueuedFirst, Members, Nonterminal,
              attemptVars, factoryVars
<1> QED
  BY <1>1, <1>2 DEF AdmitTask

LEMMA AdmitBuildTyped ==
  ASSUME TypeOK, NEW r \in Run, NEW rebuild \in BOOLEAN, AdmitBuild(r, rebuild)
  PROVE  TypeOK'
BY DEF TypeOK, AdmitBuild, Rebuildable, SameIssue, InsertRun, QueuedFirst, Members,
       Nonterminal, attemptVars, factoryVars

LEMMA ApproveTyped ==
  ASSUME TypeOK, NEW w \in Work, ApproveWork(w) PROVE TypeOK'
<1>1. PICK k \in Placement(w) : /\ QueueExecution(w, k)
                                /\ state' = [state EXCEPT ![w] = Waiting(k)]
  BY DEF ApproveWork
<1>2. k \in Worker \cup {None}
  BY DEF TypeOK, Placement, OrNone
<1>3. /\ exec' \in [Work -> {"none", "queued", "preparing", "running",
                             "succeeded", "failed", "cancelled"}]
      /\ cancel' \in [Work -> BOOLEAN] /\ assigned' \in [Work -> Worker \cup {None}]
      /\ state' \in [Work -> {"absent"} \cup Nonterminal \cup Terminal]
  BY <1>1, <1>2 DEF TypeOK, QueueExecution, Waiting, Nonterminal
<1>4. approved' \in [Work -> BOOLEAN] /\ done' \in [Run -> BOOLEAN]
  BY DEF TypeOK, ApproveWork
<1> QED
  BY <1>3, <1>4 DEF TypeOK, ApproveWork, attemptVars, factoryVars

LEMMA RetryTyped ==
  ASSUME TypeOK, NEW w \in Work, RetrySession(w) PROVE TypeOK'
BY DEF TypeOK, RetrySession, QueueExecution, Nonterminal, attemptVars, factoryVars

LEMMA ReplaceTyped ==
  ASSUME TypeOK, NEW old \in Work, NEW w \in Work, ReplaceWork(old, w) PROVE TypeOK'
BY DEF TypeOK, ReplaceWork, OrNone, QueueExecution, Waiting, Nonterminal,
       attemptVars, factoryVars

LEMMA AnswerTyped ==
  ASSUME TypeOK, NEW w \in Work, AnswerWork(w) PROVE TypeOK'
<1>1. PICK k \in Placement(w) : /\ QueueExecution(w, k)
                                /\ state' = [state EXCEPT ![w] = Waiting(k)]
  BY DEF AnswerWork
<1>2. k \in Worker \cup {None}
  BY <1>1 DEF TypeOK, Placement, OrNone
<1>3. /\ exec' \in [Work -> {"none", "queued", "preparing", "running",
                             "succeeded", "failed", "cancelled"}]
      /\ cancel' \in [Work -> BOOLEAN] /\ assigned' \in [Work -> Worker \cup {None}]
      /\ state' \in [Work -> {"absent"} \cup Nonterminal \cup Terminal]
  BY <1>1, <1>2 DEF TypeOK, QueueExecution, Waiting, Nonterminal
<1>4. answered' \in [Work -> SUBSET Number]
  BY DEF TypeOK, AnswerWork
<1>5. cancelShown' \in [Work -> BOOLEAN] /\ done' \in [Run -> BOOLEAN]
  BY DEF TypeOK, AnswerWork
<1> QED
  BY <1>3, <1>4, <1>5 DEF TypeOK, AnswerWork, attemptVars, factoryVars

LEMMA CancelTyped ==
  ASSUME TypeOK, NEW ws \in SUBSET Work, CancelAll(ws), done' \in [Run -> BOOLEAN]
  PROVE  TypeOK'
BY DEF TypeOK, CancelAll, Nonterminal, Terminal, attemptVars, factoryVars

LEMMA DisableTyped ==
  ASSUME TypeOK, NEW ws \in SUBSET Work, DisableRepository(ws) PROVE TypeOK'
<1>1. state' \in [Work -> {"absent"} \cup Nonterminal \cup Terminal]
  BY DEF TypeOK, DisableRepository, Nonterminal
<1>2. owner' \in [Work -> {"none", "worker_attempt"}]
  BY DEF TypeOK, DisableRepository
<1>3. exec' \in [Work -> {"none", "queued", "preparing", "running",
                         "succeeded", "failed", "cancelled"}]
  BY DEF TypeOK, DisableRepository
<1>4. assigned' \in [Work -> Worker \cup {None}]
  BY DEF TypeOK, DisableRepository
<1> QED
  BY <1>1, <1>2, <1>3, <1>4 DEF TypeOK, DisableRepository, attemptVars, factoryVars

LEMMA HeartbeatTyped ==
  ASSUME TypeOK, NEW w \in Work, NEW n \in Number, Heartbeat(w, n) PROVE TypeOK'
BY BoundAssumption DEF TypeOK, Heartbeat, sessionVars, executionVars, factoryVars

LEMMA StartTyped ==
  ASSUME TypeOK, NEW w \in Work, NEW n \in Number, NEW sha \in Number \cup {0},
         NEW started \in BOOLEAN, StartAttempt(w, n, sha, started)
  PROVE  TypeOK'
<1>1. CASE attempt[w][n] = "preparing" /\ ~started
  <2>1. /\ attempt' = [attempt EXCEPT ![w][n] = "running"]
        /\ exec' = [exec EXCEPT ![w] = IF @ = "preparing" THEN "running" ELSE @]
        /\ state' = [state EXCEPT ![w] = IF @ = "preparing" THEN "running" ELSE @]
        /\ owner' = [owner EXCEPT ![w] = IF state[w] = "preparing"
                                         THEN "worker_attempt" ELSE @]
        /\ resume' = resume
    BY <1>1 DEF StartAttempt
  <2>2. attempt' \in [Work -> [Number -> {"none"} \cup Active \cup AttemptEnd]]
    BY <2>1 DEF TypeOK, Active
  <2> QED
    BY <2>1, <2>2 DEF TypeOK, StartAttempt, Nonterminal, factoryVars
<1>2. CASE started
  <2>1. resume' \in [Work -> {0} \cup Number]
    BY <1>2 DEF TypeOK, StartAttempt
  <2> QED
    BY <1>2, <2>1 DEF TypeOK, StartAttempt, factoryVars
<1> QED
  BY <1>1, <1>2 DEF StartAttempt

LEMMA UpdateTyped ==
  ASSUME TypeOK, NEW w \in Work, NEW n \in Number, NEW status \in Ending,
         AppendAgentUpdate(w, n, status)
  PROVE  TypeOK'
BY DEF TypeOK, AppendAgentUpdate, sessionVars, executionVars, factoryVars

Exit == {"succeeded", "failed", "cancelled"}

LEMMA EndTyped ==
  ASSUME TypeOK, NEW w \in Work, NEW n \in Number, NEW reported \in Exit
  PROVE  /\ EndOf(w, n, reported) \in Exit
         /\ WorkStateOf(w, n, EndOf(w, n, reported)) \in Ending \cup Exit
<1>1. EndOf(w, n, reported) \in Exit
  BY DEF EndOf, Exit, TypeOK
<1>2. outcome[w][n] \in {"none"} \cup Ending
  BY DEF TypeOK
<1>3. CASE RunOf[w] \in AgentUpdateRun /\ EndOf(w, n, reported) = "succeeded"
  BY <1>2, <1>3 DEF EndOf, WorkStateOf, TypeOK, Exit
<1>4. CASE ~(RunOf[w] \in AgentUpdateRun /\ EndOf(w, n, reported) = "succeeded")
  BY <1>1, <1>4 DEF WorkStateOf
<1> QED
  BY <1>1, <1>3, <1>4

LEMMA CompleteTyped ==
  ASSUME TypeOK, NEW w \in Work, NEW n \in Number, NEW reported \in Exit,
         CompleteAttempt(w, n, reported)
  PROVE  TypeOK'
<1> DEFINE end == EndOf(w, n, reported)
           next == WorkStateOf(w, n, end)
<1>1. end \in Exit /\ next \in Ending \cup Exit
  BY EndTyped
<1>2. /\ attempt' = [attempt EXCEPT ![w][n] = end]
      /\ exec' = [exec EXCEPT ![w] = IF @ \in Active THEN end ELSE @]
      /\ EndSession(w, n, next)
  BY DEF CompleteAttempt
<1> HIDE DEF end, next
<1>3. /\ attempt' \in [Work -> [Number -> {"none"} \cup Active \cup AttemptEnd]]
      /\ exec' \in [Work -> {"none", "queued", "preparing", "running",
                             "succeeded", "failed", "cancelled"}]
  BY <1>1, <1>2 DEF TypeOK, AttemptEnd, Exit
<1>4. /\ state' \in [Work -> {"absent"} \cup Nonterminal \cup Terminal]
      /\ owner' \in [Work -> {"none", "worker_attempt"}]
  BY <1>1, <1>2 DEF TypeOK, EndSession, Ending, Exit, Nonterminal, Terminal
<1>5. resume' \in [Work -> {0} \cup Number] /\ done' \in [Run -> BOOLEAN]
  BY <1>2 DEF TypeOK, EndSession, CheckpointAfter, RunDone
<1>6. lease' \in [Work -> [Number -> 0..LeaseTicks]]
  BY BoundAssumption DEF TypeOK, CompleteAttempt
<1> QED
  BY <1>3, <1>4, <1>5, <1>6 DEF TypeOK, CompleteAttempt, factoryVars

LEMMA TickTyped ==
  ASSUME TypeOK, Tick PROVE TypeOK'
BY BoundAssumption DEF TypeOK, Tick, sessionVars, executionVars, factoryVars

LEMMA SweepTyped ==
  ASSUME TypeOK, SweepExpired PROVE TypeOK'
<1>1. /\ attempt' \in [Work -> [Number -> {"none"} \cup Active \cup AttemptEnd]]
      /\ exec' \in [Work -> {"none", "queued", "preparing", "running",
                             "succeeded", "failed", "cancelled"}]
  BY DEF TypeOK, SweepExpired, AttemptEnd
<1>2. /\ state' \in [Work -> {"absent"} \cup Nonterminal \cup Terminal]
      /\ owner' \in [Work -> {"none", "worker_attempt"}]
  BY DEF TypeOK, SweepExpired, Terminal
<1>3. resume' \in [Work -> {0} \cup Number]
  BY DEF TypeOK, SweepExpired
<1>4. done' \in [Run -> BOOLEAN]
  BY DEF TypeOK, SweepExpired, RunDone
<1> QED
  BY <1>1, <1>2, <1>3, <1>4 DEF TypeOK, SweepExpired, factoryVars

LEMMA ClaimTyped ==
  ASSUME TypeOK, NEW k \in Worker, Claim(k) PROVE TypeOK'
<1>1. PICK m \in OrNone(Fairest(Materializable)), q \in OrNone(Reroutable(k)) :
        \E c \in OrNone(Fairest(Claimable(k, m, q))) :
          (c = None \/ tries[c] < MaxAttempts) /\ Dispatch(k, m, q, c)
  BY DEF Claim
<1>2. PICK c \in OrNone(Fairest(Claimable(k, m, q))) :
        (c = None \/ tries[c] < MaxAttempts) /\ Dispatch(k, m, q, c)
  BY <1>1
<1>3. /\ state' \in [Work -> {"absent"} \cup Nonterminal \cup Terminal]
      /\ owner' \in [Work -> {"none", "worker_attempt"}]
  BY <1>2 DEF Dispatch, TypeOK, Nonterminal
<1>4. /\ exec' \in [Work -> {"none", "queued", "preparing", "running",
                             "succeeded", "failed", "cancelled"}]
      /\ cancel' \in [Work -> BOOLEAN] /\ assigned' \in [Work -> Worker \cup {None}]
  BY <1>2 DEF Dispatch, TypeOK
<1>5. tries' \in [Work -> {0} \cup Number]
  BY <1>2, WorkAssumption, BoundAssumption DEF Dispatch, TypeOK, Number
<1>6. attempt' \in [Work -> [Number -> {"none"} \cup Active \cup AttemptEnd]]
  BY <1>2 DEF Dispatch, TypeOK, Active
<1>7. lease' \in [Work -> [Number -> 0..LeaseTicks]]
  BY <1>2, BoundAssumption DEF Dispatch, TypeOK
<1> QED
  BY <1>2, <1>3, <1>4, <1>5, <1>6, <1>7 DEF TypeOK, Dispatch, factoryVars

LEMMA NextTyped == TypeOK /\ [Next]_vars => TypeOK'
<1> SUFFICES ASSUME TypeOK, [Next]_vars PROVE TypeOK'
  OBVIOUS
<1>1. CASE Admit
  BY <1>1, AdmitTaskTyped, AdmitBuildTyped DEF Admit
<1>2. CASE Operate
  <2>1. ASSUME NEW w \in Work, CancelSession(w) PROVE TypeOK'
    <3>1. done' \in [Run -> BOOLEAN]
      BY <2>1 DEF CancelSession, TypeOK, RunDone
    <3> QED
      BY <2>1, <3>1, CancelTyped DEF CancelSession
  <2>2. ASSUME NEW r \in Run, CancelRun(r) PROVE TypeOK'
    <3>1. done' \in [Run -> BOOLEAN]
      BY <2>2 DEF CancelRun, TypeOK, RunDone
    <3>2. Members(r) \in SUBSET Work
      BY DEF Members
    <3> QED
      BY <2>2, <3>1, <3>2, CancelTyped DEF CancelRun
  <2>3. ASSUME SetFactoryPause PROVE TypeOK'
    BY <2>3 DEF SetFactoryPause, TypeOK, sessionVars, executionVars, attemptVars
  <2> QED
    BY <1>2, <2>1, <2>2, <2>3, ApproveTyped, RetryTyped, AnswerTyped, ReplaceTyped,
       DisableTyped DEF Operate
<1>3. CASE RegisterWorker
  BY <1>3 DEF RegisterWorker, TypeOK, sessionVars, executionVars, attemptVars
<1>4. CASE \E k \in Worker : Claim(k)
  BY <1>4, ClaimTyped
<1>5. ASSUME NEW w \in Work, NEW n \in Number, Hold(w, n) PROVE TypeOK'
  BY <1>5, StartTyped, HeartbeatTyped, UpdateTyped, CompleteTyped DEF Hold, Exit
<1>6. CASE Tick
  BY <1>6, TickTyped
<1>7. CASE SweepExpired
  BY <1>7, SweepTyped
<1>8. CASE UNCHANGED vars
  BY <1>8 DEF vars, sessionVars, executionVars, attemptVars, factoryVars, TypeOK
<1> QED
  BY <1>1, <1>2, <1>3, <1>4, <1>5, <1>6, <1>7, <1>8 DEF Next

\* The ledger is type correct: every column keeps a value its CHECK constraint
\* admits, for any number of runs, Work, workers and attempts.
THEOREM TypeCorrect == Spec => []TypeOK
<1>1. Init => TypeOK
  BY InitTyped
<1>2. TypeOK /\ [Next]_vars => TypeOK'
  BY NextTyped
<1> QED
  BY <1>1, <1>2, PTL DEF Spec
----------------------------------------------------------------------------
(* The three rows of a Work agree.  LedgerAgrees is inductive beside TypeOK. *)

Row(v) == OnlyNewestOpen(v) /\ RowsAgree(v) /\ CancelTold(v)

\* No action writes an unequal column of v.
Same(v) ==
  /\ state'[v] = state[v] /\ owner'[v] = owner[v] /\ cancelShown'[v] = cancelShown[v]
  /\ exec'[v] = exec[v] /\ cancel'[v] = cancel[v] /\ tries'[v] = tries[v]
  /\ attempt'[v] = attempt[v] /\ lease'[v] = lease[v] /\ outcome'[v] = outcome[v]

\* The attempts and what they reported are left alone.
SameAttempts(v) == tries'[v] = tries[v] /\ attempt'[v] = attempt[v]
                   /\ lease'[v] = lease[v] /\ outcome'[v] = outcome[v]

LEMMA RowFrame == ASSUME NEW v, Row(v), Same(v) PROVE Row(v)'
BY DEF Row, Same, OnlyNewestOpen, RowsAgree, CancelTold

LEMMA NewestFrame ==
  ASSUME NEW v, OnlyNewestOpen(v), SameAttempts(v) PROVE OnlyNewestOpen(v)'
BY DEF SameAttempts, OnlyNewestOpen

LEMMA AdmitRows ==
  ASSUME TypeOK, NEW v \in Work, Row(v), Admit PROVE Row(v)'
<1>1. PICK r \in Run : AdmitTask(r) \/ \E rebuild \in BOOLEAN : AdmitBuild(r, rebuild)
  BY DEF Admit
<1>2. SameAttempts(v) /\ owner'[v] = owner[v] /\ cancelShown'[v] = cancelShown[v]
      /\ cancel'[v] = cancel[v]
  BY <1>1 DEF AdmitTask, AdmitBuild, InsertRun, SameAttempts, attemptVars, executionVars
<1>3. CASE RunOf[v] # r
  <2>1. state'[v] = state[v] /\ exec'[v] = exec[v]
    BY <1>1, <1>3 DEF AdmitTask, AdmitBuild, InsertRun, QueuedFirst, Members, executionVars
  <2> QED
    BY <1>2, <2>1, RowFrame DEF Same, SameAttempts
<1>4. CASE RunOf[v] = r
  <2>1. state[v] = "absent"
    BY <1>1, <1>4 DEF AdmitTask, AdmitBuild, Members
  <2>2. \/ state'[v] = "queued" /\ exec'[v] = "queued"
        \/ state'[v] \in {"draft", "blocked"} /\ exec'[v] = exec[v]
    BY <1>1, <1>4 DEF AdmitTask, AdmitBuild, InsertRun, executionVars
  <2> QED
    BY <1>2, <2>1, <2>2, NewestFrame
       DEF Row, RowsAgree, CancelTold, SameAttempts, Active
<1> QED
  BY <1>3, <1>4

\* What every path back to the queue does to the row of v: ApproveWork,
\* RetrySession, ReplaceWork and AnswerWork.
Requeued(v) ==
  /\ SameAttempts(v) /\ owner'[v] = owner[v]
  /\ \/ state'[v] = "queued" /\ exec'[v] = "queued" /\ ~cancel'[v]
     \/ state'[v] = "blocked" /\ exec'[v] = exec[v] /\ cancel'[v] = cancel[v]
  /\ ~cancelShown'[v]

LEMMA RequeueRows ==
  ASSUME NEW v, Row(v), state[v] \notin Occupying, Requeued(v) PROVE Row(v)'
BY NewestFrame DEF Row, Requeued, SameAttempts, RowsAgree, CancelTold, Active, Occupying

LEMMA QueueRow ==
  ASSUME TypeOK, NEW v \in Work, NEW w \in Work, NEW k \in Worker \cup {None},
         QueueExecution(w, k), state' = [state EXCEPT ![w] = Waiting(k)]
  PROVE  /\ v # w => exec'[v] = exec[v] /\ cancel'[v] = cancel[v] /\ state'[v] = state[v]
         /\ \/ state'[w] = "queued" /\ exec'[w] = "queued" /\ ~cancel'[w]
            \/ state'[w] = "blocked" /\ exec'[w] = exec[w] /\ cancel'[w] = cancel[w]
BY DEF TypeOK, QueueExecution, Waiting

LEMMA ApproveRows ==
  ASSUME TypeOK, NEW v \in Work, Row(v), NEW w \in Work, ApproveWork(w) PROVE Row(v)'
<1>1. PICK k \in Worker \cup {None} :
        QueueExecution(w, k) /\ state' = [state EXCEPT ![w] = Waiting(k)]
  BY DEF ApproveWork, Placement, OrNone, TypeOK
<1>2. CASE v = w
  <2>1. ~cancelShown[v] /\ cancelShown' = cancelShown
    BY <1>2 DEF ApproveWork, Row, CancelTold
  <2>2. Requeued(v)
    BY <1>1, <1>2, <2>1, QueueRow DEF ApproveWork, Requeued, SameAttempts, attemptVars
  <2> QED
    BY <1>2, <2>2, RequeueRows DEF ApproveWork, Occupying
<1>3. CASE v # w
  <2>1. exec'[v] = exec[v] /\ cancel'[v] = cancel[v] /\ state'[v] = state[v]
    BY <1>1, <1>3, QueueRow
  <2>2. Same(v)
    BY <2>1 DEF ApproveWork, Same, attemptVars
  <2> QED
    BY <2>2, RowFrame
<1> QED
  BY <1>2, <1>3

LEMMA ReplaceRows ==
  ASSUME TypeOK, NEW v \in Work, Row(v), NEW old \in Work, NEW w \in Work,
         ReplaceWork(old, w)
  PROVE  Row(v)'
<1>1. PICK k \in Worker \cup {None} :
        QueueExecution(w, k) /\ state' = [state EXCEPT ![w] = Waiting(k)]
  BY DEF ReplaceWork, OrNone, TypeOK
<1>2. CASE v = w
  <2>1. ~cancelShown[v] /\ cancelShown' = cancelShown
    BY <1>2 DEF ReplaceWork, Row, CancelTold
  <2>2. Requeued(v)
    BY <1>1, <1>2, <2>1, QueueRow DEF ReplaceWork, Requeued, SameAttempts, attemptVars
  <2> QED
    BY <1>2, <2>2, RequeueRows DEF ReplaceWork, Occupying
<1>3. CASE v # w
  <2>1. exec'[v] = exec[v] /\ cancel'[v] = cancel[v] /\ state'[v] = state[v]
    BY <1>1, <1>3, QueueRow
  <2>2. Same(v)
    BY <2>1 DEF ReplaceWork, Same, attemptVars
  <2> QED
    BY <2>2, RowFrame
<1> QED
  BY <1>2, <1>3

LEMMA AnswerRows ==
  ASSUME TypeOK, NEW v \in Work, Row(v), NEW w \in Work, AnswerWork(w) PROVE Row(v)'
<1>1. PICK k \in Worker \cup {None} :
        QueueExecution(w, k) /\ state' = [state EXCEPT ![w] = Waiting(k)]
  BY DEF AnswerWork, Placement, OrNone, TypeOK
<1>2. CASE v = w
  BY <1>1, <1>2, QueueRow, RequeueRows
     DEF AnswerWork, Requeued, SameAttempts, Occupying, attemptVars, TypeOK
<1>3. CASE v # w
  BY <1>1, <1>3, QueueRow, RowFrame DEF AnswerWork, Same, attemptVars, TypeOK
<1> QED
  BY <1>2, <1>3

LEMMA RetryRows ==
  ASSUME TypeOK, NEW v \in Work, Row(v), NEW w \in Work, RetrySession(w) PROVE Row(v)'
<1>1. PICK k \in eligible : QueueExecution(w, k)
  BY DEF RetrySession
<1>2. CASE k = None
  BY <1>1, <1>2, WorkerAssumption DEF TypeOK
<1>3. CASE k # None
  <2>1. /\ exec' = [exec EXCEPT ![w] = "queued"]
        /\ cancel' = [cancel EXCEPT ![w] = FALSE]
    BY <1>1, <1>3 DEF QueueExecution
  <2>2. CASE v = w
    BY <2>1, <2>2, RequeueRows
       DEF RetrySession, Retryable, Requeued, SameAttempts, Occupying, attemptVars, TypeOK
  <2>3. CASE v # w
    BY <2>1, <2>3, RowFrame DEF RetrySession, Same, attemptVars, TypeOK
  <2> QED
    BY <2>2, <2>3
<1> QED
  BY <1>2, <1>3

LEMMA CancelRows ==
  ASSUME TypeOK, NEW v \in Work, Row(v), NEW ws \in SUBSET Work, CancelAll(ws)
  PROVE  Row(v)'
<1>1. SameAttempts(v) /\ owner'[v] = owner[v]
  BY DEF CancelAll, SameAttempts, attemptVars
<1>2. /\ state'[v] = IF v \in ws /\ state[v] \in Nonterminal \ Active
                     THEN "cancelled" ELSE state[v]
      /\ cancelShown'[v] = ((v \in ws /\ state[v] \in Active) \/ cancelShown[v])
      /\ exec'[v] = IF v \in ws /\ exec[v] = "queued" THEN "cancelled" ELSE exec[v]
      /\ cancel'[v] = ((v \in ws /\ exec[v] \in Active) \/ cancel[v])
  BY DEF CancelAll
<1>3. RowsAgree(v)'
  BY <1>1, <1>2 DEF Row, RowsAgree, SameAttempts, Active, Nonterminal
<1>4. CancelTold(v)'
  BY <1>1, <1>2 DEF Row, RowsAgree, CancelTold, Active, Nonterminal
<1> QED
  BY <1>1, <1>3, <1>4, NewestFrame DEF Row

LEMMA DisableRows ==
  ASSUME TypeOK, NEW v \in Work, Row(v), NEW ws \in SUBSET Work, DisableRepository(ws)
  PROVE  Row(v)'
<1>1. SameAttempts(v) /\ cancel'[v] = cancel[v] /\ cancelShown'[v] = cancelShown[v]
  BY DEF DisableRepository, SameAttempts, attemptVars
<1>2. CASE v \in TakenBack(ws)
  <2>1. state[v] = "queued" /\ state'[v] = "blocked" /\ exec'[v] = "none"
        /\ owner'[v] = "none"
    BY <1>2 DEF DisableRepository, TakenBack
  <2>2. RowsAgree(v)'
    BY <1>1, <2>1 DEF Row, RowsAgree, SameAttempts, Active
  <2>3. CancelTold(v)'
    BY <1>1, <2>1 DEF Row, RowsAgree, CancelTold, Active
  <2> QED
    BY <1>1, <2>2, <2>3, NewestFrame DEF Row
<1>3. CASE v \notin TakenBack(ws)
  BY <1>1, <1>3, RowFrame DEF DisableRepository, Same, SameAttempts
<1> QED
  BY <1>2, <1>3

\* An open attempt is the newest one, and the rows of its Work say so.
LEMMA OpenIsNewest ==
  ASSUME TypeOK, NEW w \in Work, NEW n \in Number, Row(w), attempt[w][n] \in Active
  PROVE  n = tries[w] /\ tries[w] > 0 /\ state[w] = attempt[w][n] /\ exec[w] = attempt[w][n]
<1>1. tries[w] \in {0} \cup Number /\ n \in Nat \ {0}
  BY BoundAssumption DEF TypeOK, Number
<1>2. n = tries[w]
  BY <1>1, BoundAssumption DEF Row, OnlyNewestOpen, Active, AttemptEnd, Number
<1> QED
  BY <1>1, <1>2 DEF Row, RowsAgree, Active

LEMMA StartRows ==
  ASSUME TypeOK, NEW v \in Work, Row(v), NEW w \in Work, NEW n \in Number,
         NEW sha \in Number \cup {0}, NEW started \in BOOLEAN,
         StartAttempt(w, n, sha, started)
  PROVE  Row(v)'
<1>1. CASE v # w \/ started
  BY <1>1, RowFrame DEF StartAttempt, Same, TypeOK
<1>2. CASE v = w /\ ~started
  <2>1. attempt[v][n] = "preparing" /\ attempt[v][n] \in Active
    BY <1>2 DEF StartAttempt, Active
  <2>2. n = tries[v] /\ tries[v] > 0 /\ state[v] = "preparing" /\ exec[v] = "preparing"
    BY <2>1, <1>2, OpenIsNewest
  <2>3. /\ attempt' = [attempt EXCEPT ![v][n] = "running"]
        /\ state'[v] = "running" /\ exec'[v] = "running" /\ owner'[v] = "worker_attempt"
        /\ cancelShown' = cancelShown /\ cancel' = cancel /\ tries' = tries
        /\ lease' = lease /\ outcome' = outcome
    BY <1>2, <2>2 DEF StartAttempt, TypeOK
  <2>4. /\ attempt'[v][n] = "running"
        /\ \A i \in Number : i # n => attempt'[v][i] = attempt[v][i]
    BY <2>3 DEF TypeOK
  <2>5. OnlyNewestOpen(v)'
    BY <2>2, <2>3, <2>4 DEF Row, OnlyNewestOpen, Number
  <2>6. RowsAgree(v)'
    BY <2>2, <2>3, <2>4 DEF RowsAgree, Active
  <2>7. CancelTold(v)'
    BY <2>2, <2>3 DEF Row, CancelTold, Active
  <2> QED
    BY <2>5, <2>6, <2>7 DEF Row
<1> QED
  BY <1>1, <1>2

LEMMA HeartbeatRows ==
  ASSUME TypeOK, NEW v \in Work, Row(v), NEW w \in Work, NEW n \in Number, Heartbeat(w, n)
  PROVE  Row(v)'
<1>1. CASE v # w
  BY <1>1, RowFrame DEF Heartbeat, Same, TypeOK, sessionVars, executionVars
<1>2. CASE v = w
  <2>1. n = tries[v]
    BY <1>2, OpenIsNewest DEF Heartbeat, OwnsLease
  <2>2. \A i \in Number : i # n => lease'[v][i] = lease[v][i]
    BY <1>2 DEF Heartbeat, TypeOK
  <2>3. OnlyNewestOpen(v)'
    BY <2>1, <2>2 DEF Heartbeat, Row, OnlyNewestOpen, Number
  <2> QED
    BY <2>3 DEF Heartbeat, Row, RowsAgree, CancelTold, sessionVars, executionVars
<1> QED
  BY <1>1, <1>2

LEMMA UpdateRows ==
  ASSUME TypeOK, NEW v \in Work, Row(v), NEW w \in Work, NEW n \in Number,
         NEW status \in Ending, AppendAgentUpdate(w, n, status)
  PROVE  Row(v)'
<1>1. CASE v # w
  BY <1>1, RowFrame DEF AppendAgentUpdate, Same, TypeOK, sessionVars, executionVars
<1>2. CASE v = w
  <2>1. n = tries[v]
    BY <1>2, OpenIsNewest DEF AppendAgentUpdate, OwnsLease
  <2>2. \A i \in Number : i # n => outcome'[v][i] = outcome[v][i]
    BY <1>2 DEF AppendAgentUpdate, TypeOK
  <2>3. OnlyNewestOpen(v)'
    BY <2>1, <2>2 DEF AppendAgentUpdate, Row, OnlyNewestOpen, Number
  <2> QED
    BY <2>3 DEF AppendAgentUpdate, Row, RowsAgree, CancelTold, sessionVars, executionVars
<1> QED
  BY <1>1, <1>2

\* What ending the open attempt of v leaves: CompleteAttempt and SweepExpired.
Ended(v) ==
  /\ tries' = tries /\ outcome' = outcome /\ cancelShown' = cancelShown /\ cancel' = cancel
  /\ attempt'[v][tries[v]] \in AttemptEnd
  /\ \A i \in Number : i # tries[v] => attempt'[v][i] = attempt[v][i]
  /\ \A i \in Number : i > tries[v] => lease'[v][i] = 0
  /\ state'[v] \in Ending \cup Terminal /\ owner'[v] = "none"
  /\ exec'[v] \in Exit

LEMMA EndedRows ==
  ASSUME TypeOK, NEW v \in Work, Row(v), state[v] \in Active, Ended(v) PROVE Row(v)'
<1>1. tries[v] \in Number
  BY DEF TypeOK, Row, RowsAgree
<1>2. OnlyNewestOpen(v)'
  BY <1>1 DEF Row, OnlyNewestOpen, Ended, AttemptEnd, Number
<1>3. RowsAgree(v)'
  BY <1>1 DEF Ended, RowsAgree, Ending, Terminal, Exit, Active, AttemptEnd
<1>4. CancelTold(v)'
  BY DEF Ended, CancelTold, Ending, Terminal, Exit, Active
<1> QED
  BY <1>2, <1>3, <1>4 DEF Row

LEMMA CompleteRows ==
  ASSUME TypeOK, NEW v \in Work, Row(v), NEW w \in Work, NEW n \in Number,
         NEW reported \in Exit, CompleteAttempt(w, n, reported)
  PROVE  Row(v)'
<1> DEFINE end == EndOf(w, n, reported)
           next == WorkStateOf(w, n, end)
<1>1. end \in Exit /\ next \in Ending \cup Exit
  BY EndTyped
<1>2. /\ attempt' = [attempt EXCEPT ![w][n] = end]
      /\ exec' = [exec EXCEPT ![w] = IF @ \in Active THEN end ELSE @]
      /\ EndSession(w, n, next)
  BY DEF CompleteAttempt
<1>3. /\ lease' = [lease EXCEPT ![w][n] = 0]
      /\ tries' = tries /\ outcome' = outcome /\ cancelShown' = cancelShown
      /\ cancel' = cancel
  BY DEF CompleteAttempt
<1>4. OwnsLease(w, n)
  BY DEF CompleteAttempt
<1> HIDE DEF end, next
<1>5. CASE v # w
  BY <1>2, <1>3, <1>5, RowFrame DEF EndSession, Same, TypeOK
<1>6. CASE v = w
  <2>1. /\ n = tries[v] /\ state[v] \in Active /\ exec[v] \in Active
    BY <1>4, <1>6, OpenIsNewest DEF OwnsLease
  <2>2. Ended(v)
    <3>1. /\ attempt'[v][tries[v]] \in AttemptEnd
          /\ \A i \in Number : i # tries[v] => attempt'[v][i] = attempt[v][i]
      BY <1>1, <1>2, <1>6, <2>1 DEF TypeOK, Exit, AttemptEnd
    <3>2. \A i \in Number : i > tries[v] => lease'[v][i] = 0
      BY <1>3, <1>6, <2>1 DEF TypeOK, Row, OnlyNewestOpen, Number
    <3>3. state'[v] = next /\ owner'[v] = "none" /\ exec'[v] = end
      BY <1>2, <1>6, <2>1 DEF EndSession, TypeOK
    <3> QED
      BY <1>1, <1>3, <3>1, <3>2, <3>3 DEF Ended, Terminal, Exit
  <2> QED
    BY <2>1, <2>2, EndedRows
<1> QED
  BY <1>5, <1>6

LEMMA TickRows == ASSUME TypeOK, NEW v \in Work, Row(v), Tick PROVE Row(v)'
<1>1. \A i \in Number : lease[v][i] = 0 => lease'[v][i] = 0
  BY BoundAssumption DEF Tick, TypeOK
<1>2. OnlyNewestOpen(v)'
  BY <1>1 DEF Tick, Row, OnlyNewestOpen
<1> QED
  BY <1>2 DEF Tick, Row, RowsAgree, CancelTold, sessionVars, executionVars

LEMMA SweepRows == ASSUME TypeOK, NEW v \in Work, Row(v), SweepExpired PROVE Row(v)'
<1>1. \A i \in Number : attempt'[v][i] = IF Expired(v, i) THEN "lost" ELSE attempt[v][i]
  BY DEF SweepExpired
<1>2. CASE ~Collected(v)
  <2>1. attempt'[v] = attempt[v]
    BY <1>1, <1>2 DEF SweepExpired, Collected, TypeOK
  <2> QED
    BY <1>2, <2>1, RowFrame DEF SweepExpired, Same
<1>3. CASE Collected(v)
  <2>1. PICK n \in Number : Expired(v, n)
    BY <1>3 DEF Collected
  <2>2. n = tries[v] /\ state[v] \in Active /\ exec[v] \in Active
    BY <2>1, OpenIsNewest DEF Expired
  <2>3. \A i \in Number : i # tries[v] => attempt'[v][i] = attempt[v][i]
    BY <1>1, <2>2, OpenIsNewest DEF Expired
  <2>4. attempt'[v][tries[v]] = "lost"
    BY <1>1, <2>1, <2>2
  <2>5. state'[v] = "failed" /\ exec'[v] = "failed" /\ owner'[v] = "none"
    BY <1>3, <2>2 DEF SweepExpired
  <2>6. Ended(v)
    BY <2>3, <2>4, <2>5 DEF Ended, SweepExpired, Row, OnlyNewestOpen, AttemptEnd,
                            Terminal, Exit
  <2> QED
    BY <2>2, <2>6, EndedRows
<1> QED
  BY <1>2, <1>3

LEMMA ClaimRows ==
  ASSUME TypeOK, NEW v \in Work, Row(v), NEW k \in Worker, Claim(k) PROVE Row(v)'
<1>1. PICK m \in OrNone(Fairest(Materializable)), q \in OrNone(Reroutable(k)) :
        \E c \in OrNone(Fairest(Claimable(k, m, q))) :
          (c = None \/ tries[c] < MaxAttempts) /\ Dispatch(k, m, q, c)
  BY DEF Claim
<1>2. PICK c \in OrNone(Fairest(Claimable(k, m, q))) :
        (c = None \/ tries[c] < MaxAttempts) /\ Dispatch(k, m, q, c)
  BY <1>1
<1>3. v = m => state[v] = "blocked"
  BY <1>1, WorkAssumption DEF OrNone, Fairest, Materializable
<1>4. v = q => state[v] = "queued" /\ exec[v] = "queued"
  BY <1>1, WorkAssumption DEF OrNone, Fairest, Reroutable
<1>5. v = c => v = m \/ exec[v] = "queued"
  BY <1>2, <1>4, WorkAssumption DEF OrNone, Fairest, Claimable
<1>6. /\ outcome' = outcome /\ cancelShown' = cancelShown
      /\ tries'[v] = IF v = c THEN tries[v] + 1 ELSE tries[v]
      /\ cancel'[v] = (v \notin {c, m} /\ cancel[v])
  BY <1>2 DEF Dispatch
<1>7. CASE v # c /\ v # m
  BY <1>2, <1>7, RowFrame DEF Dispatch, Same, TypeOK
<1>8. CASE v # c /\ v = m
  <2>1. state'[v] = "queued" /\ exec'[v] = "queued" /\ owner'[v] = "none"
    BY <1>2, <1>8 DEF Dispatch
  <2>2. attempt'[v] = attempt[v] /\ lease'[v] = lease[v]
    BY <1>2, <1>8 DEF Dispatch, TypeOK
  <2>3. SameAttempts(v)
    BY <1>6, <1>8, <2>2 DEF SameAttempts
  <2> QED
    BY <1>3, <1>6, <1>8, <2>1, <2>3, NewestFrame
       DEF Row, RowsAgree, CancelTold, SameAttempts, Active
<1>9. CASE v = c
  <2>1. state[v] \in {"blocked", "queued"} /\ (v = m \/ state[v] = "queued")
    BY <1>3, <1>5, <1>9 DEF Row, RowsAgree
  <2>2. state'[v] = "preparing" /\ exec'[v] = "preparing" /\ owner'[v] = "worker_attempt"
    BY <1>2, <1>9, <2>1 DEF Dispatch
  <2>3. cancel'[v] = FALSE /\ cancelShown'[v] = FALSE
    BY <1>6, <1>9, <2>1 DEF Row, CancelTold, TypeOK
  <2>4. tries[v] + 1 \in Number /\ tries'[v] = tries[v] + 1 /\ tries[v] \in Nat
    BY <1>2, <1>6, <1>9, WorkAssumption, BoundAssumption DEF TypeOK, Number
  <2>5. /\ attempt'[v][tries[v] + 1] = "preparing"
        /\ \A i \in Number : i # tries[v] + 1 => /\ attempt'[v][i] = attempt[v][i]
                                                 /\ lease'[v][i] = lease[v][i]
    BY <1>2, <1>9, <2>4 DEF Dispatch
  <2>6. tries[v] > 0 => attempt[v][tries[v]] \in AttemptEnd
    <3>1. tries[v] > 0 => tries[v] \in Number
      BY DEF TypeOK
    <3> QED
      BY <3>1, <2>1 DEF Row, OnlyNewestOpen, RowsAgree, TypeOK, Active
  <2>7. OnlyNewestOpen(v)'
    BY <1>6, <2>4, <2>5, <2>6 DEF Row, OnlyNewestOpen, Number
  <2>8. RowsAgree(v)'
    BY <2>2, <2>4, <2>5 DEF RowsAgree, Active
  <2>9. CancelTold(v)'
    BY <2>2, <2>3 DEF CancelTold, Active
  <2> QED
    BY <2>7, <2>8, <2>9 DEF Row
<1> QED
  BY <1>7, <1>8, <1>9

LEMMA NextRows ==
  ASSUME TypeOK, NEW v \in Work, Row(v), [Next]_vars PROVE Row(v)'
<1>1. CASE Admit
  BY <1>1, AdmitRows
<1>2. CASE Operate
  <2>1. ASSUME NEW w \in Work, CancelSession(w) PROVE Row(v)'
    BY <2>1, CancelRows DEF CancelSession
  <2>2. ASSUME NEW r \in Run, CancelRun(r) PROVE Row(v)'
    <3>1. Members(r) \in SUBSET Work
      BY DEF Members
    <3> QED
      BY <2>2, <3>1, CancelRows DEF CancelRun
  <2>3. CASE SetFactoryPause
    BY <2>3, RowFrame DEF SetFactoryPause, Same, sessionVars, executionVars, attemptVars
  <2> QED
    BY <1>2, <2>1, <2>2, <2>3, ApproveRows, RetryRows, AnswerRows, ReplaceRows, DisableRows
       DEF Operate
<1>3. CASE RegisterWorker
  BY <1>3, RowFrame DEF RegisterWorker, Same, sessionVars, executionVars, attemptVars
<1>4. CASE \E k \in Worker : Claim(k)
  BY <1>4, ClaimRows
<1>5. ASSUME NEW w \in Work, NEW n \in Number, Hold(w, n) PROVE Row(v)'
  BY <1>5, StartRows, HeartbeatRows, UpdateRows, CompleteRows DEF Hold, Exit
<1>6. CASE Tick
  BY <1>6, TickRows
<1>7. CASE SweepExpired
  BY <1>7, SweepRows
<1>8. CASE UNCHANGED vars
  BY <1>8, RowFrame DEF vars, Same, sessionVars, executionVars, attemptVars
<1> QED
  BY <1>1, <1>2, <1>3, <1>4, <1>5, <1>6, <1>7, <1>8 DEF Next

LEMMA InitRows == ASSUME Init, NEW v \in Work PROVE Row(v)
BY BoundAssumption
   DEF Init, Row, OnlyNewestOpen, RowsAgree, CancelTold, Active, Number

\* The session, execution and attempt rows of every Work agree and only its
\* newest attempt can be open, whatever handlers run in whatever order.
THEOREM LedgerConsistent == Spec => []LedgerAgrees
<1>1. Init => TypeOK /\ LedgerAgrees
  BY InitTyped, InitRows DEF LedgerAgrees, Row
<1>2. TypeOK /\ LedgerAgrees /\ [Next]_vars => (TypeOK /\ LedgerAgrees)'
  BY NextTyped, NextRows DEF LedgerAgrees, Row
<1> QED
  BY <1>1, <1>2, PTL DEF Spec
=============================================================================
