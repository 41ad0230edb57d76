------------------------- MODULE WorkHistoryProofs -------------------------
(***************************************************************************)
(* What WorkLifecycle keeps of the past of a Work: its consent, what its   *)
(* attempts came to, its questions and its checkpoint.  Every transaction  *)
(* of the ledger moves one Work along one of a few steps; the theorems     *)
(* follow from these.  So does the lineage of a work item: a Work has one  *)
(* successor chain, at most one Work of it is under way, and every step    *)
(* keeps the promise of WorkPromise.                                       *)
(***************************************************************************)
EXTENDS WorkLifecycleProofs

\* The steps of Work v.  Its attempts, answers and checkpoint stay unless a step says so.
PastKept(v) ==
  tries'[v] = tries[v] /\ attempt'[v] = attempt[v] /\ outcome'[v] = outcome[v]
  /\ answered'[v] = answered[v] /\ resume'[v] = resume[v]

Unmoved(v) ==
  PastKept(v) /\ state'[v] = state[v] /\ approved'[v] = approved[v] /\ exec'[v] = exec[v]

Admitted(v) ==
  /\ PastKept(v) /\ approved'[v] = approved[v] /\ state[v] = "absent"
  /\ \/ state'[v] = "draft" /\ exec'[v] = exec[v]
     \/ state'[v] \in {"blocked", "queued"} /\ RunOf[v] \notin GatedRun

Consented(v) ==
  PastKept(v) /\ state[v] = "draft" /\ state'[v] \in {"blocked", "queued"} /\ approved'[v]

Retried(v) ==
  /\ PastKept(v) /\ approved'[v] = approved[v]
  /\ state[v] \in Retryable /\ state'[v] = "queued" /\ RetryGuards(v)

Resumed(v) ==
  /\ tries'[v] = tries[v] /\ attempt'[v] = attempt[v] /\ outcome'[v] = outcome[v]
  /\ resume'[v] = resume[v] /\ approved'[v] = approved[v]
  /\ state[v] = "needs-input" /\ state'[v] \in {"blocked", "queued"}
  /\ \E n \in Number : LatestQuestion(v, n) /\ answered'[v] = answered[v] \cup {n}

Dropped(v) ==
  /\ PastKept(v) /\ approved'[v] = approved[v]
  /\ state[v] \in Nonterminal \ Active /\ state'[v] = "cancelled"
  /\ exec'[v] = exec[v] \/ exec[v] = "queued"

Shifted(v) ==
  /\ PastKept(v) /\ approved'[v] = approved[v]
  /\ {state[v], state'[v]} \subseteq {"blocked", "queued"}

Taken(v) ==
  /\ state[v] \in {"blocked", "queued"} /\ state'[v] = "preparing"
  /\ tries'[v] = tries[v] + 1 /\ tries[v] + 1 \in Number
  /\ attempt'[v] = [attempt[v] EXCEPT ![tries[v] + 1] = "preparing"]
  /\ outcome'[v] = outcome[v] /\ answered'[v] = answered[v] /\ resume'[v] = resume[v]
  /\ approved'[v] = approved[v]

\* The steps of a Work that an attempt holds, its newest one.
Begun(v) ==
  /\ state[v] = "preparing" /\ state'[v] = "running" /\ tries'[v] = tries[v]
  /\ attempt[v][tries[v]] = "preparing" /\ lease[v][tries[v]] > 0
  /\ attempt'[v] = [attempt[v] EXCEPT ![tries[v]] = "running"]
  /\ outcome'[v] = outcome[v] /\ answered'[v] = answered[v] /\ resume'[v] = resume[v]
  /\ approved'[v] = approved[v]

Consumed(v) ==
  /\ state[v] = "running" /\ state'[v] = "running" /\ tries'[v] = tries[v]
  /\ attempt'[v] = attempt[v] /\ outcome'[v] = outcome[v] /\ answered'[v] = answered[v]
  /\ resume'[v] = 0 /\ approved'[v] = approved[v]

Reported(v) ==
  /\ state[v] = "running" /\ state'[v] = "running" /\ tries'[v] = tries[v]
  /\ attempt'[v] = attempt[v] /\ attempt[v][tries[v]] = "running"
  /\ lease[v][tries[v]] > 0 /\ outcome[v][tries[v]] = "none"
  /\ \E status \in Ending : outcome'[v] = [outcome[v] EXCEPT ![tries[v]] = status]
  /\ answered'[v] = answered[v] /\ resume'[v] = resume[v] /\ approved'[v] = approved[v]

Completed(v) ==
  /\ state[v] \in Active /\ tries'[v] = tries[v] /\ lease[v][tries[v]] > 0
  /\ \E reported \in Exit :
       LET end == EndOf(v, tries[v], reported) IN
       /\ attempt'[v] = [attempt[v] EXCEPT ![tries[v]] = end]
       /\ state'[v] = WorkStateOf(v, tries[v], end)
  /\ resume'[v] = CheckpointAfter(v, tries[v], state'[v])
  /\ outcome'[v] = outcome[v] /\ answered'[v] = answered[v] /\ approved'[v] = approved[v]

Lost(v) ==
  /\ state[v] \in Active /\ state'[v] = "failed" /\ tries'[v] = tries[v]
  /\ lease[v][tries[v]] = 0
  /\ attempt'[v] = [attempt[v] EXCEPT ![tries[v]] = "lost"]
  /\ resume'[v] = CheckpointAfter(v, tries[v], "failed")
  /\ outcome'[v] = outcome[v] /\ answered'[v] = answered[v] /\ approved'[v] = approved[v]

Held(v) ==
  tries[v] \in Number /\ (Begun(v) \/ Consumed(v) \/ Reported(v) \/ Completed(v) \/ Lost(v))

WorkStep(v) ==
  \/ Unmoved(v) \/ Admitted(v) \/ Consented(v) \/ Retried(v) \/ Resumed(v) \/ Dropped(v)
  \/ Shifted(v) \/ Taken(v) \/ Held(v)
-----------------------------------------------------------------------------
(* Every transaction is one of these steps for every Work.                 *)

LEMMA AdmitSteps ==
  ASSUME TypeOK, NEW v \in Work, Admit PROVE Unmoved(v) \/ Admitted(v)
<1>1. PICK r \in Run : AdmitTask(r) \/ \E rebuild \in BOOLEAN : AdmitBuild(r, rebuild)
  BY DEF Admit
<1>2. PastKept(v) /\ approved'[v] = approved[v]
  BY <1>1 DEF AdmitTask, AdmitBuild, InsertRun, PastKept, attemptVars, executionVars
<1>3. CASE RunOf[v] # r
  <2>1. state'[v] = state[v] /\ exec'[v] = exec[v]
    BY <1>1, <1>3 DEF AdmitTask, AdmitBuild, InsertRun, QueuedFirst, Members, executionVars
  <2> QED
    BY <1>2, <2>1 DEF Unmoved
<1>4. CASE RunOf[v] = r
  <2>1. state[v] = "absent"
    BY <1>1, <1>4 DEF AdmitTask, AdmitBuild, Members
  <2>2. \/ state'[v] = "draft" /\ exec'[v] = exec[v]
        \/ state'[v] \in {"blocked", "queued"} /\ r \notin GatedRun
    BY <1>1, <1>4 DEF AdmitTask, AdmitBuild, InsertRun, executionVars
  <2> QED
    BY <1>2, <1>4, <2>1, <2>2 DEF Admitted
<1> QED
  BY <1>3, <1>4

LEMMA ApproveSteps ==
  ASSUME TypeOK, NEW v \in Work, NEW w \in Work, ApproveWork(w)
  PROVE  Unmoved(v) \/ Consented(v)
<1>1. PICK k \in Worker \cup {None} :
        QueueExecution(w, k) /\ state' = [state EXCEPT ![w] = Waiting(k)]
  BY DEF ApproveWork, Placement, OrNone, TypeOK
<1>2. PastKept(v)
  BY DEF ApproveWork, PastKept, attemptVars
<1>3. CASE v = w
  BY <1>1, <1>2, <1>3, QueueRow DEF ApproveWork, Consented, TypeOK
<1>4. CASE v # w
  BY <1>1, <1>2, <1>4, QueueRow DEF ApproveWork, Unmoved, TypeOK
<1> QED
  BY <1>3, <1>4

LEMMA RetrySteps ==
  ASSUME TypeOK, NEW v \in Work, NEW w \in Work, RetrySession(w)
  PROVE  Unmoved(v) \/ Retried(v)
<1>1. PICK k \in eligible : QueueExecution(w, k)
  BY DEF RetrySession
<1>2. PastKept(v) /\ approved' = approved /\ state' = [state EXCEPT ![w] = "queued"]
  BY DEF RetrySession, PastKept, attemptVars
<1>3. CASE v = w
  BY <1>2, <1>3 DEF RetrySession, Retried, TypeOK
<1>4. CASE v # w
  BY <1>1, <1>2, <1>4 DEF QueueExecution, Unmoved, TypeOK
<1> QED
  BY <1>3, <1>4

LEMMA ReplaceSteps ==
  ASSUME TypeOK, NEW v \in Work, NEW old \in Work, NEW w \in Work, ReplaceWork(old, w)
  PROVE  Unmoved(v) \/ Admitted(v)
<1>1. PICK k \in Worker \cup {None} :
        QueueExecution(w, k) /\ state' = [state EXCEPT ![w] = Waiting(k)]
  BY DEF ReplaceWork, OrNone, TypeOK
<1>2. PastKept(v) /\ approved' = approved
  BY DEF ReplaceWork, PastKept, attemptVars
<1>3. CASE v = w
  BY <1>1, <1>2, <1>3, QueueRow DEF ReplaceWork, Admitted
<1>4. CASE v # w
  BY <1>1, <1>2, <1>4, QueueRow DEF Unmoved
<1> QED
  BY <1>3, <1>4

LEMMA AnswerSteps ==
  ASSUME TypeOK, NEW v \in Work, NEW w \in Work, AnswerWork(w)
  PROVE  Unmoved(v) \/ Resumed(v)
<1>1. PICK k \in Worker \cup {None} :
        QueueExecution(w, k) /\ state' = [state EXCEPT ![w] = Waiting(k)]
  BY DEF AnswerWork, Placement, OrNone, TypeOK
<1>2. PICK n \in Number : LatestQuestion(w, n) /\ answered' = [answered EXCEPT ![w] = @ \cup {n}]
  BY DEF AnswerWork
<1>3. UNCHANGED <<tries, attempt, outcome, resume, approved>>
  BY DEF AnswerWork, attemptVars
<1>4. CASE v = w
  BY <1>1, <1>2, <1>3, <1>4, QueueRow DEF AnswerWork, Resumed, TypeOK
<1>5. CASE v # w
  BY <1>1, <1>2, <1>3, <1>5, QueueRow DEF Unmoved, PastKept, TypeOK
<1> QED
  BY <1>4, <1>5

LEMMA CancelSteps ==
  ASSUME TypeOK, NEW v \in Work, Row(v), NEW ws \in SUBSET Work, CancelAll(ws)
  PROVE  Unmoved(v) \/ Dropped(v)
<1>1. PastKept(v) /\ approved'[v] = approved[v]
  BY DEF CancelAll, PastKept, attemptVars
<1>2. /\ state'[v] = IF v \in ws /\ state[v] \in Nonterminal \ Active
                     THEN "cancelled" ELSE state[v]
      /\ exec'[v] = IF v \in ws /\ exec[v] = "queued" THEN "cancelled" ELSE exec[v]
  BY DEF CancelAll
<1> QED
  BY <1>1, <1>2 DEF Unmoved, Dropped, Row, RowsAgree, Nonterminal, Active

LEMMA DisableSteps ==
  ASSUME TypeOK, NEW v \in Work, NEW ws \in SUBSET Work, DisableRepository(ws)
  PROVE  Unmoved(v) \/ Shifted(v)
<1>1. PastKept(v) /\ approved'[v] = approved[v]
  BY DEF DisableRepository, PastKept, attemptVars
<1> QED
  BY <1>1 DEF DisableRepository, TakenBack, Unmoved, Shifted

LEMMA ClaimSteps ==
  ASSUME TypeOK, NEW v \in Work, Row(v), NEW k \in Worker, Claim(k)
  PROVE  Unmoved(v) \/ Shifted(v) \/ Taken(v)
<1>1. PICK m \in OrNone(Fairest(Materializable)), q \in OrNone(Reroutable(k)) :
        \E c \in OrNone(Fairest(Claimable(k, m, q))) :
          (c = None \/ tries[c] < MaxAttempts) /\ Dispatch(k, m, q, c)
  BY DEF Claim
<1>2. PICK c \in OrNone(Fairest(Claimable(k, m, q))) :
        (c = None \/ tries[c] < MaxAttempts) /\ Dispatch(k, m, q, c)
  BY <1>1
<1>3. v = m => state[v] = "blocked"
  BY <1>1, WorkAssumption DEF OrNone, Fairest, Materializable
<1>4. v = q => state[v] = "queued" /\ exec[v] = "queued"
  BY <1>1, WorkAssumption DEF OrNone, Fairest, Reroutable
<1>5. v = c => v = m \/ exec[v] = "queued"
  BY <1>2, <1>4, WorkAssumption DEF OrNone, Fairest, Claimable
<1>6. /\ outcome' = outcome /\ answered' = answered /\ resume' = resume
      /\ approved' = approved
      /\ tries'[v] = IF v = c THEN tries[v] + 1 ELSE tries[v]
  BY <1>2 DEF Dispatch
<1>7. CASE v # c
  <2>1. attempt'[v] = attempt[v]
    BY <1>2, <1>7 DEF Dispatch, TypeOK
  <2>2. PastKept(v)
    BY <1>6, <1>7, <2>1 DEF PastKept
  <2> QED
    BY <1>2, <1>3, <1>6, <1>7, <2>2 DEF Dispatch, Unmoved, Shifted
<1>8. CASE v = c
  <2>1. state[v] \in {"blocked", "queued"} /\ (v = m \/ state[v] = "queued")
    BY <1>3, <1>5, <1>8 DEF Row, RowsAgree
  <2>2. state'[v] = "preparing"
    BY <1>2, <1>8, <2>1 DEF Dispatch
  <2>3. tries[v] + 1 \in Number /\ tries'[v] = tries[v] + 1
    <3>1. tries[v] \in Nat /\ tries[v] < MaxAttempts
      BY <1>2, <1>8, WorkAssumption, BoundAssumption DEF TypeOK, Number
    <3> QED
      BY <1>6, <1>8, <3>1, BoundAssumption DEF Number
  <2>4. attempt'[v] = [attempt[v] EXCEPT ![tries[v] + 1] = "preparing"]
    <3>1. attempt'[v] = [n \in Number |-> IF n = tries[v] + 1 THEN "preparing"
                                          ELSE attempt[v][n]]
      BY <1>2, <1>8 DEF Dispatch
    <3>2. attempt[v] \in [Number -> {"none"} \cup Active \cup AttemptEnd]
      BY DEF TypeOK
    <3> QED
      BY <2>3, <3>1, <3>2
  <2> QED
    BY <1>6, <2>1, <2>2, <2>3, <2>4 DEF Taken
<1> QED
  BY <1>7, <1>8

LEMMA StartSteps ==
  ASSUME TypeOK, NEW v \in Work, Row(v), NEW w \in Work, NEW n \in Number,
         NEW sha \in Number \cup {0}, NEW started \in BOOLEAN,
         StartAttempt(w, n, sha, started)
  PROVE  Unmoved(v) \/ Held(v)
<1>1. UNCHANGED <<approved, tries, outcome, answered>>
  BY DEF StartAttempt
<1>2. CASE v # w
  <2>1. /\ attempt'[v] = attempt[v] /\ exec'[v] = exec[v] /\ state'[v] = state[v]
        /\ resume'[v] = resume[v]
    BY <1>2 DEF StartAttempt, TypeOK
  <2> QED
    BY <1>1, <2>1 DEF Unmoved, PastKept
<1>3. CASE v = w /\ ~started
  <2>1. attempt[v][n] = "preparing" /\ attempt[v][n] \in Active /\ lease[v][n] > 0
    BY <1>3 DEF StartAttempt, OwnsLease, Active
  <2>2. n = tries[v] /\ state[v] = "preparing"
    BY <1>3, <2>1, OpenIsNewest
  <2>3. /\ attempt' = [attempt EXCEPT ![w][n] = "running"]
        /\ state' = [state EXCEPT ![w] = IF @ = "preparing" THEN "running" ELSE @]
        /\ resume' = resume
    BY <1>3 DEF StartAttempt
  <2>4. /\ attempt'[v] = [attempt[v] EXCEPT ![tries[v]] = "running"]
        /\ state'[v] = "running" /\ resume'[v] = resume[v]
    BY <1>3, <2>2, <2>3 DEF TypeOK
  <2> QED
    BY <1>1, <2>1, <2>2, <2>4 DEF Held, Begun
<1>4. CASE v = w /\ started
  <2>1. attempt[v][n] = "running" /\ attempt[v][n] \in Active
    BY <1>4 DEF StartAttempt, Active
  <2>2. n = tries[v] /\ state[v] = "running"
    BY <1>4, <2>1, OpenIsNewest
  <2>3. UNCHANGED <<attempt, exec, state>> /\ resume'[v] \in {0, resume[v]}
    BY <1>4 DEF StartAttempt, TypeOK
  <2> QED
    BY <1>1, <2>2, <2>3 DEF Held, Consumed, Unmoved, PastKept
<1> QED
  BY <1>2, <1>3, <1>4

LEMMA UpdateSteps ==
  ASSUME TypeOK, NEW v \in Work, Row(v), NEW w \in Work, NEW n \in Number,
         NEW status \in Ending, AppendAgentUpdate(w, n, status)
  PROVE  Unmoved(v) \/ Held(v)
<1>1. UNCHANGED <<state, exec, resume, approved, tries, attempt, answered>>
  BY DEF AppendAgentUpdate, sessionVars, executionVars
<1>2. outcome' = [outcome EXCEPT ![w][n] = status]
  BY DEF AppendAgentUpdate
<1>3. CASE v # w
  BY <1>1, <1>2, <1>3 DEF Unmoved, PastKept, TypeOK
<1>4. CASE v = w
  <2>1. /\ attempt[v][n] = "running" /\ lease[v][n] > 0 /\ state[v] = "running"
        /\ outcome[v][n] = "none"
    BY <1>4 DEF AppendAgentUpdate, OwnsLease
  <2>2. n = tries[v]
    BY <1>4, <2>1, OpenIsNewest DEF Active
  <2>3. outcome'[v] = [outcome[v] EXCEPT ![tries[v]] = status]
    BY <1>2, <1>4, <2>2 DEF TypeOK
  <2> QED
    BY <1>1, <2>1, <2>2, <2>3 DEF Held, Reported
<1> QED
  BY <1>3, <1>4

LEMMA CompleteSteps ==
  ASSUME TypeOK, NEW v \in Work, Row(v), NEW w \in Work, NEW n \in Number,
         NEW reported \in Exit, CompleteAttempt(w, n, reported)
  PROVE  Unmoved(v) \/ Held(v)
<1> DEFINE end == EndOf(w, n, reported)
           next == WorkStateOf(w, n, end)
<1>1. /\ attempt' = [attempt EXCEPT ![w][n] = end]
      /\ exec' = [exec EXCEPT ![w] = IF @ \in Active THEN end ELSE @]
      /\ EndSession(w, n, next)
      /\ end = "succeeded" => attempt[w][n] = "running"
  BY DEF CompleteAttempt
<1>2. UNCHANGED <<approved, tries, outcome, answered>> /\ OwnsLease(w, n)
  BY DEF CompleteAttempt
<1>3. /\ end = EndOf(w, n, reported)
      /\ next = WorkStateOf(w, n, EndOf(w, n, reported))
  OBVIOUS
<1> HIDE DEF end, next
<1>4. CASE v # w
  BY <1>1, <1>2, <1>4 DEF EndSession, Unmoved, PastKept, TypeOK
<1>5. CASE v = w
  <2>1. n = tries[v] /\ state[v] \in Active /\ lease[v][n] > 0
    BY <1>2, <1>5, OpenIsNewest DEF OwnsLease
  <2>2. state'[v] = next /\ resume'[v] = CheckpointAfter(v, n, next)
    BY <1>1, <1>5, <2>1 DEF EndSession, TypeOK
  <2>3. attempt'[v] = [attempt[v] EXCEPT ![tries[v]] = end]
    BY <1>1, <1>5, <2>1 DEF TypeOK
  <2>4. Completed(v)
    BY <1>2, <1>3, <1>5, <2>1, <2>2, <2>3 DEF Completed
  <2> QED
    BY <2>1, <2>4 DEF Held
<1> QED
  BY <1>4, <1>5

LEMMA SweepSteps ==
  ASSUME TypeOK, NEW v \in Work, Row(v), SweepExpired PROVE Unmoved(v) \/ Held(v)
<1>1. \A i \in Number : attempt'[v][i] = IF Expired(v, i) THEN "lost" ELSE attempt[v][i]
  BY DEF SweepExpired
<1>2. UNCHANGED <<approved, tries, outcome, answered>>
  BY DEF SweepExpired
<1>3. CASE ~Collected(v)
  <2>1. attempt'[v] = attempt[v]
    BY <1>1, <1>3 DEF SweepExpired, Collected, TypeOK
  <2>2. \A n \in Number : ~AskedAndLost(v, n)
    BY <1>3 DEF Collected, AskedAndLost
  <2>3. state'[v] = state[v] /\ exec'[v] = exec[v] /\ resume'[v] = resume[v]
    BY <1>3, <2>2 DEF SweepExpired
  <2> QED
    BY <1>2, <2>1, <2>3 DEF Unmoved, PastKept
<1>4. CASE Collected(v)
  <2>1. PICK n \in Number : Expired(v, n)
    BY <1>4 DEF Collected
  <2>2. n = tries[v] /\ state[v] \in Active /\ lease[v][n] = 0
    BY <2>1, OpenIsNewest DEF Expired
  <2>3. \A i \in Number : Expired(v, i) => i = tries[v]
    BY OpenIsNewest DEF Expired
  <2>4. attempt'[v] = [attempt[v] EXCEPT ![tries[v]] = "lost"]
    BY <1>1, <2>1, <2>2, <2>3 DEF SweepExpired, TypeOK
  <2>5. state'[v] = "failed"
    BY <1>4, <2>2 DEF SweepExpired
  <2>6. resume'[v] = CheckpointAfter(v, tries[v], "failed")
    BY <2>1, <2>2, <2>3 DEF SweepExpired, AskedAndLost, CheckpointAfter
  <2> QED
    BY <1>2, <2>2, <2>4, <2>5, <2>6 DEF Held, Lost
<1> QED
  BY <1>3, <1>4

\* The transactions that neither admit Work nor open it again after it ended.
Plain ==
  \/ \E w \in Work : ApproveWork(w) \/ AnswerWork(w) \/ CancelSession(w)
  \/ \E r \in Run : CancelRun(r)
  \/ \E ws \in SUBSET Work : DisableRepository(ws)
  \/ SetFactoryPause \/ RegisterWorker \/ Tick \/ SweepExpired
  \/ \E k \in Worker : Claim(k)
  \/ \E w \in Work, n \in Number : Hold(w, n)

Reopening ==
  \/ Admit
  \/ \E w \in Work : RetrySession(w)
  \/ \E old, w \in Work : ReplaceWork(old, w)

Moved(v) == \/ Unmoved(v) \/ Consented(v) \/ Resumed(v) \/ Dropped(v) \/ Shifted(v)
            \/ Taken(v) \/ Held(v)

LEMMA PlainSteps == ASSUME TypeOK, NEW v \in Work, Row(v), Plain PROVE Moved(v)
<1>1. ASSUME NEW w \in Work, CancelSession(w) PROVE Moved(v)
  BY <1>1, CancelSteps DEF CancelSession, Moved
<1>2. ASSUME NEW r \in Run, CancelRun(r) PROVE Moved(v)
  <2>1. Members(r) \in SUBSET Work
    BY DEF Members
  <2> QED
    BY <1>2, <2>1, CancelSteps DEF CancelRun, Moved
<1>3. CASE SetFactoryPause \/ RegisterWorker \/ Tick
  BY <1>3 DEF SetFactoryPause, RegisterWorker, Tick, Moved, Unmoved, PastKept, sessionVars,
              executionVars, attemptVars
<1>4. ASSUME NEW w \in Work, NEW n \in Number, Hold(w, n) PROVE Moved(v)
  <2>1. CASE Heartbeat(w, n)
    BY <2>1 DEF Heartbeat, Moved, Unmoved, PastKept, sessionVars, executionVars
  <2> QED
    BY <1>4, <2>1, StartSteps, UpdateSteps, CompleteSteps DEF Hold, Exit, Moved
<1> QED
  BY <1>1, <1>2, <1>3, <1>4, ApproveSteps, AnswerSteps, DisableSteps, ClaimSteps, SweepSteps
     DEF Plain, Moved

LEMMA NextKinds == [Next]_vars => Plain \/ Reopening \/ UNCHANGED vars
BY DEF Next, Operate, Plain, Reopening

LEMMA NextSteps ==
  ASSUME TypeOK, NEW v \in Work, Row(v), [Next]_vars PROVE WorkStep(v)
<1>1. CASE Plain
  BY <1>1, PlainSteps DEF Moved, WorkStep
<1>2. CASE Reopening
  BY <1>2, AdmitSteps, RetrySteps, ReplaceSteps DEF Reopening, WorkStep
<1>3. CASE UNCHANGED vars
  BY <1>3 DEF vars, Unmoved, PastKept, WorkStep, sessionVars, executionVars, attemptVars
<1> QED
  BY <1>1, <1>2, <1>3, NextKinds

-----------------------------------------------------------------------------
(* What each step keeps of the history of v.                               *)

Gate(v) ==
  RunOf[v] \in GatedRun /\ ~approved[v] =>
    state[v] \in {"absent", "draft", "cancelled"} /\ exec[v] = "none" /\ tries[v] = 0

Backed(v) ==
  /\ state[v] \in {"ready", "no-change", "needs-input"} =>
       /\ RunOf[v] \in AgentUpdateRun
       /\ tries[v] > 0 /\ attempt[v][tries[v]] = "succeeded"
       /\ outcome[v][tries[v]] = state[v]
  /\ state[v] = "succeeded" => /\ RunOf[v] \notin AgentUpdateRun
                               /\ tries[v] > 0 /\ attempt[v][tries[v]] = "succeeded"

\* The checkpoint of v, and beside it: an answered question is a past one.
Checkpoint(v) ==
  resume[v] # 0 =>
    /\ outcome[v][resume[v]] = "needs-input"
    /\ \A n \in Number : n > resume[v] /\ outcome[v][n] = "needs-input"
                         => attempt[v][n] \in Active
Asking(v) ==
  state[v] = "needs-input" =>
    /\ tries[v] > 0 /\ outcome[v][tries[v]] = "needs-input" /\ resume[v] = tries[v]
    /\ LatestQuestion(v, tries[v]) /\ tries[v] \notin answered[v]
PastAnswers(v) == \A n \in answered[v] : attempt[v][n] \in AttemptEnd

History(v) == Row(v) /\ Gate(v) /\ Backed(v) /\ Checkpoint(v) /\ Asking(v) /\ PastAnswers(v)

LEMMA HeldNewest ==
  ASSUME TypeOK, NEW v \in Work, Row(v), Held(v)
  PROVE  /\ attempt[v][tries[v]] \in Active
         /\ \A n \in Number : n # tries[v] => attempt'[v][n] = attempt[v][n]
<1>1. DOMAIN attempt[v] = Number /\ tries[v] \in Number
  BY DEF TypeOK, Held
<1>2. state[v] \in Active
  BY DEF Held, Begun, Consumed, Reported, Completed, Lost, Active
<1>3. attempt'[v] = attempt[v] \/ \E s : attempt'[v] = [attempt[v] EXCEPT ![tries[v]] = s]
  <2>1. CASE Completed(v)
    BY <2>1 DEF Completed
  <2>2. CASE ~Completed(v)
    BY <2>2 DEF Held, Begun, Consumed, Reported, Lost
  <2> QED
    BY <2>1, <2>2
<1>4. \A n \in Number : n # tries[v] => attempt'[v][n] = attempt[v][n]
  BY <1>1, <1>3
<1> QED
  BY <1>2, <1>4 DEF Row, RowsAgree, Active

LEMMA GateStep ==
  ASSUME TypeOK, NEW v \in Work, Row(v), WorkStep(v), Gate(v) PROVE Gate(v)'
<1>1. CASE Unmoved(v)
  BY <1>1 DEF Gate, Unmoved, PastKept
<1>2. CASE Admitted(v)
  BY <1>2 DEF Gate, Admitted, PastKept
<1>3. CASE Consented(v)
  BY <1>3 DEF Gate, Consented
<1>4. CASE Retried(v)
  BY <1>4 DEF Gate, Retried, RetryGuards
<1>5. CASE Dropped(v)
  BY <1>5 DEF Gate, Dropped, PastKept, Nonterminal
<1>6. CASE Resumed(v) \/ Shifted(v) \/ Taken(v) \/ Held(v)
  <2>1. state[v] \notin {"absent", "draft", "cancelled"} /\ approved'[v] = approved[v]
    BY <1>6 DEF Resumed, Shifted, Taken, Held, Begun, Consumed, Reported, Completed, Lost, Active
  <2> QED
    BY <2>1 DEF Gate
<1> QED
  BY <1>1, <1>2, <1>3, <1>4, <1>5, <1>6 DEF WorkStep

LEMMA BackedStep ==
  ASSUME TypeOK, NEW v \in Work, Row(v), WorkStep(v), Backed(v) PROVE Backed(v)'
<1>1. CASE Unmoved(v)
  BY <1>1 DEF Backed, Unmoved, PastKept
<1>2. CASE Completed(v) /\ tries[v] \in Number
  <2>1. PICK reported \in Exit :
          LET end == EndOf(v, tries[v], reported) IN
          /\ attempt'[v] = [attempt[v] EXCEPT ![tries[v]] = end]
          /\ state'[v] = WorkStateOf(v, tries[v], end)
    BY <1>2 DEF Completed
  <2> DEFINE end == EndOf(v, tries[v], reported)
  <2>2. end \in Exit /\ outcome[v][tries[v]] \in {"none"} \cup Ending
    BY <1>2, EndTyped DEF TypeOK
  <2>3. /\ attempt'[v] = [attempt[v] EXCEPT ![tries[v]] = end]
        /\ state'[v] = WorkStateOf(v, tries[v], end)
    BY <2>1
  <2> HIDE DEF end
  <2>4. tries'[v] = tries[v] /\ outcome'[v] = outcome[v] /\ tries[v] > 0
    BY <1>2, BoundAssumption DEF Completed, Number
  <2>5. attempt'[v][tries[v]] = end
    BY <1>2, <2>3 DEF TypeOK
  <2> QED
    BY <2>2, <2>3, <2>4, <2>5 DEF Backed, WorkStateOf, Exit, Ending
<1>3. CASE /\ ~Unmoved(v)
           /\ ~(Completed(v) /\ tries[v] \in Number)
  <2>1. state'[v] \notin {"ready", "no-change", "needs-input", "succeeded"}
    BY <1>3 DEF WorkStep, Admitted, Consented, Retried, Resumed, Dropped, Shifted, Taken,
                Held, Begun, Consumed, Reported, Lost
  <2> QED
    BY <2>1 DEF Backed
<1> QED
  BY <1>1, <1>2, <1>3

\* Nothing is known of attempts that were not opened, and a question of an
\* attempt that is not open stands.
LEMMA AskedWithinTries ==
  ASSUME TypeOK, NEW v \in Work, Row(v), NEW n \in Number, outcome[v][n] # "none"
  PROVE  n <= tries[v] /\ tries[v] \in Number
<1>1. tries[v] \in {0} \cup Number /\ n \in Nat \ {0}
  BY BoundAssumption DEF TypeOK, Number
<1>2. ~(n > tries[v])
  BY DEF Row, OnlyNewestOpen
<1> QED
  BY <1>1, <1>2, BoundAssumption DEF Number

LEMMA CheckpointStays ==
  ASSUME TypeOK, NEW v \in Work, Row(v), WorkStep(v), Checkpoint(v) PROVE Checkpoint(v)'
<1>1. /\ resume[v] \in {0} \cup Number /\ tries[v] \in {0} \cup Number
      /\ \A n \in Number : n \in Nat \ {0}
  BY BoundAssumption DEF TypeOK, Number
<1>2. CASE /\ attempt'[v] = attempt[v] /\ outcome'[v] = outcome[v]
           /\ resume'[v] = resume[v] \/ resume'[v] = 0
  BY <1>2 DEF Checkpoint
<1>3. CASE Taken(v)
  <2>1. \A n \in Number : n # tries[v] + 1 => attempt'[v][n] = attempt[v][n]
    BY <1>3 DEF Taken, TypeOK
  <2>2. outcome[v][tries[v] + 1] = "none"
    BY <1>1, <1>3 DEF Taken, Row, OnlyNewestOpen, Number
  <2> QED
    BY <1>3, <2>1, <2>2 DEF Checkpoint, Taken
<1>4. CASE Held(v)
  <2>1. tries[v] \in Number
    BY <1>4 DEF Held
  <2>2. CASE Begun(v)
    <3>1. \A n \in Number : attempt[v][n] \in Active => attempt'[v][n] \in Active
      BY <2>1, <2>2 DEF Begun, TypeOK, Active
    <3> QED
      BY <2>2, <3>1 DEF Begun, Checkpoint
  <2>3. CASE Consumed(v)
    BY <1>2, <2>3 DEF Consumed
  <2>4. CASE Reported(v)
    <3>1. \A n \in Number : n # tries[v] => outcome'[v][n] = outcome[v][n]
      BY <2>1, <2>4 DEF Reported, TypeOK
    <3>2. resume[v] # 0 => resume[v] # tries[v]
      BY <2>4 DEF Reported, Checkpoint
    <3> QED
      BY <1>1, <2>4, <3>1, <3>2 DEF Reported, Checkpoint, Active
  <2>5. CASE Completed(v) \/ Lost(v)
    <3>1. \A n \in Number : n # tries[v] => attempt'[v][n] = attempt[v][n]
      BY <1>4, HeldNewest
    <3>2. outcome'[v] = outcome[v] /\ tries'[v] = tries[v]
      BY <2>5 DEF Completed, Lost
    <3>3. CASE outcome[v][tries[v]] = "needs-input"
      <4>1. resume'[v] = tries[v]
        BY <2>5, <3>3 DEF Completed, Lost, CheckpointAfter
      <4>2. \A n \in Number : n > tries[v] => outcome[v][n] = "none"
        BY DEF Row, OnlyNewestOpen
      <4> QED
        BY <3>2, <3>3, <4>1, <4>2 DEF Checkpoint
    <3>4. CASE outcome[v][tries[v]] # "needs-input"
      <4>1. resume'[v] = resume[v]
        BY <2>5, <3>4 DEF Completed, Lost, CheckpointAfter
      <4> QED
        BY <1>1, <3>1, <3>2, <3>4, <4>1 DEF Checkpoint
    <3> QED
      BY <3>3, <3>4
  <2> QED
    BY <1>4, <2>2, <2>3, <2>4, <2>5 DEF Held
<1>5. CASE ~Taken(v) /\ ~Held(v)
  BY <1>2, <1>5 DEF WorkStep, Unmoved, Admitted, Consented, Retried, Resumed, Dropped, Shifted,
                    PastKept
<1> QED
  BY <1>3, <1>4, <1>5

LEMMA PastAnswersStay ==
  ASSUME TypeOK, NEW v \in Work, Row(v), WorkStep(v), Asking(v), PastAnswers(v)
  PROVE  PastAnswers(v)'
<1>1. /\ answered[v] \subseteq Number /\ tries[v] \in {0} \cup Number
      /\ \A n \in Number : n \in Nat \ {0}
  BY BoundAssumption DEF TypeOK, Number
<1>2. CASE Resumed(v)
  <2>1. PICK n \in Number : LatestQuestion(v, n) /\ answered'[v] = answered[v] \cup {n}
    BY <1>2 DEF Resumed
  <2>2. tries[v] \in Number /\ LatestQuestion(v, tries[v]) /\ state[v] = "needs-input"
    BY <1>1, <1>2 DEF Resumed, Asking
  <2>3. n = tries[v]
    BY <1>1, <2>1, <2>2 DEF LatestQuestion
  <2>4. attempt[v][n] \in AttemptEnd
    <3>1. attempt[v][n] # "none"
      BY <2>2, <2>3 DEF Row, OnlyNewestOpen
    <3>2. attempt[v][n] \notin Active
      BY <2>2, <2>3, OpenIsNewest DEF Active
    <3> QED
      BY <3>1, <3>2 DEF TypeOK
  <2> QED
    BY <1>2, <2>1, <2>4 DEF Resumed, PastAnswers
<1>3. CASE Taken(v)
  <2>1. \A n \in Number : n # tries[v] + 1 => attempt'[v][n] = attempt[v][n]
    BY <1>3 DEF Taken, TypeOK
  <2>2. attempt[v][tries[v] + 1] = "none"
    BY <1>1, <1>3 DEF Taken, Row, OnlyNewestOpen, Number
  <2> QED
    BY <1>1, <1>3, <2>1, <2>2 DEF Taken, PastAnswers, AttemptEnd
<1>4. CASE Held(v)
  <2>1. attempt[v][tries[v]] \in Active
    BY <1>4, HeldNewest
  <2>2. \A n \in Number : n # tries[v] => attempt'[v][n] = attempt[v][n]
    BY <1>4, HeldNewest
  <2>3. answered'[v] = answered[v]
    BY <1>4 DEF Held, Begun, Consumed, Reported, Completed, Lost
  <2> QED
    BY <1>1, <2>1, <2>2, <2>3 DEF PastAnswers, Active, AttemptEnd
<1>5. CASE ~Resumed(v) /\ ~Taken(v) /\ ~Held(v)
  BY <1>5 DEF WorkStep, Unmoved, Admitted, Consented, Retried, Dropped, Shifted, PastKept,
              PastAnswers
<1> QED
  BY <1>2, <1>3, <1>4, <1>5

LEMMA AskingStays ==
  ASSUME TypeOK, NEW v \in Work, Row(v), WorkStep(v), Asking(v), PastAnswers(v)
  PROVE  Asking(v)'
<1>1. CASE Unmoved(v)
  BY <1>1 DEF Asking, LatestQuestion, Unmoved, PastKept
<1>2. CASE Completed(v) /\ tries[v] \in Number
  <2>1. CASE outcome[v][tries[v]] = "needs-input"
    <3>1. resume'[v] = tries[v] /\ outcome'[v] = outcome[v] /\ tries'[v] = tries[v]
          /\ answered'[v] = answered[v]
      BY <1>2, <2>1 DEF Completed, CheckpointAfter
    <3>2. attempt[v][tries[v]] \in Active
      BY <1>2 DEF Completed, Row, RowsAgree, Active
    <3>3. tries[v] \notin answered[v]
      BY <3>2 DEF PastAnswers, Active, AttemptEnd
    <3>4. LatestQuestion(v, tries[v])
      BY <1>2, <2>1, AskedWithinTries DEF LatestQuestion
    <3> QED
      BY <1>2, <2>1, <3>1, <3>3, <3>4 DEF Asking, LatestQuestion, Number
  <2>2. CASE outcome[v][tries[v]] # "needs-input"
    <3>1. PICK reported \in Exit : state'[v] = WorkStateOf(v, tries[v], EndOf(v, tries[v], reported))
      BY <1>2 DEF Completed
    <3>2. EndOf(v, tries[v], reported) \in Exit
      BY <1>2, EndTyped
    <3> QED
      BY <2>2, <3>1, <3>2 DEF Asking, WorkStateOf, Exit
  <2> QED
    BY <2>1, <2>2
<1>3. CASE /\ ~Unmoved(v)
           /\ ~(Completed(v) /\ tries[v] \in Number)
  <2>1. state'[v] # "needs-input"
    BY <1>3 DEF WorkStep, Admitted, Consented, Retried, Resumed, Dropped, Shifted, Taken,
                Held, Begun, Consumed, Reported, Lost
  <2> QED
    BY <2>1 DEF Asking
<1> QED
  BY <1>1, <1>2, <1>3

LEMMA HistoryStep ==
  ASSUME TypeOK, NEW v \in Work, History(v), [Next]_vars PROVE History(v)'
BY NextSteps, NextRows, GateStep, BackedStep, CheckpointStays, AskingStays, PastAnswersStay
   DEF History

HistoryInv == TypeOK /\ \A v \in Work : History(v)

LEMMA HistoryInvariant == Spec => []HistoryInv
<1>1. ASSUME Init, NEW v \in Work PROVE History(v)
  BY <1>1, InitRows DEF Init, History, Gate, Backed, Checkpoint, Asking, PastAnswers
<1>2. Init => HistoryInv
  BY <1>1, InitTyped DEF HistoryInv
<1>3. HistoryInv /\ [Next]_vars => HistoryInv'
  BY NextTyped, HistoryStep DEF HistoryInv
<1> QED
  BY <1>2, <1>3, PTL DEF Spec

\* Work that must be approved and is not was never given to a worker, whatever
\* cancels, retries or reroutes it (ApproveWork, validateWorkApproved).
THEOREM ConsentNeverBypassed == Spec => []UnapprovedNeverDispatched
<1>1. HistoryInv => UnapprovedNeverDispatched
  BY DEF HistoryInv, History, Gate, UnapprovedNeverDispatched
<1> QED
  BY <1>1, HistoryInvariant, PTL

\* A delivered or asking Work rests on what its newest attempt came to and
\* reported (CompleteAttempt).
THEOREM DeliveryBacked == Spec => []OutcomeBacked
<1>1. HistoryInv => OutcomeBacked
  BY DEF HistoryInv, History, Backed, OutcomeBacked
<1> QED
  BY <1>1, HistoryInvariant, PTL

\* The checkpoint is the newest one an ended attempt left, and a Work that asks
\* can be answered (AnswerWork).
THEOREM CheckpointNewest == Spec => []ResumesFromNewest
<1>1. HistoryInv => ResumesFromNewest
  BY DEF HistoryInv, History, Checkpoint, Asking, ResumesFromNewest
<1> QED
  BY <1>1, HistoryInvariant, PTL
-----------------------------------------------------------------------------
(* What an attempt came to, its fence and the checkpoint it left.          *)

\* No call renews the lease of an attempt that exists and has run out.
Fence(v) == \A n \in Number : attempt[v][n] # "none" /\ lease[v][n] = 0 => lease'[v][n] = 0

LEMMA NextUnopened ==
  ASSUME TypeOK, NEW v \in Work, Row(v), NEW n \in Number, n = tries[v] + 1
  PROVE  attempt[v][n] = "none"
<1>1. tries[v] \in Nat
  BY BoundAssumption DEF TypeOK, Number
<1>2. n > tries[v]
  BY <1>1
<1> QED
  BY <1>2 DEF Row, OnlyNewestOpen

LEMMA ClaimFence ==
  ASSUME TypeOK, NEW v \in Work, Row(v), NEW k \in Worker, Claim(k) PROVE Fence(v)
<1>1. PICK m \in OrNone(Fairest(Materializable)), q \in OrNone(Reroutable(k)) :
        \E c \in OrNone(Fairest(Claimable(k, m, q))) : Dispatch(k, m, q, c)
  BY DEF Claim
<1>2. PICK c \in OrNone(Fairest(Claimable(k, m, q))) : Dispatch(k, m, q, c)
  BY <1>1
<1>3. \A n \in Number : n = tries[v] + 1 => attempt[v][n] = "none"
  BY NextUnopened
<1>4. \A n \in Number : lease'[v][n] = IF v = c /\ n = tries[v] + 1 THEN LeaseTicks ELSE lease[v][n]
  BY <1>2 DEF Dispatch
<1> QED
  BY <1>3, <1>4 DEF Fence

LEMMA FenceHolds == ASSUME TypeOK, NEW v \in Work, Row(v), [Next]_vars PROVE Fence(v)
<1>1. CASE \E k \in Worker : Claim(k)
  BY <1>1, ClaimFence
<1>2. CASE Tick
  BY <1>2 DEF Tick, Fence
<1>3. ASSUME NEW w \in Work, NEW n \in Number, Hold(w, n) PROVE Fence(v)
  <2>1. \/ lease' = lease
        \/ lease[w][n] > 0 /\ lease' = [lease EXCEPT ![w][n] = LeaseTicks]
        \/ lease' = [lease EXCEPT ![w][n] = 0]
    BY <1>3 DEF Hold, StartAttempt, Heartbeat, AppendAgentUpdate, CompleteAttempt, OwnsLease
  <2>2. \A i \in Number : lease[v][i] = 0 => lease'[v][i] = 0
    <3>1. lease \in [Work -> [Number -> 0..LeaseTicks]] /\ n \in Number /\ w \in Work
      BY DEF TypeOK
    <3>2. CASE lease[w][n] > 0 /\ lease' = [lease EXCEPT ![w][n] = LeaseTicks]
      <4>1. lease[w][n] # 0
        BY <3>1, <3>2, BoundAssumption
      <4> QED
        BY <3>1, <3>2, <4>1
    <3>3. CASE lease' = [lease EXCEPT ![w][n] = 0] \/ lease' = lease
      BY <3>1, <3>3
    <3> QED
      BY <2>1, <3>2, <3>3
  <2> QED
    BY <2>2 DEF Fence
<1>4. CASE \/ Admit \/ Operate \/ RegisterWorker \/ SweepExpired \/ UNCHANGED vars
  <2>1. lease' = lease
    BY <1>4 DEF Admit, AdmitTask, AdmitBuild, InsertRun, Operate, ApproveWork, RetrySession,
       AnswerWork, ReplaceWork, CancelSession, CancelRun, CancelAll, DisableRepository,
       SetFactoryPause, RegisterWorker, SweepExpired, vars, attemptVars
  <2> QED
    BY <2>1 DEF Fence
<1> QED
  BY <1>1, <1>2, <1>3, <1>4 DEF Next

LEMMA FencedSteps ==
  ASSUME TypeOK, NEW v \in Work, Row(v), [Next]_vars, NEW n \in Number PROVE FencedStep(v, n)
<1> SUFFICES ASSUME attempt[v][n] # "none", lease[v][n] = 0 PROVE FencedStep(v, n)
  BY DEF FencedStep
<1>1. lease'[v][n] = 0
  BY FenceHolds DEF Fence
<1>2. WorkStep(v)
  BY NextSteps
<1>3. CASE Taken(v)
  <2>1. n # tries[v] + 1
    BY NextUnopened
  <2> QED
    BY <1>1, <1>3, <2>1 DEF Taken, FencedStep, TypeOK
<1>4. CASE Held(v)
  <2>1. CASE n # tries[v]
    <3>1. attempt'[v][n] = attempt[v][n]
      BY <1>4, <2>1, HeldNewest
    <3>2. outcome'[v][n] = outcome[v][n]
      <4>1. outcome'[v] = outcome[v] \/ \E s : outcome'[v] = [outcome[v] EXCEPT ![tries[v]] = s]
        BY <1>4 DEF Held, Begun, Consumed, Reported, Completed, Lost
      <4>2. DOMAIN outcome[v] = Number
        BY DEF TypeOK
      <4> QED
        BY <2>1, <4>1, <4>2
    <3> QED
      BY <1>1, <3>1, <3>2 DEF FencedStep
  <2>2. CASE n = tries[v]
    <3>1. attempt[v][n] \in Active
      BY <1>4, <2>2, HeldNewest
    <3>2. Consumed(v) \/ Lost(v)
      BY <1>4, <2>2 DEF Held, Begun, Reported, Completed
    <3>3. outcome'[v] = outcome[v]
      BY <3>2 DEF Consumed, Lost
    <3>4. attempt'[v][n] \in {attempt[v][n], "lost"}
      BY <2>2, <3>2 DEF Consumed, Lost, TypeOK
    <3> QED
      BY <1>1, <3>1, <3>3, <3>4 DEF FencedStep
  <2> QED
    BY <2>1, <2>2
<1>5. CASE ~Taken(v) /\ ~Held(v)
  BY <1>1, <1>2, <1>5 DEF WorkStep, Unmoved, Admitted, Consented, Retried, Resumed, Dropped,
                          Shifted, PastKept, FencedStep
<1> QED
  BY <1>3, <1>4, <1>5

LEMMA CancelledSteps ==
  ASSUME TypeOK, NEW v \in Work, WorkStep(v) PROVE CancelledStep(v)
<1> SUFFICES ASSUME cancel[v], state[v] \in Active
             PROVE  state'[v] \in Active \cup {"cancelled", "failed"}
  BY DEF CancelledStep
<1>1. CASE Completed(v)
  <2>1. PICK reported \in Exit : state'[v] = WorkStateOf(v, tries[v], EndOf(v, tries[v], reported))
    BY <1>1 DEF Completed
  <2>2. EndOf(v, tries[v], reported) = "cancelled"
    BY DEF EndOf
  <2> QED
    BY <2>1, <2>2 DEF WorkStateOf
<1>2. CASE ~Completed(v)
  BY <1>2 DEF WorkStep, Unmoved, PastKept, Admitted, Consented, Retried, Resumed, Dropped,
              Shifted, Taken, Held, Begun, Consumed, Reported, Lost, Active, Retryable
<1> QED
  BY <1>1, <1>2

LEMMA CheckpointSteps ==
  ASSUME TypeOK, NEW v \in Work, Row(v), Checkpoint(v), WorkStep(v) PROVE CheckpointStep(v)
<1> SUFFICES ASSUME resume[v] # 0, resume'[v] # resume[v] PROVE CheckpointStep(v)
  BY DEF CheckpointStep
<1>1. Held(v)
  BY DEF WorkStep, Unmoved, PastKept, Admitted, Consented, Retried, Resumed, Dropped,
         Shifted, Taken
<1>2. CASE Consumed(v)
  BY <1>2 DEF Consumed, CheckpointStep
<1>3. CASE Completed(v) \/ Lost(v)
  <2>1. resume'[v] = tries[v]
    BY <1>3 DEF Completed, Lost, CheckpointAfter
  <2>2. resume[v] \in Number /\ resume[v] <= tries[v] /\ tries[v] \in Number
    BY AskedWithinTries DEF Checkpoint, TypeOK
  <2> QED
    BY <2>1, <2>2, BoundAssumption DEF CheckpointStep, Number
<1> QED
  BY <1>1, <1>2, <1>3 DEF Held, Begun, Reported

\* What an attempt left behind stands: an attempt whose lease ran out can only be
\* lost, an ended one is frozen, a requested cancellation is obeyed, and the
\* checkpoint is kept until a runtime started from it or a newer one exists.
THEOREM ResultsKept == Spec => ResultsStand
<1>1. HistoryInv /\ [Next]_vars =>
        [\A w \in Work : CancelledStep(w) /\ \A n \in Number : FencedStep(w, n)]_vars
  BY NextSteps, FencedSteps, CancelledSteps DEF HistoryInv, History
<1>2. HistoryInv /\ [Next]_vars => [\A w \in Work : CheckpointStep(w)]_vars
  BY NextSteps, CheckpointSteps DEF HistoryInv, History
<1>3. Spec => EndsAsTold
  BY <1>1, HistoryInvariant, PTL DEF Spec, EndsAsTold
<1>4. Spec => CheckpointKept
  BY <1>2, HistoryInvariant, PTL DEF Spec, CheckpointKept
<1> QED
  BY <1>3, <1>4, PTL DEF ResultsStand

-----------------------------------------------------------------------------
(* Lineage: what became of a Work that was retried, replaced or rebuilt *)

\* A predecessor is terminal and stays so; the root of a chain pursues the same
\* item and was admitted.
Descent(v) ==
  /\ Issue[root[v]] = Issue[v]
  /\ state[v] = "absent" => root[v] = v /\ predecessor[v] = None
  /\ state[v] # "absent" => state[root[v]] # "absent"
  /\ predecessor[v] # None => state[predecessor[v]] \in Terminal

\* Two Work under way: different chains and different items.
Apart(v, w) ==
  v # w /\ state[v] \in Nonterminal /\ state[w] \in Nonterminal =>
    /\ root[v] # root[w]
    /\ Issue[v] = NoIssue \/ Issue[v] # Issue[w]

Head(v) == Issue[v] # NoIssue /\ state[v] # "absent" /\ ~Replaced(v)
OneHead(v, w) == Head(v) /\ Head(w) /\ Issue[v] = Issue[w] => v = w

Lineage ==
  /\ \A v \in Work : Descent(v)
  /\ \A v, w \in Work : Apart(v, w) /\ OneHead(v, w)

\* A step that admits nothing and opens nothing again.
Settled ==
  /\ root' = root /\ predecessor' = predecessor
  /\ \A v \in Work : /\ state'[v] = "absent" <=> state[v] = "absent"
                     /\ state'[v] \in Nonterminal => state[v] \in Nonterminal
                     /\ state[v] \in Terminal => state'[v] = state[v]

LEMMA SettledLineage == ASSUME TypeOK, Lineage, Settled PROVE Lineage'
<1>1. ASSUME NEW v \in Work PROVE Descent(v)'
  <2>1. root[v] \in Work /\ predecessor[v] \in Work \cup {None}
    BY DEF TypeOK
  <2> QED
    BY <2>1 DEF Lineage, Descent, Settled, TypeOK
<1>2. ASSUME NEW v \in Work, NEW w \in Work PROVE Apart(v, w)' /\ OneHead(v, w)'
  BY DEF Lineage, Apart, OneHead, Head, Replaced, Settled
<1> QED
  BY <1>1, <1>2 DEF Lineage

LEMMA MovedSettles ==
  ASSUME TypeOK, NEW v \in Work, Moved(v)
  PROVE  /\ state'[v] = "absent" <=> state[v] = "absent"
         /\ state'[v] \in Nonterminal => state[v] \in Nonterminal
         /\ state[v] \in Terminal => state'[v] = state[v]
<1>1. CASE Completed(v) /\ tries[v] \in Number
  <2>1. PICK reported \in Exit : state'[v] = WorkStateOf(v, tries[v], EndOf(v, tries[v], reported))
    BY <1>1 DEF Completed
  <2>2. state'[v] \in Ending \cup Exit
    BY <1>1, <2>1, EndTyped
  <2> QED
    BY <1>1, <2>2 DEF Completed, Ending, Exit, Nonterminal, Terminal, Active
<1>2. CASE ~(Completed(v) /\ tries[v] \in Number)
  BY <1>2 DEF Moved, Unmoved, Consented, Resumed, Dropped, Shifted, Taken, Held, Begun,
              Consumed, Reported, Lost, Nonterminal, Terminal, Active
<1> QED
  BY <1>1, <1>2

LEMMA PlainLineage ==
  ASSUME TypeOK, \A v \in Work : Row(v), Lineage, Plain PROVE Lineage'
<1>1. root' = root /\ predecessor' = predecessor
  BY DEF Plain, ApproveWork, AnswerWork, CancelSession, CancelRun, CancelAll, DisableRepository,
         SetFactoryPause, RegisterWorker, Tick, SweepExpired, Claim, Dispatch, Hold,
         StartAttempt, Heartbeat, AppendAgentUpdate, CompleteAttempt, sessionVars
<1>2. Settled
  BY <1>1, PlainSteps, MovedSettles DEF Settled
<1> QED
  BY <1>2, SettledLineage

\* No other Work of the item of w, or of its chain, is under way.
Alone(w) ==
  \A v \in Work \ {w} : state[v] \in Nonterminal =>
    /\ root[v] # root[w]
    /\ Issue[v] = NoIssue \/ Issue[v] # Issue[w]

LEMMA GuardsAlone ==
  ASSUME TypeOK, Lineage, NEW w \in Work, RetryGuards(w) PROVE Alone(w)
<1> SUFFICES ASSUME NEW v \in Work \ {w}, state[v] \in Nonterminal
             PROVE  root[v] # root[w] /\ (Issue[v] = NoIssue \/ Issue[v] # Issue[w])
  BY DEF Alone
<1>1. v \notin Kin(w)
  BY DEF RetryGuards
<1>2. Issue[root[v]] = Issue[v] /\ Issue[root[w]] = Issue[w]
  BY DEF Lineage, Descent
<1> QED
  BY <1>1, <1>2 DEF Kin

LEMMA RetryLineage ==
  ASSUME TypeOK, Lineage, NEW w \in Work, RetrySession(w) PROVE Lineage'
<1>1. /\ state' = [state EXCEPT ![w] = "queued"]
      /\ root' = root /\ predecessor' = predecessor
      /\ state[w] \in Terminal /\ ~Replaced(w) /\ RetryGuards(w)
  BY DEF RetrySession, Retryable, Terminal, RetryGuards
<1>2. Alone(w)
  BY <1>1, GuardsAlone
<1>3. ASSUME NEW v \in Work PROVE Descent(v)'
  <2>1. root[v] \in Work /\ predecessor[v] \in Work \cup {None}
    BY DEF TypeOK
  <2> QED
    BY <1>1, <2>1 DEF Lineage, Descent, Replaced, TypeOK, Terminal
<1>4. ASSUME NEW v \in Work, NEW u \in Work PROVE Apart(v, u)'
  BY <1>1, <1>2 DEF Lineage, Apart, Alone, TypeOK
<1>5. ASSUME NEW v \in Work, NEW u \in Work PROVE OneHead(v, u)'
  BY <1>1 DEF Lineage, OneHead, Head, Replaced, TypeOK, Terminal
<1> QED
  BY <1>3, <1>4, <1>5 DEF Lineage

\* A predecessor was admitted, so Work that was not has none that descends from it.
LEMMA AbsentUnreplaced ==
  ASSUME TypeOK, Lineage, NEW w \in Work, state[w] = "absent"
  PROVE  ~Replaced(w) /\ \A v \in Work : state[v] # "absent" => root[v] # w
<1>1. ~Replaced(w)
  <2> SUFFICES ASSUME NEW v \in Work, predecessor[v] = w PROVE FALSE
    BY DEF Replaced
  <2>1. state[w] \in Terminal
    BY WorkAssumption DEF Lineage, Descent
  <2> QED
    BY <2>1 DEF Terminal
<1>2. ASSUME NEW v \in Work, state[v] # "absent" PROVE root[v] # w
  BY <1>2 DEF Lineage, Descent
<1> QED
  BY <1>1, <1>2

LEMMA ReplaceLineage ==
  ASSUME TypeOK, Lineage, NEW old \in Work, NEW w \in Work, ReplaceWork(old, w)
  PROVE  Lineage'
<1>1. /\ predecessor' = [predecessor EXCEPT ![w] = old]
      /\ root' = [root EXCEPT ![w] = root[old]]
      /\ state[old] \in Terminal /\ state[w] = "absent" /\ w # old
      /\ Issue[w] = Issue[old] /\ RetryGuards(old)
  BY DEF ReplaceWork, Replaceable, Terminal
<1>2. PICK s \in {"blocked", "queued"} : state' = [state EXCEPT ![w] = s]
  BY DEF ReplaceWork, Waiting
<1>3. Alone(old) /\ ~Replaced(w) /\ \A v \in Work : state[v] # "absent" => root[v] # w
  BY <1>1, GuardsAlone, AbsentUnreplaced
<1>4. root[old] \in Work /\ root[old] # w /\ Issue[root[old]] = Issue[old]
      /\ state[root[old]] # "absent"
  BY <1>1, <1>3 DEF Lineage, Descent, TypeOK, Terminal
<1>5. ASSUME NEW v \in Work PROVE Descent(v)'
  <2>1. root[v] \in Work /\ predecessor[v] \in Work \cup {None}
    BY DEF TypeOK
  <2>2. CASE v = w
    BY <1>1, <1>2, <1>4, <2>2 DEF Descent, TypeOK
  <2>3. CASE v # w
    <3>1. root'[v] = root[v] /\ predecessor'[v] = predecessor[v] /\ state'[v] = state[v]
      BY <1>1, <1>2, <2>3 DEF TypeOK
    <3>2. predecessor[v] # None => predecessor[v] # w
      BY <1>3 DEF Replaced
    <3> QED
      BY <1>2, <2>1, <3>1, <3>2 DEF Lineage, Descent, TypeOK
  <2> QED
    BY <2>2, <2>3
<1>6. ASSUME NEW v \in Work, v # w PROVE Apart(v, w)' /\ Apart(w, v)'
  <2>1. root'[v] = root[v] /\ state'[v] = state[v] /\ root'[w] = root[old]
    BY <1>1, <1>2, <1>6 DEF TypeOK
  <2> QED
    BY <1>1, <1>3, <2>1 DEF Apart, Alone, Terminal, Nonterminal
<1>7. ASSUME NEW v \in Work, NEW u \in Work, v # w, u # w PROVE Apart(v, u)'
  BY <1>1, <1>2, <1>7 DEF Lineage, Apart, TypeOK
<1>8. ASSUME NEW v \in Work, Head(v)' PROVE v = w \/ (Head(v) /\ v # old)
  <2>1. CASE v # w
    <3>1. state'[v] = state[v]
      BY <1>2, <2>1 DEF TypeOK
    <3>2. predecessor'[w] = old
      BY <1>1 DEF TypeOK
    <3>3. predecessor[w] = None
      BY <1>1 DEF Lineage, Descent
    <3>4. \A u \in Work : predecessor[u] = v => predecessor'[u] = v
      BY <1>1, <3>3, WorkAssumption DEF TypeOK
    <3> QED
      BY <1>8, <3>1, <3>2, <3>4 DEF Head, Replaced
  <2> QED
    BY <2>1
<1>9. Issue[w] # NoIssue => Head(old)
  BY <1>1 DEF Head, RetryGuards, Terminal
<1>10. ASSUME NEW v \in Work, NEW u \in Work PROVE OneHead(v, u)'
  <2> SUFFICES ASSUME Head(v)', Head(u)', Issue[v] = Issue[u] PROVE v = u
    BY DEF OneHead
  <2>1. CASE v = w \/ u = w
    <3>1. Issue[w] # NoIssue
      BY <2>1 DEF Head
    <3> QED
      BY <1>1, <1>8, <1>9, <2>1, <3>1 DEF Lineage, OneHead
  <2>2. CASE v # w /\ u # w
    BY <1>8, <2>2 DEF Lineage, OneHead
  <2> QED
    BY <2>1, <2>2
<1>11. ASSUME NEW v \in Work, NEW u \in Work PROVE Apart(v, u)'
  <2>1. CASE v = u
    BY <2>1 DEF Apart
  <2> QED
    BY <1>6, <1>7, <2>1
<1> QED
  BY <1>5, <1>10, <1>11 DEF Lineage

\* Admission of r: its members were absent, nothing else changes its state.
Admission(r) ==
  /\ \A v \in Members(r) : state[v] = "absent" /\ state'[v] \in {"draft", "blocked", "queued"}
  /\ \A v \in Work \ Members(r) : state'[v] = state[v]

LEMMA TaskAdmission ==
  ASSUME TypeOK, NEW r \in Run, AdmitTask(r)
  PROVE  Admission(r) /\ root' = root /\ predecessor' = predecessor
         /\ \A v \in Members(r) : Issue[v] = NoIssue
<1>1. root' = root /\ predecessor' = predecessor
  BY DEF AdmitTask
<1>2. \A v \in Members(r) : state[v] = "absent" /\ Issue[v] = NoIssue
  BY DEF AdmitTask
<1>3. \A v \in Work : state'[v] = state[v] \/ RunOf[v] = r
  BY DEF AdmitTask, InsertRun
<1>4. \A v \in Work : RunOf[v] = r => state'[v] \in {"draft", "blocked", "queued"}
  BY DEF AdmitTask, InsertRun
<1> QED
  BY <1>1, <1>2, <1>3, <1>4 DEF Admission, Members

LEMMA TaskLineage == ASSUME TypeOK, Lineage, NEW r \in Run, AdmitTask(r) PROVE Lineage'
<1>1. /\ Admission(r) /\ root' = root /\ predecessor' = predecessor
      /\ \A v \in Members(r) : Issue[v] = NoIssue
  BY TaskAdmission
<1>2. \A v \in Work : \/ v \notin Members(r) /\ state'[v] = state[v]
                      \/ /\ v \in Members(r) /\ root[v] = v /\ predecessor[v] = None
                         /\ Issue[v] = NoIssue /\ ~Replaced(v)
                         /\ state[v] = "absent" /\ state'[v] # "absent"
  BY <1>1, AbsentUnreplaced DEF Admission, Lineage, Descent
<1>3. ASSUME NEW v \in Work PROVE Descent(v)'
  <2>1. root[v] \in Work /\ predecessor[v] \in Work \cup {None}
    BY DEF TypeOK
  <2>2. state[root[v]] # "absent" => state'[root[v]] # "absent"
    BY <1>2, <2>1
  <2>3. predecessor[v] # None => state'[predecessor[v]] \in Terminal
    BY <1>2, <2>1 DEF Lineage, Descent, Terminal
  <2> QED
    BY <1>1, <1>2, <2>2, <2>3 DEF Lineage, Descent
<1>4. ASSUME NEW v \in Work, NEW u \in Work PROVE Apart(v, u)'
  <2>1. CASE v \notin Members(r) /\ u \notin Members(r)
    BY <1>1, <1>2, <2>1 DEF Lineage, Apart
  <2>2. CASE v \in Members(r)
    BY <1>1, <1>2, <2>2, AbsentUnreplaced DEF Apart, Nonterminal
  <2>3. CASE u \in Members(r)
    BY <1>1, <1>2, <2>3, AbsentUnreplaced DEF Apart, Nonterminal
  <2> QED
    BY <2>1, <2>2, <2>3
<1>5. ASSUME NEW v \in Work, Head(v)' PROVE Head(v)
  BY <1>1, <1>2, <1>5 DEF Head, Replaced
<1>6. ASSUME NEW v \in Work, NEW u \in Work PROVE OneHead(v, u)'
  BY <1>5 DEF Lineage, OneHead
<1> QED
  BY <1>3, <1>4, <1>6 DEF Lineage

\* What a build writes about the chains: its members take over from old.
BuildChains(r, rebuild, old) ==
  /\ old \in [Members(r) -> Work \cup {None}]
  /\ \A w \in Members(r) : IF rebuild THEN old[w] \in Rebuildable(w) ELSE old[w] = None
  /\ predecessor' = [w \in Work |-> IF RunOf[w] = r THEN old[w] ELSE predecessor[w]]
  /\ root' = [w \in Work |-> IF RunOf[w] = r /\ rebuild THEN root[old[w]] ELSE root[w]]

LEMMA BuildAdmission ==
  ASSUME TypeOK, NEW r \in Run, NEW rebuild \in BOOLEAN, AdmitBuild(r, rebuild)
  PROVE  /\ Admission(r)
         /\ \A w \in Members(r) : /\ Issue[w] # NoIssue /\ ~Pursued(w)
                                  /\ Rebuildable(w) # {} <=> rebuild
                                  /\ \A v \in Members(r) : v # w => Issue[v] # Issue[w]
         /\ \E old : BuildChains(r, rebuild, old)
<1>1. \A w \in Members(r) : /\ state[w] = "absent" /\ Issue[w] # NoIssue /\ ~Pursued(w)
                            /\ Rebuildable(w) # {} <=> rebuild
                            /\ \A v \in Members(r) : v # w => Issue[v] # Issue[w]
  BY DEF AdmitBuild
<1>2. \A v \in Work : state'[v] = state[v] \/ RunOf[v] = r
  BY DEF AdmitBuild, InsertRun
<1>3. \A v \in Work : RunOf[v] = r => state'[v] \in {"draft", "blocked", "queued"}
  BY DEF AdmitBuild, InsertRun
<1>4. \E old : BuildChains(r, rebuild, old)
  BY DEF AdmitBuild, BuildChains
<1>5. Admission(r)
  BY <1>1, <1>2, <1>3 DEF Admission, Members
<1> QED
  BY <1>1, <1>4, <1>5

LEMMA BuildLineage ==
  ASSUME TypeOK, Lineage, NEW r \in Run, NEW rebuild \in BOOLEAN, AdmitBuild(r, rebuild)
  PROVE  Lineage'
<1>1. PICK old : BuildChains(r, rebuild, old)
  BY BuildAdmission
<1>2. ASSUME NEW v \in Work, v \notin Members(r)
      PROVE  state'[v] = state[v] /\ root'[v] = root[v] /\ predecessor'[v] = predecessor[v]
  BY <1>1, <1>2, BuildAdmission DEF Admission, BuildChains, Members
<1>3. ASSUME NEW v \in Members(r)
      PROVE  /\ state[v] = "absent" /\ root[v] = v /\ predecessor[v] = None /\ ~Replaced(v)
             /\ state'[v] # "absent" /\ state'[v] \notin Terminal /\ Issue[v] # NoIssue
             /\ \A u \in Work : state[u] # "absent" => root[u] # v
  <2>1. v \in Work
    BY DEF Members
  <2> QED
    BY <2>1, BuildAdmission, AbsentUnreplaced DEF Admission, Lineage, Descent, Terminal
<1>4. ASSUME NEW v \in Members(r), rebuild
      PROVE  /\ old[v] \in Work /\ state[old[v]] \in Terminal /\ ~Replaced(old[v])
             /\ Issue[old[v]] = Issue[v]
             /\ predecessor'[v] = old[v] /\ root'[v] = root[old[v]]
  BY <1>1, <1>4 DEF BuildChains, Rebuildable, SameIssue, Members
<1>5. ASSUME NEW v \in Members(r), ~rebuild PROVE predecessor'[v] = None /\ root'[v] = v
  BY <1>1, <1>3, <1>5 DEF BuildChains, Members
<1>6. ASSUME NEW v \in Work PROVE Descent(v)'
  <2>1. root[v] \in Work /\ predecessor[v] \in Work \cup {None}
    BY DEF TypeOK
  <2>2. CASE v \notin Members(r)
    <3>1. state[root[v]] # "absent" => state'[root[v]] # "absent"
      BY <1>2, <1>3, <2>1
    <3>2. predecessor[v] # None => state'[predecessor[v]] \in Terminal
      BY <1>2, <1>3, <2>1 DEF Lineage, Descent, Terminal
    <3> QED
      BY <1>2, <2>2, <3>1, <3>2 DEF Lineage, Descent
  <2>3. CASE v \in Members(r) /\ rebuild
    <3>1. /\ root[old[v]] \in Work /\ Issue[root[old[v]]] = Issue[v]
          /\ state[root[old[v]]] # "absent"
      BY <1>4, <2>3 DEF Lineage, Descent, TypeOK, Terminal
    <3>2. state'[root[old[v]]] # "absent"
      BY <1>2, <1>3, <3>1
    <3>3. state'[old[v]] \in Terminal
      BY <1>2, <1>3, <1>4, <2>3 DEF Terminal
    <3> QED
      BY <1>3, <1>4, <2>3, <3>1, <3>2, <3>3 DEF Descent
  <2>4. CASE v \in Members(r) /\ ~rebuild
    BY <1>3, <1>5, <2>4 DEF Descent
  <2> QED
    BY <2>2, <2>3, <2>4
<1>7. ASSUME NEW v \in Work, NEW w \in Members(r), v # w, state'[v] \in Nonterminal
      PROVE  Issue[v] # Issue[w]
  <2>1. CASE v \in Members(r)
    BY <1>7, <2>1, BuildAdmission
  <2>2. CASE v \notin Members(r)
    <3>1. state[v] \in Nonterminal /\ state[v] # "absent"
      BY <1>2, <1>7, <2>2 DEF Nonterminal
    <3> QED
      BY <3>1, BuildAdmission DEF Pursued, SameIssue
  <2> QED
    BY <2>1, <2>2
<1>8. ASSUME NEW v \in Work, NEW u \in Work PROVE Apart(v, u)'
  <2> SUFFICES ASSUME v # u, state'[v] \in Nonterminal, state'[u] \in Nonterminal
               PROVE  root'[v] # root'[u] /\ (Issue[v] = NoIssue \/ Issue[v] # Issue[u])
    BY DEF Apart
  <2>1. CASE v \notin Members(r) /\ u \notin Members(r)
    BY <1>2, <2>1 DEF Lineage, Apart
  <2>2. CASE v \in Members(r) \/ u \in Members(r)
    <3>1. Issue[v] # Issue[u]
      BY <1>7, <2>2
    <3>2. Issue[root'[v]] = Issue[v] /\ Issue[root'[u]] = Issue[u]
      BY <1>6 DEF Descent
    <3> QED
      BY <3>1, <3>2
  <2> QED
    BY <2>1, <2>2
<1>9. ASSUME NEW v \in Work, Head(v)', v \notin Members(r) PROVE Head(v)
  <2>1. \A u \in Work : predecessor[u] = v => predecessor'[u] = v
    BY <1>2, <1>3, WorkAssumption
  <2> QED
    BY <1>2, <1>9, <2>1 DEF Head, Replaced
<1>10. ASSUME NEW v \in Work, NEW w \in Members(r), Head(v)', Issue[v] = Issue[w]
       PROVE  v = w
  <2> SUFFICES ASSUME v # w PROVE FALSE
    OBVIOUS
  <2>1. v \notin Members(r)
    BY <1>10, BuildAdmission
  <2>2. Head(v) /\ state[v] \in Nonterminal \cup Terminal
    BY <1>9, <1>10, <2>1 DEF Head, TypeOK
  <2>3. v \in SameIssue(w)
    BY <1>10, <2>2 DEF SameIssue, Head
  <2>4. v \in Rebuildable(w)
    BY <2>2, <2>3, BuildAdmission DEF Pursued, Rebuildable, Head
  <2>5. rebuild
    BY <2>4, BuildAdmission
  <2>6. Head(old[w]) /\ old[w] \in Work /\ Issue[old[w]] = Issue[v]
    BY <1>3, <1>4, <1>10, <2>5 DEF Head, Terminal
  <2>7. old[w] = v
    BY <2>2, <2>6 DEF Lineage, OneHead
  <2>8. Replaced(v)' /\ w \in Work
    BY <1>4, <2>5, <2>7 DEF Replaced, Members
  <2> QED
    BY <1>10, <2>8 DEF Head
<1>11. ASSUME NEW v \in Work, NEW u \in Work PROVE OneHead(v, u)'
  <2> SUFFICES ASSUME Head(v)', Head(u)', Issue[v] = Issue[u] PROVE v = u
    BY DEF OneHead
  <2>1. CASE v \in Members(r) \/ u \in Members(r)
    BY <1>10, <2>1
  <2>2. CASE v \notin Members(r) /\ u \notin Members(r)
    BY <1>9, <2>2 DEF Lineage, OneHead
  <2> QED
    BY <2>1, <2>2
<1> QED
  BY <1>6, <1>8, <1>11 DEF Lineage

LEMMA NextLineage ==
  ASSUME TypeOK, \A v \in Work : Row(v), Lineage, [Next]_vars PROVE Lineage'
<1>1. CASE UNCHANGED vars
  <2>1. Settled
    BY <1>1 DEF vars, sessionVars, Settled
  <2> QED
    BY <2>1, SettledLineage
<1> QED
  BY <1>1, NextKinds, PlainLineage, TaskLineage, BuildLineage, RetryLineage, ReplaceLineage
     DEF Reopening, Admit

LineageInv == HistoryInv /\ Lineage

LEMMA LineageInvariant == Spec => []LineageInv
<1>1. Init => Lineage
  BY WorkAssumption DEF Init, Lineage, Descent, Apart, OneHead, Head, Nonterminal
<1>2. HistoryInv /\ Lineage /\ [Next]_vars => Lineage'
  BY NextLineage DEF HistoryInv, History
<1> QED
  BY <1>1, <1>2, HistoryInvariant, PTL DEF Spec, LineageInv

\* A work item has one history and at most one Work under way, whichever way
\* builds, rebuilds, retries and replacements meet.
THEOREM ItemsPursuedOnce == Spec => []OneLiveWorkPerItem
<1>1. LineageInv => OneLiveWorkPerItem
  BY DEF LineageInv, Lineage, Apart, OneHead, Head, OneLiveWorkPerItem, OneOpenPerLineage,
         OneHeadPerItem
<1> QED
  BY <1>1, LineageInvariant, PTL
-----------------------------------------------------------------------------
(* The refinement: each transaction is a step of WorkPromise, or none.     *)

LEMMA PhaseTyped == ASSUME NEW v \in Work PROVE PhaseOf(v) \in Promise!Phase
BY DEF PhaseOf, Promise!Phase

LEMMA CompletedMoves ==
  ASSUME TypeOK, NEW v \in Work, Completed(v), tries[v] \in Number
  PROVE  PhaseOf(v) = "held" /\ PhaseOf(v)' \in {"asking", "open", "closed"}
<1>1. PICK reported \in Exit : state'[v] = WorkStateOf(v, tries[v], EndOf(v, tries[v], reported))
  BY DEF Completed
<1>2. state'[v] \in Ending \cup Exit
  BY <1>1, EndTyped
<1>3. PhaseOf(v) = "held"
  BY DEF Completed, PhaseOf, Active
<1>4. PhaseOf(v)' \in {"asking", "open", "closed"}
  BY <1>2 DEF PhaseOf, Ending, Exit, Active
<1> QED
  BY <1>3, <1>4

\* Where a step takes the phase of v, and with it the number of its holders.
LEMMA StepMoves ==
  ASSUME TypeOK, NEW v \in Work, WorkStep(v)
  PROVE  \/ PhaseOf(v)' = PhaseOf(v) /\ tries'[v] = tries[v]
         \/ /\ <<PhaseOf(v), PhaseOf(v)'>> \in Promise!Moves
            /\ tries'[v] = IF PhaseOf(v)' = "held" THEN tries[v] + 1 ELSE tries[v]
<1>1. CASE Unmoved(v) \/ Shifted(v)
  BY <1>1 DEF Unmoved, Shifted, PastKept, PhaseOf, Active
<1>2. CASE Admitted(v) \/ Consented(v)
  BY <1>2 DEF Admitted, Consented, PastKept, PhaseOf, Promise!Moves, Active
<1>3. CASE Retried(v)
  BY <1>3 DEF Retried, Retryable, PastKept, PhaseOf, Promise!Moves, Active
<1>4. CASE Resumed(v) \/ Taken(v)
  BY <1>4 DEF Resumed, Taken, PhaseOf, Promise!Moves, Active
<1>5. CASE Dropped(v)
  BY <1>5 DEF Dropped, PastKept, PhaseOf, Promise!Moves, Nonterminal, Active
<1>6. CASE Completed(v) /\ tries[v] \in Number
  <2>1. tries'[v] = tries[v]
    BY <1>6 DEF Completed
  <2> QED
    BY <1>6, <2>1, CompletedMoves DEF Promise!Moves
<1>7. CASE Begun(v) \/ Consumed(v) \/ Reported(v) \/ Lost(v)
  BY <1>7 DEF Begun, Consumed, Reported, Lost, PhaseOf, Promise!Moves, Active
<1> QED
  BY <1>1, <1>2, <1>3, <1>4, <1>5, <1>6, <1>7 DEF WorkStep, Held

LEMMA ConsentKept == ASSUME TypeOK, NEW v \in Work, WorkStep(v), approved[v] PROVE approved'[v]
BY DEF WorkStep, Unmoved, Admitted, Consented, Retried, Resumed, Dropped, Shifted, Taken, Held,
       Begun, Consumed, Reported, Completed, Lost

\* Only Work that has ended is newly superseded, and no predecessor is forgotten.
LEMMA Superseding ==
  ASSUME TypeOK, \A v \in Work : Row(v), Lineage, [Next]_vars, NEW v \in Work
  PROVE  /\ Replaced(v) => Replaced(v)'
         /\ Replaced(v)' => Replaced(v) \/ state[v] \in Terminal
<1>1. CASE predecessor' = predecessor
  BY <1>1 DEF Replaced
<1>2. ASSUME NEW old \in Work, NEW w \in Work, ReplaceWork(old, w)
      PROVE  /\ Replaced(v) => Replaced(v)'
             /\ Replaced(v)' => Replaced(v) \/ state[v] \in Terminal
  <2>1. /\ predecessor' = [predecessor EXCEPT ![w] = old]
        /\ state[old] \in Terminal /\ predecessor[w] = None
    BY <1>2 DEF ReplaceWork, Replaceable, Lineage, Descent
  <2> QED
    BY <2>1, WorkAssumption DEF Replaced, TypeOK
<1>3. ASSUME NEW r \in Run, NEW rebuild \in BOOLEAN, AdmitBuild(r, rebuild)
      PROVE  /\ Replaced(v) => Replaced(v)'
             /\ Replaced(v)' => Replaced(v) \/ state[v] \in Terminal
  <2>1. PICK old : BuildChains(r, rebuild, old)
    BY <1>3, BuildAdmission
  <2>2. \A u \in Members(r) : predecessor[u] = None
    BY <1>3, BuildAdmission DEF Admission, Lineage, Descent, Members
  <2>3. \A u \in Work : \/ predecessor'[u] = predecessor[u]
                        \/ /\ predecessor[u] = None
                           /\ predecessor'[u] # None => state[predecessor'[u]] \in Terminal
    BY <2>1, <2>2 DEF BuildChains, Members, Rebuildable
  <2> QED
    BY <2>3, WorkAssumption DEF Replaced
<1>4. ASSUME NEW r \in Run, AdmitTask(r) PROVE predecessor' = predecessor
  BY <1>4, TaskAdmission
<1>5. CASE Plain \/ UNCHANGED vars \/ \E w \in Work : RetrySession(w)
  BY <1>1, <1>5
     DEF Plain, ApproveWork, AnswerWork, CancelSession, CancelRun, CancelAll, DisableRepository,
         SetFactoryPause, RegisterWorker, Tick, SweepExpired, Claim, Dispatch, Hold,
         StartAttempt, Heartbeat, AppendAgentUpdate, CompleteAttempt, RetrySession, vars,
         sessionVars
<1> QED
  BY <1>1, <1>2, <1>3, <1>4, <1>5, NextKinds DEF Reopening, Admit

LEMMA InitPromise == Init => Promise!Init
<1> SUFFICES ASSUME Init PROVE Promise!Init
  OBVIOUS
<1>1. ASSUME NEW w \in Work PROVE PhaseOf(w) = "unknown" /\ ~approved[w] /\ ~Replaced(w)
  <2>1. state[w] = "absent" /\ approved[w] = FALSE
    BY DEF Init
  <2>2. ~Replaced(w)
    BY WorkAssumption DEF Init, Replaced
  <2>3. PhaseOf(w) = "unknown"
    BY <2>1 DEF PhaseOf, Active
  <2> QED
    BY <2>1, <2>2, <2>3
<1> QED
  BY <1>1 DEF Init, Promise!Init

LEMMA NextPromise ==
  ASSUME LineageInv, LineageInv', [Next]_vars PROVE Promise!Next
<1> DEFINE phase == [w \in Work |-> PhaseOf(w)]
           consent == {w \in Work : approved[w]}
           superseded == {w \in Work : Replaced(w)}
<1>1. TypeOK /\ TypeOK' /\ \A v \in Work : Row(v) /\ WorkStep(v)
  BY NextSteps DEF LineageInv, HistoryInv, History
<1>2. phase' \in [Work -> Promise!Phase] /\ tries' \in [Work -> Nat]
  <2>1. \A v \in Work : PhaseOf(v)' \in Promise!Phase
    BY DEF PhaseOf, Promise!Phase
  <2>2. tries' \in [Work -> {0} \cup Number]
    BY <1>1 DEF TypeOK
  <2> QED
    BY <2>1, <2>2, BoundAssumption DEF Number
<1>3. ASSUME NEW v \in Work, PhaseOf(v)' = "waiting"
      PROVE  (RunOf[v] \in GatedRun => approved'[v]) /\ ~Replaced(v)'
  <2>1. state'[v] \in {"blocked", "queued"}
    BY <1>1, <1>3 DEF PhaseOf, TypeOK, Nonterminal, Terminal, Active
  <2>2. RunOf[v] \in GatedRun => approved'[v]
    BY <2>1 DEF LineageInv, HistoryInv, History, Gate
  <2>3. ~Replaced(v)'
    BY <2>1, WorkAssumption DEF LineageInv, Lineage, Descent, Replaced, Terminal
  <2> QED
    BY <2>2, <2>3
<1>4. ASSUME NEW v \in Work PROVE Promise!Move(v) \/ Promise!Stay(v)
  <2>1. CASE PhaseOf(v)' = PhaseOf(v) /\ tries'[v] = tries[v]
    BY <2>1 DEF Promise!Stay
  <2>2. CASE /\ <<PhaseOf(v), PhaseOf(v)'>> \in Promise!Moves
             /\ tries'[v] = IF PhaseOf(v)' = "held" THEN tries[v] + 1 ELSE tries[v]
    BY <1>3, <2>2 DEF Promise!Move
  <2> QED
    BY <1>1, <2>1, <2>2, StepMoves
<1>5. consent \subseteq consent' /\ consent' \subseteq Work
  BY <1>1, ConsentKept
<1>6. superseded \subseteq superseded'
  BY <1>1, Superseding DEF LineageInv
<1>7. superseded' \subseteq {w \in Work : w \in superseded \/ phase[w] \in {"open", "closed"}}
  <2>1. \A v \in Work : state[v] \in Terminal => PhaseOf(v) \in {"open", "closed"}
    BY DEF PhaseOf, Terminal, Active
  <2> QED
    BY <1>1, <2>1, Superseding DEF LineageInv
<1> QED
  BY <1>2, <1>4, <1>5, <1>6, <1>7 DEF Promise!Next

\* The ledger keeps the promise of WorkPromise: every transaction, with all the
\* rows it writes, is one of its steps or leaves it unchanged.
THEOREM LedgerKeepsPromise == Spec => KeepsPromise
<1>1. LineageInv /\ LineageInv' /\ [Next]_vars => [Promise!Next]_(Promise!vars)
  BY NextPromise
<1> QED
  BY <1>1, InitPromise, LineageInvariant, PTL DEF Spec, KeepsPromise, Promise!Spec
=============================================================================
