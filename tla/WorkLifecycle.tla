--------------------------- MODULE WorkLifecycle ---------------------------
(***************************************************************************)
(* The control plane's ledger of Work: one Session row, one Execution row  *)
(* and a growing list of Attempt rows per Work, grouped into Runs.  Every  *)
(* handler of internal/controlplane opens one immediate SQLite transaction *)
(* (store.go, _txlock=immediate), so each handler is one action.           *)
(*                                                                         *)
(* Abstracted: prompts, messages and timestamps; the Pipeline (a Run here  *)
(* has the single-stage Pipeline that CompleteAttempt finishes itself);    *)
(* the claim-request ledger; every reason for which a Worker cannot be     *)
(* routed to (health, heartbeat window, repository access, retained        *)
(* worktrees), which is one set, eligible; the load order among eligible   *)
(* Workers.  A wrong lease token, or an attempt that is not the caller's,  *)
(* is refused before anything is written and has no action.                *)
(***************************************************************************)
EXTENDS Naturals, FiniteSets

CONSTANTS
  Work,            \* sessions, admitted or still to be admitted
  Run,             \* runs
  RunOf,           \* the run a session belongs to
  Limit,           \* task_snapshot.concurrency_limit of each run
  Issue,           \* source_key of a work_item target, or NoIssue
  NoIssue,         \* a repository target
  GatedRun,        \* runs AdmitWork admits without pre_approved
  AgentUpdateRun,  \* runs whose outcome_contract is agent_update
  Worker,          \* worker ids
  Capacity,        \* registered capacity of each worker
  MaxAttempts,     \* bound: attempts per Work
  LeaseTicks,      \* LeaseDuration in clock ticks
  None             \* SQL NULL

Number == 1..MaxAttempts

ASSUME RunAssumption == /\ RunOf \in [Work -> Run]
                        /\ Limit \in [Run -> Nat \ {0}]
                        /\ GatedRun \subseteq Run
                        /\ AgentUpdateRun \subseteq Run
ASSUME WorkAssumption == IsFiniteSet(Work) /\ None \notin Work
ASSUME WorkerAssumption == Capacity \in [Worker -> Nat] /\ None \notin Worker
ASSUME BoundAssumption == MaxAttempts \in Nat /\ LeaseTicks \in Nat \ {0}

VARIABLES
  state,           \* sessions.state, "absent" before admission
  owner,           \* sessions.execution_owner
  cancelShown,     \* sessions.cancellation_requested
  approved,        \* sessions.approved_at is set
  resume,          \* sessions.pending_resume_sha: 0 for '', else the number of
                   \* the attempt that pushed the checkpoint
  predecessor,     \* sessions.predecessor_work_id
  root,            \* root of the predecessor chain, what the lineage CTE computes
  exec,            \* executions.state, "none" before the row exists
  cancel,          \* executions.cancellation_requested
  assigned,        \* executions.assigned_worker_id
  tries,           \* MAX(attempts.attempt_number)
  attempt,         \* attempts.state, "none" before the row exists
  lease,           \* ticks until attempts.lease_expires_at, 0 when expired
  outcome,         \* status of the attempt's ending row in work_updates
  answered,        \* attempts whose question has a row in work_answers
  done,            \* runs.terminal_at is set
  paused,          \* factory_settings.paused
  eligible         \* workers selectSessionRoute would accept now

sessionVars == <<state, owner, cancelShown, approved, resume, predecessor, root>>
executionVars == <<exec, cancel, assigned>>
attemptVars == <<tries, attempt, lease, outcome>>
factoryVars == <<paused, eligible>>
vars == <<sessionVars, executionVars, attemptVars, answered, done, factoryVars>>

Nonterminal == {"draft", "blocked", "queued", "preparing", "running", "needs-input"}
Terminal == {"ready", "succeeded", "failed", "no-change", "cancelled"}
Occupying == {"queued", "preparing", "running"}
Active == {"preparing", "running"}
AttemptEnd == {"succeeded", "failed", "cancelled", "lost"}
Ending == {"ready", "needs-input", "failed", "no-change"}

Members(r) == {w \in Work : RunOf[w] = r}
Occupied(r) == {w \in Members(r) : state[w] \in Occupying}

\* The concurrency test of AnswerWork, ApproveWork, RetrySession and Claim.
\* Mutant: one session too many.
SlotFreeOffByOne(w) == Cardinality(Occupied(RunOf[w])) <= Limit[RunOf[w]]
SlotFree(w) == Cardinality(Occupied(RunOf[w])) < Limit[RunOf[w]]

\* pauseGate.
PauseGate == ~paused

\* verifyActiveLease: the caller's attempt is active and unexpired.
OwnsLease(w, n) == attempt[w][n] \in Active /\ lease[w][n] > 0

\* The attempts the sweeper collects.  Mutant: only those that are running.
ExpiredRunning(w, n) == attempt[w][n] = "running" /\ lease[w][n] = 0
Expired(w, n) == attempt[w][n] \in Active /\ lease[w][n] = 0

\* updateRunLifecycle, and the same statement inside CancelRun and CancelSession.
\* Mutant: a Work that waits for an answer does not hold its run open.
RunDoneAsking(r, s) == \A w \in Members(r) : s[w] \notin Nonterminal \ {"needs-input"}
RunDone(r, s) == \A w \in Members(r) : s[w] \notin Nonterminal

\* resumeRoute behind the slot test of AnswerWork and ApproveWork: the worker
\* the Work is queued for, or None when it has to wait as blocked.
OrNone(S) == IF S = {} THEN {None} ELSE S
Placement(w) == IF SlotFree(w) THEN OrNone(eligible) ELSE {None}

\* queueExistingExecution for w at worker k, or no write at all when k = None.
\* Mutant: an existing execution row is rerouted but stays as it ended.
RerouteExecution(w, k) ==
  /\ exec' = IF k = None \/ exec[w] # "none" THEN exec ELSE [exec EXCEPT ![w] = "queued"]
  /\ cancel' = IF k = None THEN cancel ELSE [cancel EXCEPT ![w] = FALSE]
  /\ assigned' = IF k = None THEN assigned ELSE [assigned EXCEPT ![w] = k]
QueueExecution(w, k) ==
  /\ exec' = IF k = None THEN exec ELSE [exec EXCEPT ![w] = "queued"]
  /\ cancel' = IF k = None THEN cancel ELSE [cancel EXCEPT ![w] = FALSE]
  /\ assigned' = IF k = None THEN assigned ELSE [assigned EXCEPT ![w] = k]

Waiting(k) == IF k = None THEN "blocked" ELSE "queued"

Init ==
  /\ state = [w \in Work |-> "absent"]
  /\ owner = [w \in Work |-> "none"]
  /\ cancelShown = [w \in Work |-> FALSE]
  /\ approved = [w \in Work |-> FALSE]
  /\ resume = [w \in Work |-> 0]
  /\ predecessor = [w \in Work |-> None]
  /\ root = [w \in Work |-> w]
  /\ exec = [w \in Work |-> "none"]
  /\ cancel = [w \in Work |-> FALSE]
  /\ assigned = [w \in Work |-> None]
  /\ tries = [w \in Work |-> 0]
  /\ attempt = [w \in Work |-> [n \in Number |-> "none"]]
  /\ lease = [w \in Work |-> [n \in Number |-> 0]]
  /\ outcome = [w \in Work |-> [n \in Number |-> "none"]]
  /\ answered = [w \in Work |-> {}]
  /\ done = [r \in Run |-> FALSE]
  /\ paused = FALSE
  /\ eligible \in SUBSET Worker
----------------------------------------------------------------------------
(* Admission *)

\* The sessions an admission of ws queues: in target order until the limit is
\* reached, none when no worker is eligible.
QueuedFirst(ws, limit) ==
  {q \in SUBSET ws : /\ Cardinality(q) <= limit
                     /\ q # ws => Cardinality(q) = limit \/ eligible = {}
                     /\ eligible = {} => q = {}}

\* The rows one admission inserts for the sessions of r, queueing those of q.
InsertRun(r, q, at) ==
  /\ state' = [w \in Work |-> IF RunOf[w] # r THEN state[w]
                              ELSE IF w \in q THEN "queued" ELSE "blocked"]
  /\ exec' = [w \in Work |-> IF w \in q THEN "queued" ELSE exec[w]]
  /\ assigned' = [w \in Work |-> IF w \in q THEN at[w] ELSE assigned[w]]
  /\ UNCHANGED <<owner, cancelShown, approved, resume, cancel, attemptVars,
                 answered, done, factoryVars>>

\* admitTask: a Task or Procedure run over repositories, or an AdmitWork
\* submission, which lands in draft unless it was pre-approved.
AdmitTask(r) ==
  /\ PauseGate
  /\ Members(r) # {}
  /\ \A w \in Members(r) : state[w] = "absent" /\ Issue[w] = NoIssue
  /\ \/ /\ r \in GatedRun
        /\ state' = [w \in Work |-> IF RunOf[w] = r THEN "draft" ELSE state[w]]
        /\ UNCHANGED <<owner, cancelShown, approved, resume, executionVars,
                       attemptVars, answered, done, factoryVars>>
     \/ /\ r \notin GatedRun
        /\ \E q \in QueuedFirst(Members(r), Limit[r]) :
             \E at \in [q -> eligible] : InsertRun(r, q, at)
  /\ UNCHANGED <<predecessor, root>>

Replaced(w) == \E v \in Work : predecessor[v] = w

SameIssue(w) == {v \in Work : Issue[v] = Issue[w] /\ state[v] # "absent"}

\* Work under way on the item of w refuses a build.
\* Mutant: one that waits for an answer is overlooked.
PursuedUnlessAsking(w) == \E v \in SameIssue(w) : state[v] \in Nonterminal \ {"needs-input"}
Pursued(w) == \E v \in SameIssue(w) : state[v] \in Nonterminal

\* selectBuildPredecessors: a Work item may be rebuilt from a terminal Work
\* that nothing replaced yet.  Mutant: it picks any terminal Work.
RebuildableAny(w) == {v \in SameIssue(w) : state[v] \in Terminal}
Rebuildable(w) == {v \in SameIssue(w) : state[v] \in Terminal /\ ~Replaced(v)}

\* AdmitBuild over work items.
AdmitBuild(r, rebuild) ==
  /\ PauseGate
  /\ r \notin GatedRun /\ r \in AgentUpdateRun
  /\ Members(r) # {}
  /\ \A w \in Members(r) :
       /\ state[w] = "absent" /\ Issue[w] # NoIssue
       /\ \A v \in Members(r) : v # w => Issue[v] # Issue[w]
       /\ ~Pursued(w)
       /\ Rebuildable(w) # {} <=> rebuild
  /\ \E old \in [Members(r) -> Work \cup {None}] :
       /\ \A w \in Members(r) :
            IF rebuild THEN old[w] \in Rebuildable(w) ELSE old[w] = None
       /\ predecessor' = [w \in Work |-> IF RunOf[w] = r THEN old[w] ELSE predecessor[w]]
       /\ root' = [w \in Work |-> IF RunOf[w] = r /\ rebuild THEN root[old[w]] ELSE root[w]]
  /\ \E q \in QueuedFirst(Members(r), Limit[r]) :
       \E at \in [q -> eligible] : InsertRun(r, q, at)
----------------------------------------------------------------------------
(* Operator actions *)

\* ApproveWork: the human gate of a draft.
ApproveWork(w) ==
  /\ state[w] = "draft"
  /\ PauseGate
  /\ \E k \in Placement(w) :
       /\ QueueExecution(w, k)
       /\ state' = [state EXCEPT ![w] = Waiting(k)]
  /\ approved' = [approved EXCEPT ![w] = TRUE]
  /\ done' = [done EXCEPT ![RunOf[w]] = FALSE]
  /\ UNCHANGED <<owner, cancelShown, resume, predecessor, root, attemptVars,
                 answered, factoryVars>>

\* The other Work that must be terminal before w may run again: the same work
\* item, or for a repository target the same lineage.
Kin(w) == {v \in Work \ {w} : IF Issue[w] # NoIssue THEN Issue[v] = Issue[w]
                                                    ELSE root[v] = root[w]}

\* validateWorkRetryGuards, with validateWorkApproved.
\* Mutant: the approval is not checked.
RetryUnapproved(w) == /\ ~Replaced(w)
                      /\ \A v \in Kin(w) : state[v] \notin Nonterminal
RetryGuards(w) ==
  /\ RunOf[w] \in GatedRun => approved[w]
  /\ ~Replaced(w)
  /\ \A v \in Kin(w) : state[v] \notin Nonterminal

\* Mutant: Work that ended without a change may be retried too.
RetryableNoChange == {"failed", "cancelled", "no-change"}
Retryable == {"failed", "cancelled"}

RetrySession(w) ==
  /\ state[w] \in Retryable /\ owner[w] = "none"
  /\ PauseGate
  /\ RetryGuards(w)
  /\ SlotFree(w)
  /\ \E k \in eligible : QueueExecution(w, k)
  /\ state' = [state EXCEPT ![w] = "queued"]
  /\ cancelShown' = [cancelShown EXCEPT ![w] = FALSE]
  /\ done' = [done EXCEPT ![RunOf[w]] = FALSE]
  /\ UNCHANGED <<owner, approved, resume, predecessor, root, attemptVars,
                 answered, factoryVars>>

\* Mutant: any Work that no attempt holds.
ReplaceableIdle == Terminal \cup {"draft", "blocked", "needs-input"}
Replaceable == Terminal

\* ReplaceWork: w becomes the successor of the terminal Work old, in a manual
\* run of its own.
ReplaceWork(old, w) ==
  /\ PauseGate
  /\ state[old] \in Replaceable
  /\ RetryGuards(old)
  /\ state[w] = "absent" /\ Members(RunOf[w]) = {w} /\ RunOf[w] \notin GatedRun
  /\ Issue[w] = Issue[old]
  /\ RunOf[w] \in AgentUpdateRun <=> RunOf[old] \in AgentUpdateRun
  /\ \E k \in OrNone(eligible) :
       /\ QueueExecution(w, k)
       /\ state' = [state EXCEPT ![w] = Waiting(k)]
  /\ predecessor' = [predecessor EXCEPT ![w] = old]
  /\ root' = [root EXCEPT ![w] = root[old]]
  /\ UNCHANGED <<owner, cancelShown, approved, resume, attemptVars, answered,
                 done, factoryVars>>

\* The question AnswerWork finds: the newest needs-input update of w.
\* Mutant: the oldest.
OldestQuestion(w, n) == /\ outcome[w][n] = "needs-input"
                        /\ \A m \in Number : outcome[w][m] = "needs-input" => m >= n
LatestQuestion(w, n) == /\ outcome[w][n] = "needs-input"
                        /\ \A m \in Number : outcome[w][m] = "needs-input" => m <= n

\* AnswerWork, first delivery of a request (a replay writes nothing).  The
\* INSERT fails on UNIQUE(question_update_id) when the question was answered.
AnswerWork(w) ==
  /\ state[w] = "needs-input" /\ owner[w] = "none"
  /\ resume[w] # 0
  /\ PauseGate
  /\ \E n \in Number \ answered[w] :
       LatestQuestion(w, n) /\ answered' = [answered EXCEPT ![w] = @ \cup {n}]
  /\ \E k \in Placement(w) :
       /\ QueueExecution(w, k)
       /\ state' = [state EXCEPT ![w] = Waiting(k)]
  /\ cancelShown' = [cancelShown EXCEPT ![w] = FALSE]
  /\ done' = [done EXCEPT ![RunOf[w]] = FALSE]
  /\ UNCHANGED <<owner, approved, resume, predecessor, root, attemptVars, factoryVars>>

\* The statements CancelRun and CancelSession share: waiting Work ends now,
\* Work an attempt holds is only marked.
CancelAll(ws) ==
  /\ state' = [w \in Work |-> IF w \in ws /\ state[w] \in Nonterminal \ Active
                              THEN "cancelled" ELSE state[w]]
  /\ cancelShown' = [w \in Work |-> (w \in ws /\ state[w] \in Active) \/ cancelShown[w]]
  /\ exec' = [w \in Work |-> IF w \in ws /\ exec[w] = "queued" THEN "cancelled" ELSE exec[w]]
  /\ cancel' = [w \in Work |-> (w \in ws /\ exec[w] \in Active) \/ cancel[w]]
  /\ UNCHANGED <<owner, approved, resume, predecessor, root, assigned, attemptVars,
                 answered, factoryVars>>

CancelSession(w) ==
  /\ state[w] \in Nonterminal
  /\ CancelAll({w})
  /\ done' = [done EXCEPT ![RunOf[w]] = RunDone(RunOf[w], state')]

CancelRun(r) ==
  /\ \E w \in Members(r) : state[w] # "absent"
  /\ CancelAll(Members(r))
  /\ done' = [done EXCEPT ![r] = RunDone(r, state')]

SetFactoryPause ==
  /\ paused' = ~paused
  /\ UNCHANGED <<sessionVars, executionVars, attemptVars, answered, done, eligible>>

\* SetManagedRepositoryEnabled(false) for the repository of ws.  The DELETE of the queued
\* executions fails, and all of it with it, when an attempt refers to one of them.
TakenBack(ws) == {w \in ws : state[w] = "queued"}
Attempted(ws) == {w \in TakenBack(ws) : tries[w] > 0}
DisableRepository(ws) ==
  /\ TakenBack(ws) # {} /\ Attempted(ws) = {}
  /\ state' = [w \in Work |-> IF w \in TakenBack(ws) THEN "blocked" ELSE state[w]]
  /\ exec' = [w \in Work |-> IF w \in TakenBack(ws) THEN "none" ELSE exec[w]]
  /\ assigned' = [w \in Work |-> IF w \in TakenBack(ws) THEN None ELSE assigned[w]]
  /\ owner' = [w \in Work |-> IF w \in TakenBack(ws) THEN "none" ELSE owner[w]]
  /\ UNCHANGED <<cancelShown, approved, resume, predecessor, root, cancel, attemptVars,
                 answered, done, factoryVars>>

\* RegisterWorker, and the heartbeat window passing: who can be routed to.
RegisterWorker ==
  /\ \E e \in SUBSET Worker : e # eligible /\ eligible' = e
  /\ UNCHANGED <<sessionVars, executionVars, attemptVars, answered, done, paused>>
----------------------------------------------------------------------------
(* Claiming *)

ActiveCount(k) == Cardinality({p \in Work \X Number :
                      attempt[p[1]][p[2]] \in Active /\ assigned[p[1]] = k})

\* Mutant: one attempt too many.
HasCapacityOffByOne(k) == ActiveCount(k) <= Capacity[k]
HasCapacity(k) == ActiveCount(k) < Capacity[k]

\* fair_count: attempts the Work's run has had so far.  A session with the
\* smallest one goes first; admission order breaks ties and is left open.
FairCount(w) == Cardinality({p \in Members(RunOf[w]) \X Number : attempt[p[1]][p[2]] # "none"})
Fairest(S) == {w \in S : \A v \in S : FairCount(w) <= FairCount(v)}

\* materializeBlockedSessionForWorker.
Materializable == {w \in Work : state[w] = "blocked" /\ SlotFree(w)}
\* rerouteQueuedSessionForWorker: queued for a worker that lost eligibility.
Reroutable(k) == {w \in Work : /\ state[w] = "queued" /\ exec[w] = "queued"
                               /\ assigned[w] # k /\ assigned[w] \notin eligible}

HoldersOf(r) == {w \in Members(r) : state[w] \in Active}

\* The executions worker k may take once m was materialized and q rerouted.
Claimable(k, m, q) ==
  {w \in Work : /\ w \in {m, q} \/ (exec[w] = "queued" /\ assigned[w] = k)
                /\ Cardinality(HoldersOf(RunOf[w])) < Limit[RunOf[w]]}

\* The rows a claim of worker k leaves: m materialized, q rerouted to k, and a
\* new attempt of c, each of them None when there is no such session.
Dispatch(k, m, q, c) ==
  LET taken(w) == w = c /\ (w = m \/ state[w] = "queued")
      opened(w, n) == w = c /\ n = tries[w] + 1
  IN
  /\ state' = [w \in Work |-> IF taken(w) THEN "preparing"
                              ELSE IF w = m THEN "queued" ELSE state[w]]
  /\ owner' = [w \in Work |-> IF taken(w) THEN "worker_attempt"
                              ELSE IF w = m THEN "none" ELSE owner[w]]
  /\ exec' = [w \in Work |-> IF w = c THEN "preparing"
                             ELSE IF w = m THEN "queued" ELSE exec[w]]
  /\ cancel' = [w \in Work |-> w \notin {c, m} /\ cancel[w]]
  /\ assigned' = [w \in Work |-> IF w \in {m, q} THEN k ELSE assigned[w]]
  /\ tries' = [w \in Work |-> IF w = c THEN tries[w] + 1 ELSE tries[w]]
  /\ attempt' = [w \in Work |-> [n \in Number |->
                   IF opened(w, n) THEN "preparing" ELSE attempt[w][n]]]
  /\ lease' = [w \in Work |-> [n \in Number |->
                 IF opened(w, n) THEN LeaseTicks ELSE lease[w][n]]]
  /\ UNCHANGED <<outcome, cancelShown, approved, resume, predecessor, root,
                 answered, done, factoryVars>>

\* Claim with a request id the control plane has not stored.  Even when no
\* execution can be taken, the materialized and the rerouted session stay.
Claim(k) ==
  /\ PauseGate
  /\ k \in eligible /\ HasCapacity(k)
  /\ \E m \in OrNone(Fairest(Materializable)), q \in OrNone(Reroutable(k)) :
     \E c \in OrNone(Fairest(Claimable(k, m, q))) :
       /\ {m, q, c} # {None}
       /\ c = None \/ tries[c] < MaxAttempts
       /\ Dispatch(k, m, q, c)
----------------------------------------------------------------------------
(* Calls of the worker that holds attempt n of w *)

\* StartAttempt, which a worker calls before its runtime starts and again,
\* with runtimeStarted, once it has: only then is the checkpoint consumed.
StartAttempt(w, n, sha, runtimeStarted) ==
  /\ OwnsLease(w, n)
  /\ resume[w] # 0 => sha = resume[w]
  /\ \/ /\ attempt[w][n] = "preparing" /\ ~runtimeStarted
        /\ attempt' = [attempt EXCEPT ![w][n] = "running"]
        /\ exec' = [exec EXCEPT ![w] = IF @ = "preparing" THEN "running" ELSE @]
        /\ state' = [state EXCEPT ![w] = IF @ = "preparing" THEN "running" ELSE @]
        /\ owner' = [owner EXCEPT ![w] = IF state[w] = "preparing" THEN "worker_attempt" ELSE @]
        /\ UNCHANGED resume
     \/ /\ attempt[w][n] = "running" /\ runtimeStarted
        /\ resume' = [resume EXCEPT ![w] = IF state[w] = "running" /\ @ = sha THEN 0 ELSE @]
        /\ UNCHANGED <<attempt, exec, state, owner>>
  /\ UNCHANGED <<cancelShown, approved, predecessor, root, cancel, assigned, tries,
                 lease, outcome, answered, done, factoryVars>>

Heartbeat(w, n) ==
  /\ OwnsLease(w, n)
  /\ lease' = [lease EXCEPT ![w][n] = LeaseTicks]
  /\ UNCHANGED <<sessionVars, executionVars, tries, attempt, outcome, answered,
                 done, factoryVars>>

\* AppendAgentUpdate with an ending status.  Progress rows, request replay and
\* the GitHub check of a ready report change no variable of this module.
AppendAgentUpdate(w, n, status) ==
  /\ OwnsLease(w, n)
  /\ RunOf[w] \in AgentUpdateRun
  /\ attempt[w][n] = "running" /\ exec[w] = "running" /\ ~cancel[w]
  /\ state[w] = "running" /\ owner[w] = "worker_attempt"
  /\ outcome[w][n] = "none"
  /\ outcome' = [outcome EXCEPT ![w][n] = status]
  /\ UNCHANGED <<sessionVars, executionVars, tries, attempt, lease, answered,
                 done, factoryVars>>

\* The state the attempt ends in when the worker reports the exit `reported`.
\* Mutants: the missing outcome is not noticed; the cancellation is not.
EndOfUnreported(w, n, reported) == IF cancel[w] THEN "cancelled" ELSE reported
EndOfUncancelled(w, n, reported) ==
  IF RunOf[w] \in AgentUpdateRun /\ reported = "succeeded" /\ outcome[w][n] = "none"
  THEN "failed" ELSE reported
EndOf(w, n, reported) ==
  CASE cancel[w] -> "cancelled"
    [] ~cancel[w] /\ RunOf[w] \in AgentUpdateRun /\ reported = "succeeded"
         /\ outcome[w][n] = "none" -> "failed"
    [] OTHER -> reported

\* The Work state it leaves: the agent's outcome when the attempt succeeded
\* under the agent_update contract, the attempt's own end otherwise.
\* Mutant: the reported outcome wins over a failed runtime.
WorkStateReported(w, n, end) == IF outcome[w][n] # "none" /\ end # "cancelled"
                                THEN outcome[w][n] ELSE end
WorkStateOf(w, n, end) ==
  IF end = "succeeded" /\ RunOf[w] \in AgentUpdateRun THEN outcome[w][n] ELSE end

\* The checkpoint to resume from once attempt n has ended: one it reported is
\* kept whatever the attempt came to, an older one is left alone.
\* Mutants: every end overwrites it; only an accepted question keeps it.
CheckpointOverwritten(w, n, next) == IF outcome[w][n] = "needs-input" THEN n ELSE 0
CheckpointOfQuestion(w, n, next) == IF next = "needs-input" THEN n ELSE resume[w]
CheckpointAfter(w, n, next) == IF outcome[w][n] = "needs-input" THEN n ELSE resume[w]

EndSession(w, n, next) ==
  /\ state' = [state EXCEPT ![w] = IF @ \in Active THEN next ELSE @]
  /\ owner' = [owner EXCEPT ![w] = IF state[w] \in Active THEN "none" ELSE @]
  /\ resume' = [resume EXCEPT ![w] =
                  IF state[w] \in Active THEN CheckpointAfter(w, n, next) ELSE @]
  /\ done' = [done EXCEPT ![RunOf[w]] = RunDone(RunOf[w], state')]

\* CompleteAttempt.  An ended attempt only replays its answer, or is refused.
CompleteAttempt(w, n, reported) ==
  /\ OwnsLease(w, n)
  /\ LET end == EndOf(w, n, reported) IN
       /\ end = "succeeded" => attempt[w][n] = "running"
       /\ attempt' = [attempt EXCEPT ![w][n] = end]
       /\ exec' = [exec EXCEPT ![w] = IF @ \in Active THEN end ELSE @]
       /\ EndSession(w, n, WorkStateOf(w, n, end))
  /\ lease' = [lease EXCEPT ![w][n] = 0]
  /\ UNCHANGED <<cancelShown, approved, predecessor, root, cancel, assigned, tries,
                 outcome, answered, factoryVars>>
----------------------------------------------------------------------------
(* Time *)

Tick ==
  /\ \E w \in Work, n \in Number : lease[w][n] > 0
  /\ lease' = [w \in Work |-> [n \in Number |->
                 IF lease[w][n] > 0 THEN lease[w][n] - 1 ELSE 0]]
  /\ UNCHANGED <<sessionVars, executionVars, tries, attempt, outcome, answered,
                 done, factoryVars>>

\* SweepExpired: every attempt whose lease ran out is lost and its Work fails,
\* in one transaction; a checkpoint the lost attempt reported is kept.
Collected(w) == \E n \in Number : Expired(w, n)
AskedAndLost(w, n) == Expired(w, n) /\ outcome[w][n] = "needs-input"

SweepExpired ==
  /\ \E w \in Work : Collected(w)
  /\ attempt' = [w \in Work |-> [n \in Number |->
                   IF Expired(w, n) THEN "lost" ELSE attempt[w][n]]]
  /\ exec' = [w \in Work |-> IF Collected(w) /\ exec[w] \in Active
                              THEN "failed" ELSE exec[w]]
  /\ state' = [w \in Work |-> IF Collected(w) /\ state[w] \in Active
                               THEN "failed" ELSE state[w]]
  /\ owner' = [w \in Work |-> IF Collected(w) /\ state[w] \in Active
                               THEN "none" ELSE owner[w]]
  /\ resume' = [w \in Work |->
                  IF state[w] \in Active /\ \E n \in Number : AskedAndLost(w, n)
                  THEN CHOOSE n \in Number : AskedAndLost(w, n) ELSE resume[w]]
  /\ done' = [r \in Run |-> IF \E w \in Members(r) : Collected(w)
                            THEN RunDone(r, state') ELSE done[r]]
  /\ UNCHANGED <<cancelShown, approved, predecessor, root, cancel, assigned, tries,
                 lease, outcome, answered, factoryVars>>
----------------------------------------------------------------------------
Admit == \E r \in Run : AdmitTask(r) \/ \E rebuild \in BOOLEAN : AdmitBuild(r, rebuild)

Operate ==
  \/ \E w \in Work : ApproveWork(w) \/ RetrySession(w) \/ AnswerWork(w) \/ CancelSession(w)
  \/ \E old, w \in Work : ReplaceWork(old, w)
  \/ \E r \in Run : CancelRun(r)
  \/ \E ws \in SUBSET Work : DisableRepository(ws)
  \/ SetFactoryPause

Hold(w, n) ==
  \/ \E sha \in Number \cup {0}, started \in BOOLEAN : StartAttempt(w, n, sha, started)
  \/ Heartbeat(w, n)
  \/ \E status \in Ending : AppendAgentUpdate(w, n, status)
  \/ \E reported \in {"succeeded", "failed", "cancelled"} : CompleteAttempt(w, n, reported)

Next ==
  \/ Admit
  \/ Operate
  \/ RegisterWorker
  \/ \E k \in Worker : Claim(k)
  \/ \E w \in Work, n \in Number : Hold(w, n)
  \/ Tick
  \/ SweepExpired

Spec == Init /\ [][Next]_vars

\* The sweeper is a ticker loop of the server and time passes by itself.
FairSpec == Spec /\ WF_vars(Tick) /\ WF_vars(SweepExpired)
----------------------------------------------------------------------------
(* Properties *)

\* Every column holds a value its CHECK constraint admits.
TypeOK ==
  /\ state \in [Work -> {"absent"} \cup Nonterminal \cup Terminal]
  /\ owner \in [Work -> {"none", "worker_attempt"}]
  /\ cancelShown \in [Work -> BOOLEAN] /\ approved \in [Work -> BOOLEAN]
  /\ resume \in [Work -> {0} \cup Number]
  /\ predecessor \in [Work -> Work \cup {None}] /\ root \in [Work -> Work]
  /\ exec \in [Work -> {"none", "queued", "preparing", "running",
                        "succeeded", "failed", "cancelled"}]
  /\ cancel \in [Work -> BOOLEAN] /\ assigned \in [Work -> Worker \cup {None}]
  /\ tries \in [Work -> {0} \cup Number]
  /\ attempt \in [Work -> [Number -> {"none"} \cup Active \cup AttemptEnd]]
  /\ lease \in [Work -> [Number -> 0..LeaseTicks]]
  /\ outcome \in [Work -> [Number -> {"none"} \cup Ending]]
  /\ answered \in [Work -> SUBSET Number]
  /\ done \in [Run -> BOOLEAN]
  /\ paused \in BOOLEAN /\ eligible \in SUBSET Worker

\* Only the newest attempt of a Work is ever open: a second holder cannot exist
\* beside it, whatever was lost, retried, answered or rerouted in between.
OnlyNewestOpen(w) ==
  \A n \in Number :
    /\ n < tries[w] => attempt[w][n] \in AttemptEnd
    /\ n = tries[w] => attempt[w][n] # "none"
    /\ n > tries[w] => attempt[w][n] = "none" /\ outcome[w][n] = "none" /\ lease[w][n] = 0

\* The session, its execution and its newest attempt tell one story, although
\* each handler updates them with separate guarded statements.
RowsAgree(w) ==
  /\ state[w] = "queued" <=> exec[w] = "queued"
  /\ \A s \in Active : state[w] = s <=> exec[w] = s
  /\ \A s \in Active : state[w] = s <=> tries[w] > 0 /\ attempt[w][tries[w]] = s
  /\ owner[w] = IF state[w] \in Active THEN "worker_attempt" ELSE "none"
  /\ state[w] \in {"absent", "draft"} => exec[w] = "none" /\ tries[w] = 0

\* What the operator is shown as requested is what the worker will be told, and
\* a Work that waits for a worker carries no request from its last execution.
CancelTold(w) ==
  /\ state[w] \in Active => cancelShown[w] = cancel[w]
  /\ state[w] \in {"absent", "draft", "blocked", "queued"} => ~cancelShown[w]
  /\ exec[w] \in {"none", "queued"} => ~cancel[w]

\* The rows of every Work agree.
LedgerAgrees == \A w \in Work : OnlyNewestOpen(w) /\ RowsAgree(w) /\ CancelTold(w)

\* A run never has more queued, preparing and running sessions than its
\* concurrency limit, over admission, approval, answer, retry and claim.
SlotsWithinLimit ==
  \A r \in Run : Cardinality({w \in Work : /\ RunOf[w] = r
                                          /\ state[w] \in {"queued", "preparing", "running"}})
                  <= Limit[r]

\* A worker never holds more open attempts than it registered capacity for.
CapacityRespected ==
  \A k \in Worker : Cardinality({w \in Work : /\ assigned[w] = k
                                             /\ \E n \in Number : attempt[w][n] \in Active})
                     <= Capacity[k]

\* The limits of runs and workers hold whichever way Work takes into the queue.
LimitsKept == SlotsWithinLimit /\ CapacityRespected

\* Two Work that are not terminal never pursue the same work item or descend
\* from the same Work: retry, replacement and rebuild may not meet.
OneOpenPerLineage ==
  \A v, w \in Work :
    v # w /\ state[v] \in Nonterminal /\ state[w] \in Nonterminal =>
      /\ root[v] # root[w]
      /\ Issue[v] = NoIssue \/ Issue[v] # Issue[w]

\* A work item has at most one Work that nothing replaced: its history is a
\* single chain, however often it was built, rebuilt, retried or replaced.
OneHeadPerItem ==
  \A v, w \in Work :
    /\ Issue[v] # NoIssue /\ Issue[v] = Issue[w]
    /\ state[v] # "absent" /\ ~Replaced(v)
    /\ state[w] # "absent" /\ ~Replaced(w)
    => v = w

\* A work item has one history and at most one Work under way (AdmitBuild,
\* ReplaceWork, RetrySession).
OneLiveWorkPerItem == OneOpenPerLineage /\ OneHeadPerItem

\* The checkpoint a Work resumes from is the newest one an ended attempt left.
\* Work that asked a question can be answered: its newest attempt asked and left
\* that checkpoint, and the question is still open (CompleteAttempt, AnswerWork).
ResumesFromNewest ==
  \A w \in Work :
    /\ resume[w] # 0 =>
         /\ outcome[w][resume[w]] = "needs-input"
         /\ \A n \in Number : n > resume[w] /\ outcome[w][n] = "needs-input"
                              => attempt[w][n] \in Active
    /\ state[w] = "needs-input" =>
         /\ tries[w] > 0 /\ outcome[w][tries[w]] = "needs-input" /\ resume[w] = tries[w]
         /\ LatestQuestion(w, tries[w]) /\ tries[w] \notin answered[w]

\* A Work that must be approved and is not has never been given to a worker:
\* cancelling and retrying it does not go round the gate.
UnapprovedNeverDispatched ==
  \A w \in Work : RunOf[w] \in GatedRun /\ ~approved[w] =>
    state[w] \in {"absent", "draft", "cancelled"} /\ exec[w] = "none" /\ tries[w] = 0

\* A run is marked terminal exactly when it was admitted and none of its
\* sessions can change by itself any more.
RunDoneExact ==
  \A r \in Run : done[r] <=> /\ \E w \in Work : RunOf[w] = r /\ state[w] # "absent"
                             /\ \A w \in Work : RunOf[w] = r => state[w] \notin Nonterminal

\* Limits and the terminal mark follow the Work (SlotFree, updateRunLifecycle).
LimitsExact == LimitsKept /\ RunDoneExact

\* A Work's delivered state rests on its newest attempt: it exited well and, in
\* a run of the agent_update contract, reported that very outcome.
OutcomeBacked ==
  \A w \in Work :
    /\ state[w] \in {"ready", "no-change", "needs-input"} =>
         /\ RunOf[w] \in AgentUpdateRun
         /\ tries[w] > 0 /\ attempt[w][tries[w]] = "succeeded"
         /\ outcome[w][tries[w]] = state[w]
    /\ state[w] = "succeeded" => /\ RunOf[w] \notin AgentUpdateRun
                                 /\ tries[w] > 0 /\ attempt[w][tries[w]] = "succeeded"

\* An attempt whose lease ran out is fenced: no late call of its worker renews
\* it, reports through it or ends it otherwise than lost, and an ended one is
\* frozen.
FencedStep(w, n) ==
  attempt[w][n] # "none" /\ lease[w][n] = 0 =>
    /\ outcome'[w][n] = outcome[w][n] /\ lease'[w][n] = 0
    /\ attempt'[w][n] # attempt[w][n] => attempt[w][n] \in Active /\ attempt'[w][n] = "lost"

\* Work whose cancellation was requested is neither delivered nor turned into a
\* question, however its worker ends.
CancelledStep(w) ==
  cancel[w] /\ state[w] \in Active => state'[w] \in Active \cup {"cancelled", "failed"}

\* An expired or a cancelled attempt ends as its worker was told
\* (verifyActiveLease, CompleteAttempt).
EndsAsTold ==
  [][\A w \in Work : CancelledStep(w) /\ \A n \in Number : FencedStep(w, n)]_vars

\* A pending checkpoint is given up only to a newer one or to a runtime that
\* started from it.
CheckpointStep(w) ==
  resume[w] # 0 /\ resume'[w] # resume[w] =>
    \/ resume'[w] > resume[w]
    \/ resume'[w] = 0 /\ state[w] = "running" /\ state'[w] = "running"

\* A crash, an expiry, a cancellation or a retry keeps the checkpoint
\* (CompleteAttempt, SweepExpired, StartAttempt).
CheckpointKept == [][\A w \in Work : CheckpointStep(w)]_vars

\* What an attempt left behind stands: its end and its checkpoint (CompleteAttempt,
\* RetrySession, AnswerWork).
ResultsStand == EndsAsTold /\ CheckpointKept

\* If workers stop renewing from some point on, every open attempt ends: a
\* crashed worker never keeps a Work, whatever the factory does meanwhile.
LeasesEnd ==
  (<>[][\A w \in Work, n \in Number : lease'[w][n] > lease[w][n] => lease[w][n] = 0
                                     /\ attempt[w][n] = "none"]_vars)
    => \A w \in Work, n \in Number :
         attempt[w][n] \in Active ~> attempt[w][n] \in AttemptEnd

\* The promise the ledger keeps: what a Work's row says, in terms of WorkPromise.
PhaseOf(w) ==
  CASE state[w] = "absent" -> "unknown"
    [] state[w] = "draft" -> "proposed"
    [] state[w] \in {"blocked", "queued"} -> "waiting"
    [] state[w] \in Active -> "held"
    [] state[w] = "needs-input" -> "asking"
    [] state[w] \in {"failed", "cancelled"} -> "open"
    [] OTHER -> "closed"

Promise == INSTANCE WorkPromise WITH
  Gated <- {w \in Work : RunOf[w] \in GatedRun},
  phase <- [w \in Work |-> PhaseOf(w)],
  turn <- tries,
  consent <- {w \in Work : approved[w]},
  superseded <- {w \in Work : Replaced(w)}

\* Every handler, with all the rows it writes, is one step of the promise or
\* leaves it unchanged.
KeepsPromise == Promise!Spec
=============================================================================
