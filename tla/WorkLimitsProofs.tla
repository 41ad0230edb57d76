-------------------------- MODULE WorkLimitsProofs --------------------------
(***************************************************************************)
(* The limits of WorkLifecycle: the concurrency limit of a run, the        *)
(* capacity of a worker, and the terminal mark of a run.                   *)
(***************************************************************************)
EXTENDS WorkHistoryProofs, FiniteSetTheorems

\* No Work but w comes to occupy a slot of its run.
Grows(w) == \A v \in Work : v # w /\ state'[v] \in Occupying => state[v] \in Occupying

LEMMA OccupiedFinite ==
  ASSUME NEW r PROVE IsFiniteSet(Occupied(r)) /\ Cardinality(Occupied(r)) \in Nat
<1>1. Occupied(r) \in SUBSET Work
  BY DEF Occupied, Members
<1> QED
  BY <1>1, WorkAssumption, FS_Subset, FS_CardinalityType

SlotsKept(r) == Cardinality(Occupied(r)) <= Limit[r]

\* One Work may be added while the run of it has a free slot.
LEMMA GrowStep ==
  ASSUME TypeOK, NEW r \in Run, SlotsKept(r), NEW w, Grows(w), w \in Work => SlotFree(w)
  PROVE  SlotsKept(r)'
<1>1. IsFiniteSet(Occupied(r)) /\ Cardinality(Occupied(r)) \in Nat
  BY OccupiedFinite
<1>2. IsFiniteSet(Occupied(r)') /\ Cardinality(Occupied(r)') \in Nat
  <2>1. Occupied(r)' \in SUBSET Work
    BY DEF Occupied, Members
  <2> QED
    BY <2>1, WorkAssumption, FS_Subset, FS_CardinalityType
<1>3. Limit[r] \in Nat
  BY RunAssumption
<1>4. CASE w \in Work /\ RunOf[w] = r
  <2>1. Occupied(r)' \subseteq Occupied(r) \cup {w}
    BY DEF Grows, Occupied, Members
  <2>2. /\ IsFiniteSet(Occupied(r) \cup {w})
        /\ Cardinality(Occupied(r) \cup {w}) <= Cardinality(Occupied(r)) + 1
    BY <1>1, FS_AddElement
  <2>3. Cardinality(Occupied(r)') <= Cardinality(Occupied(r) \cup {w})
    BY <2>1, <2>2, FS_Subset
  <2>4. Cardinality(Occupied(r)) < Limit[r]
    BY <1>4 DEF SlotFree
  <2>5. Cardinality(Occupied(r) \cup {w}) \in Nat
    BY <2>2, FS_CardinalityType
  <2> QED
    BY <1>1, <1>2, <1>3, <2>2, <2>3, <2>4, <2>5 DEF SlotsKept
<1>5. CASE ~(w \in Work /\ RunOf[w] = r)
  <2>1. Occupied(r)' \subseteq Occupied(r)
    BY <1>5 DEF Grows, Occupied, Members
  <2>2. Cardinality(Occupied(r)') <= Cardinality(Occupied(r))
    BY <1>1, <2>1, FS_Subset
  <2> QED
    BY <1>1, <1>2, <1>3, <2>2 DEF SlotsKept
<1> QED
  BY <1>4, <1>5

\* What comes to hold the slots of an admission is what it queued.
LEMMA AdmitSlots ==
  ASSUME TypeOK, NEW r \in Run, SlotsKept(r), Admit PROVE SlotsKept(r)'
<1>1. PICK s \in Run : AdmitTask(s) \/ \E rebuild \in BOOLEAN : AdmitBuild(s, rebuild)
  BY DEF Admit
<1>2. CASE s # r
  <2>1. \A v \in Members(r) : state'[v] = state[v]
    BY <1>1, <1>2 DEF AdmitTask, AdmitBuild, InsertRun, Members
  <2>2. Occupied(r)' = Occupied(r)
    BY <2>1 DEF Occupied, Members
  <2> QED
    BY <2>2 DEF SlotsKept
<1>3. CASE s = r
  <2>1. CASE \A v \in Members(r) : state'[v] = "draft"
    <3>1. Occupied(r)' = {}
      BY <2>1 DEF Occupied, Occupying, Members
    <3>2. Cardinality(Occupied(r)') = 0
      BY <3>1, FS_EmptySet
    <3> QED
      BY <3>2, RunAssumption DEF SlotsKept
  <2>2. CASE \E q \in QueuedFirst(Members(r), Limit[r]) :
               \E at \in [q -> eligible] : InsertRun(r, q, at)
    <3>1. PICK q \in QueuedFirst(Members(r), Limit[r]) :
                 \E at \in [q -> eligible] : InsertRun(r, q, at)
      BY <2>2
    <3>2. Occupied(r)' \subseteq q /\ q \in SUBSET Work /\ Cardinality(q) <= Limit[r]
      BY <3>1 DEF InsertRun, QueuedFirst, Occupied, Occupying, Members
    <3>3. IsFiniteSet(q) /\ Cardinality(q) \in Nat
      BY <3>2, WorkAssumption, FS_Subset, FS_CardinalityType
    <3>4. Cardinality(Occupied(r)') <= Cardinality(q) /\ Cardinality(Occupied(r)') \in Nat
      BY <3>2, <3>3, FS_Subset, FS_CardinalityType
    <3> QED
      BY <3>2, <3>3, <3>4, RunAssumption DEF SlotsKept
  <2>3. CASE AdmitTask(r)
    <3>1. \/ state' = [w \in Work |-> IF RunOf[w] = r THEN "draft" ELSE state[w]]
          \/ \E q \in QueuedFirst(Members(r), Limit[r]) :
               \E at \in [q -> eligible] : InsertRun(r, q, at)
      BY <2>3 DEF AdmitTask
    <3>2. CASE state' = [w \in Work |-> IF RunOf[w] = r THEN "draft" ELSE state[w]]
      BY <2>1, <3>2 DEF Members
    <3> QED
      BY <2>2, <3>1, <3>2
  <2>4. CASE \E rebuild \in BOOLEAN : AdmitBuild(r, rebuild)
    <3>1. \E q \in QueuedFirst(Members(r), Limit[r]) :
            \E at \in [q -> eligible] : InsertRun(r, q, at)
      BY <2>4 DEF AdmitBuild
    <3> QED
      BY <2>2, <3>1
  <2> QED
    BY <1>1, <1>3, <2>3, <2>4
<1> QED
  BY <1>2, <1>3

LEMMA ReplaceSlots ==
  ASSUME TypeOK, NEW r \in Run, SlotsKept(r), NEW old \in Work, NEW w \in Work,
         ReplaceWork(old, w)
  PROVE  SlotsKept(r)'
<1>1. PICK s : state' = [state EXCEPT ![w] = s]
  BY DEF ReplaceWork
<1>2. CASE RunOf[w] = r
  <2>1. Occupied(r)' \subseteq {w}
    <3>1. Members(r) = {w}
      BY <1>2 DEF ReplaceWork
    <3> QED
      BY <3>1 DEF Occupied, Members
  <2>2. Cardinality(Occupied(r)') <= 1 /\ Cardinality(Occupied(r)') \in Nat
    <3>1. IsFiniteSet({w}) /\ Cardinality({w}) = 1
      BY FS_Singleton
    <3> QED
      BY <2>1, <3>1, FS_Subset, FS_CardinalityType
  <2> QED
    BY <2>2, RunAssumption DEF SlotsKept
<1>3. CASE RunOf[w] # r
  <2>1. Occupied(r)' = Occupied(r)
    BY <1>1, <1>3 DEF Occupied, Members, TypeOK
  <2> QED
    BY <2>1 DEF SlotsKept
<1> QED
  BY <1>2, <1>3

\* What a claim fills: it materializes at most one Work, within the limit.
LEMMA ClaimGrows ==
  ASSUME TypeOK, \A v \in Work : Row(v), NEW k \in Worker, Claim(k)
  PROVE  \E m : Grows(m) /\ (m \in Work => SlotFree(m))
<1>1. PICK m \in OrNone(Fairest(Materializable)), q \in OrNone(Reroutable(k)) :
        \E c \in OrNone(Fairest(Claimable(k, m, q))) :
          (c = None \/ tries[c] < MaxAttempts) /\ Dispatch(k, m, q, c)
  BY DEF Claim
<1>2. PICK c \in OrNone(Fairest(Claimable(k, m, q))) :
        (c = None \/ tries[c] < MaxAttempts) /\ Dispatch(k, m, q, c)
  BY <1>1
<1>3. m \in Work => SlotFree(m)
  BY <1>1, WorkAssumption DEF OrNone, Fairest, Materializable
<1>4. ASSUME NEW v \in Work, v # m PROVE state'[v] = state[v] \/ state[v] = "queued"
  BY <1>2, <1>4 DEF Dispatch
<1>5. Grows(m)
  BY <1>4 DEF Grows, Occupying
<1> QED
  BY <1>3, <1>5

LEMMA PlainGrows ==
  ASSUME TypeOK, \A v \in Work : Row(v), Plain
  PROVE  \E w : Grows(w) /\ (w \in Work => SlotFree(w))
<1>1. None \notin Work
  BY WorkAssumption
<1>2. ASSUME NEW w \in Work, ApproveWork(w) \/ AnswerWork(w)
      PROVE  \E m : Grows(m) /\ (m \in Work => SlotFree(m))
  <2>1. PICK k \in Placement(w) : state' = [state EXCEPT ![w] = Waiting(k)]
    BY <1>2 DEF ApproveWork, AnswerWork
  <2>2. Grows(w)
    BY <2>1 DEF Grows, TypeOK
  <2>3. CASE SlotFree(w)
    BY <2>2, <2>3
  <2>4. CASE ~SlotFree(w)
    <3>1. state' = [state EXCEPT ![w] = "blocked"]
      BY <2>1, <2>4 DEF Placement, Waiting
    <3>2. Grows(None)
      BY <3>1, WorkAssumption DEF Grows, TypeOK, Occupying
    <3> QED
      BY <3>2, WorkAssumption
  <2> QED
    BY <2>3, <2>4
<1>3. CASE \E k \in Worker : Claim(k)
  BY <1>3, ClaimGrows
<1>4. ASSUME NEW ws \in SUBSET Work, CancelAll(ws) \/ DisableRepository(ws) PROVE Grows(None)
  BY <1>4 DEF CancelAll, DisableRepository, Grows, Occupying
<1>5. ASSUME \/ \E w \in Work : CancelSession(w)
             \/ \E r \in Run : CancelRun(r)
             \/ \E ws \in SUBSET Work : DisableRepository(ws)
      PROVE  Grows(None)
  <2>1. \A w \in Work : {w} \in SUBSET Work
    OBVIOUS
  <2>2. \A r \in Run : Members(r) \in SUBSET Work
    BY DEF Members
  <2> QED
    BY <1>4, <1>5, <2>1, <2>2 DEF CancelSession, CancelRun
<1>6. CASE SetFactoryPause \/ RegisterWorker \/ Tick
  <2>1. state' = state
    BY <1>6 DEF SetFactoryPause, RegisterWorker, Tick, sessionVars
  <2> QED
    BY <1>1, <2>1 DEF Grows
<1>7. ASSUME NEW w \in Work, NEW n \in Number, Hold(w, n) PROVE Grows(None)
  <2>1. ASSUME NEW v \in Work, state'[v] # state[v] PROVE state[v] \in Active
    BY <1>7, <2>1 DEF Hold, StartAttempt, Heartbeat, AppendAgentUpdate, CompleteAttempt,
                      EndSession, sessionVars, Active, TypeOK
  <2> QED
    BY <2>1 DEF Grows, Active, Occupying
<1>8. CASE SweepExpired
  <2>1. Grows(None)
    BY <1>8 DEF SweepExpired, Grows, Occupying
  <2> QED
    BY <1>1, <2>1
<1> QED
  BY <1>2, <1>3, <1>5, <1>6, <1>7, <1>8, <1>1 DEF Plain

LEMMA NextSlots ==
  ASSUME TypeOK, \A v \in Work : Row(v), NEW r \in Run, SlotsKept(r), [Next]_vars
  PROVE  SlotsKept(r)'
<1>1. CASE Plain
  BY <1>1, PlainGrows, GrowStep
<1>2. CASE UNCHANGED vars
  <2>1. Grows(None)
    BY <1>2 DEF vars, sessionVars, Grows
  <2> QED
    BY <2>1, GrowStep, WorkAssumption
<1>3. ASSUME NEW w \in Work, RetrySession(w) PROVE SlotsKept(r)'
  <2>1. Grows(w) /\ SlotFree(w)
    BY <1>3 DEF RetrySession, Grows, TypeOK
  <2> QED
    BY <2>1, GrowStep
<1> QED
  BY <1>1, <1>2, <1>3, AdmitSlots, ReplaceSlots, NextKinds DEF Reopening
-----------------------------------------------------------------------------
(* The capacity of a worker.                                               *)

\* The Work that worker k holds.
HeldBy(k) == {w \in Work : assigned[w] = k /\ \E n \in Number : attempt[w][n] \in Active}
CapacityKept(k) == Cardinality(HeldBy(k)) <= Capacity[k]

LEMMA HeldFinite ==
  ASSUME NEW k PROVE IsFiniteSet(HeldBy(k)) /\ Cardinality(HeldBy(k)) \in Nat
<1>1. HeldBy(k) \in SUBSET Work
  BY DEF HeldBy
<1> QED
  BY <1>1, WorkAssumption, FS_Subset, FS_CardinalityType

\* A worker holds no more Work than it has open attempts.
LEMMA HeldCounted ==
  ASSUME TypeOK, NEW k \in Worker
  PROVE  ActiveCount(k) \in Nat /\ Cardinality(HeldBy(k)) <= ActiveCount(k)
<1> DEFINE P == {p \in Work \X Number : attempt[p[1]][p[2]] \in Active /\ assigned[p[1]] = k}
           f == [w \in HeldBy(k) |-> <<w, CHOOSE n \in Number : attempt[w][n] \in Active>>]
<1>1. IsFiniteSet(P)
  <2>1. IsFiniteSet(Number)
    BY BoundAssumption, FS_Interval DEF Number
  <2> QED
    BY <2>1, WorkAssumption, FS_Product, FS_Subset
<1>2. f \in Injection(HeldBy(k), P)
  <2>1. ASSUME NEW w \in HeldBy(k) PROVE f[w] \in P /\ f[w][1] = w
    BY <2>1 DEF HeldBy
  <2>2. f \in [HeldBy(k) -> P]
    BY <2>1
  <2> QED
    BY <2>1, <2>2 DEF Injection, IsInjective
<1>3. ActiveCount(k) = Cardinality(P)
  BY DEF ActiveCount
<1> QED
  BY <1>1, <1>2, <1>3, FS_Injection, FS_CardinalityType

\* Work that is held was held before, by the same worker, unless it is c.
Keeps(c) ==
  \A v \in Work : v # c /\ state'[v] \in Active =>
    state[v] \in Active /\ assigned'[v] = assigned[v]

\* A Work is held exactly while its session says so.
HeldMatches ==
  \A v \in Work : (\E n \in Number : attempt[v][n] \in Active) <=> state[v] \in Active

LEMMA HeldState == TypeOK /\ (\A v \in Work : Row(v)) => HeldMatches
<1> SUFFICES ASSUME TypeOK, NEW v \in Work, Row(v)
             PROVE  (\E n \in Number : attempt[v][n] \in Active) <=> state[v] \in Active
  BY DEF HeldMatches
<1>1. ASSUME NEW n \in Number, attempt[v][n] \in Active PROVE state[v] \in Active
  BY <1>1, OpenIsNewest
<1>2. ASSUME state[v] \in Active PROVE \E n \in Number : attempt[v][n] \in Active
  BY <1>2 DEF Row, RowsAgree, TypeOK, Active
<1> QED
  BY <1>1, <1>2

LEMMA KeepsStep ==
  ASSUME TypeOK, HeldMatches, HeldMatches',
         NEW k \in Worker, CapacityKept(k), NEW c, Keeps(c),
         c \in Work /\ assigned'[c] = k => HasCapacity(k)
  PROVE  CapacityKept(k)'
<1>1. HeldBy(k) = {w \in Work : assigned[w] = k /\ state[w] \in Active}
  BY DEF HeldMatches, HeldBy
<1>2. HeldBy(k)' = {w \in Work : assigned'[w] = k /\ state'[w] \in Active}
  BY DEF HeldMatches, HeldBy
<1>3. IsFiniteSet(HeldBy(k)) /\ Cardinality(HeldBy(k)) \in Nat /\ Capacity[k] \in Nat
  BY HeldFinite, WorkerAssumption
<1>4. IsFiniteSet(HeldBy(k)') /\ Cardinality(HeldBy(k)') \in Nat
  BY <1>2, WorkAssumption, FS_Subset, FS_CardinalityType
<1>5. CASE c \in Work /\ assigned'[c] = k
  <2>1. HeldBy(k)' \subseteq HeldBy(k) \cup {c}
    BY <1>1, <1>2 DEF Keeps
  <2>2. /\ IsFiniteSet(HeldBy(k) \cup {c})
        /\ Cardinality(HeldBy(k) \cup {c}) <= Cardinality(HeldBy(k)) + 1
        /\ Cardinality(HeldBy(k) \cup {c}) \in Nat
    <3>1. IsFiniteSet(HeldBy(k) \cup {c})
      BY <1>3, FS_AddElement
    <3>2. Cardinality(HeldBy(k) \cup {c}) =
            IF c \in HeldBy(k) THEN Cardinality(HeldBy(k)) ELSE Cardinality(HeldBy(k)) + 1
      BY <1>3, FS_AddElement
    <3>3. Cardinality(HeldBy(k) \cup {c}) \in Nat
      BY <3>1, FS_CardinalityType
    <3> QED
      BY <1>3, <3>1, <3>2, <3>3
  <2>3. Cardinality(HeldBy(k)') <= Cardinality(HeldBy(k) \cup {c})
    BY <2>1, <2>2, FS_Subset
  <2>4. ActiveCount(k) \in Nat /\ ActiveCount(k) < Capacity[k]
        /\ Cardinality(HeldBy(k)) <= ActiveCount(k)
    BY <1>5, HeldCounted DEF HasCapacity
  <2> QED
    BY <1>3, <1>4, <2>2, <2>3, <2>4 DEF CapacityKept
<1>6. CASE ~(c \in Work /\ assigned'[c] = k)
  <2>1. HeldBy(k)' \subseteq HeldBy(k)
    BY <1>1, <1>2, <1>6 DEF Keeps
  <2>2. Cardinality(HeldBy(k)') <= Cardinality(HeldBy(k))
    BY <1>3, <2>1, FS_Subset
  <2> QED
    BY <1>3, <1>4, <2>2 DEF CapacityKept
<1> QED
  BY <1>5, <1>6

LEMMA ClaimKeeps ==
  ASSUME TypeOK, \A v \in Work : Row(v), NEW k \in Worker, Claim(k)
  PROVE  \E c : Keeps(c) /\ (c \in Work => assigned'[c] = k /\ HasCapacity(k))
<1>1. PICK m \in OrNone(Fairest(Materializable)), q \in OrNone(Reroutable(k)) :
        \E c \in OrNone(Fairest(Claimable(k, m, q))) : Dispatch(k, m, q, c)
  BY DEF Claim
<1>2. PICK c \in OrNone(Fairest(Claimable(k, m, q))) : Dispatch(k, m, q, c)
  BY <1>1
<1>3. \A v \in Work : /\ v = m => state[v] = "blocked"
                      /\ v = q => state[v] = "queued"
  BY <1>1, WorkAssumption DEF OrNone, Fairest, Materializable, Reroutable
<1>4. c \in Work => c \in {m, q} \/ assigned[c] = k
  BY <1>2, WorkAssumption DEF OrNone, Fairest, Claimable
<1>5. ASSUME NEW v \in Work, v # c, state'[v] \in Active
      PROVE  state[v] \in Active /\ assigned'[v] = assigned[v]
  <2>1. v # m /\ state'[v] = state[v]
    BY <1>2, <1>5 DEF Dispatch, Active
  <2>2. v # q
    BY <1>3, <1>5, <2>1 DEF Active
  <2> QED
    BY <1>2, <1>5, <2>1, <2>2 DEF Dispatch
<1>6. c \in Work => assigned'[c] = k
  BY <1>2, <1>4 DEF Dispatch
<1>7. HasCapacity(k)
  BY DEF Claim
<1> QED
  BY <1>5, <1>6, <1>7 DEF Keeps

LEMMA QueueKeeps ==
  ASSUME TypeOK, NEW w \in Work, NEW k, NEW s \in {"queued", "blocked"},
         QueueExecution(w, k), state' = [state EXCEPT ![w] = s]
  PROVE  Keeps(None)
<1>1. \A v \in Work : v # w => state'[v] = state[v] /\ assigned'[v] = assigned[v]
  BY DEF QueueExecution, TypeOK
<1>2. state'[w] \notin Active
  BY DEF TypeOK, Active
<1> QED
  BY <1>1, <1>2 DEF Keeps

LEMMA OtherKeeps ==
  ASSUME TypeOK, [Next]_vars, ~\E k \in Worker : Claim(k) PROVE Keeps(None)
<1>1. ASSUME NEW w \in Work, ApproveWork(w) \/ AnswerWork(w) PROVE Keeps(None)
  <2>1. PICK k \in Placement(w) : QueueExecution(w, k) /\ state' = [state EXCEPT ![w] = Waiting(k)]
    BY <1>1 DEF ApproveWork, AnswerWork
  <2>2. Waiting(k) \in {"queued", "blocked"}
    BY DEF Waiting
  <2> QED
    BY <2>1, <2>2, QueueKeeps
<1>2. ASSUME NEW w \in Work, RetrySession(w) PROVE Keeps(None)
  BY <1>2, QueueKeeps DEF RetrySession
<1>3. ASSUME NEW old \in Work, NEW w \in Work, ReplaceWork(old, w) PROVE Keeps(None)
  <2>1. PICK k \in OrNone(eligible) : QueueExecution(w, k) /\ state' = [state EXCEPT ![w] = Waiting(k)]
    BY <1>3 DEF ReplaceWork
  <2>2. Waiting(k) \in {"queued", "blocked"}
    BY DEF Waiting
  <2> QED
    BY <2>1, <2>2, QueueKeeps
<1>4. CASE Admit
  <2>1. PICK r \in Run : AdmitTask(r) \/ \E rebuild \in BOOLEAN : AdmitBuild(r, rebuild)
    BY <1>4 DEF Admit
  <2>2. ASSUME NEW v \in Work, RunOf[v] = r PROVE state'[v] \notin Active
    BY <2>1, <2>2 DEF AdmitTask, AdmitBuild, InsertRun, Active
  <2>3. ASSUME NEW v \in Work, RunOf[v] # r
        PROVE  state'[v] = state[v] /\ assigned'[v] = assigned[v]
    BY <2>1, <2>3 DEF AdmitTask, AdmitBuild, InsertRun, QueuedFirst, Members, executionVars
  <2> QED
    BY <2>2, <2>3 DEF Keeps
<1>5. ASSUME NEW ws \in SUBSET Work, CancelAll(ws) \/ DisableRepository(ws) PROVE Keeps(None)
  BY <1>5 DEF CancelAll, DisableRepository, TakenBack, Keeps, Active
<1>6. CASE \/ \E w \in Work : CancelSession(w)
           \/ \E r \in Run : CancelRun(r)
           \/ \E ws \in SUBSET Work : DisableRepository(ws)
  <2>1. \A w \in Work : {w} \in SUBSET Work
    OBVIOUS
  <2>2. \A r \in Run : Members(r) \in SUBSET Work
    BY DEF Members
  <2> QED
    BY <1>5, <1>6, <2>1, <2>2 DEF CancelSession, CancelRun
<1>7. CASE SetFactoryPause \/ RegisterWorker \/ Tick \/ UNCHANGED vars
  <2>1. state' = state /\ assigned' = assigned
    BY <1>7 DEF SetFactoryPause, RegisterWorker, Tick, vars, sessionVars, executionVars
  <2> QED
    BY <2>1 DEF Keeps
<1>8. ASSUME NEW w \in Work, NEW n \in Number, Hold(w, n) PROVE Keeps(None)
  <2>1. assigned' = assigned
    BY <1>8 DEF Hold, StartAttempt, Heartbeat, AppendAgentUpdate, CompleteAttempt, executionVars
  <2>2. ASSUME NEW v \in Work, state'[v] # state[v] PROVE state[v] \in Active
    BY <1>8, <2>2 DEF Hold, StartAttempt, Heartbeat, AppendAgentUpdate, CompleteAttempt,
                      EndSession, sessionVars, Active, TypeOK
  <2> QED
    BY <2>1, <2>2 DEF Keeps
<1>9. CASE SweepExpired
  BY <1>9 DEF SweepExpired, Keeps, Active
<1> QED
  BY <1>1, <1>2, <1>3, <1>4, <1>6, <1>7, <1>8, <1>9, NextKinds DEF Plain, Reopening

LEMMA NextCapacity ==
  ASSUME TypeOK, HeldMatches, HeldMatches', \A v \in Work : Row(v), NEW k \in Worker,
         CapacityKept(k), [Next]_vars
  PROVE  CapacityKept(k)'
<1>1. ASSUME NEW h \in Worker, Claim(h) PROVE CapacityKept(k)'
  <2>1. PICK c : Keeps(c) /\ (c \in Work => assigned'[c] = h /\ HasCapacity(h))
    BY <1>1, ClaimKeeps
  <2> QED
    BY <2>1, KeepsStep
<1>2. CASE ~\E h \in Worker : Claim(h)
  BY <1>2, OtherKeeps, KeepsStep, WorkAssumption
<1> QED
  BY <1>1, <1>2
-----------------------------------------------------------------------------
(* The terminal mark of a run.                                             *)

RunAdmitted(r) == \E w \in Members(r) : state[w] # "absent"
DoneExact(r) == done[r] <=> RunAdmitted(r) /\ RunDone(r, state)

\* Nothing about r that its mark depends on changes.
LEMMA DoneFrame ==
  ASSUME NEW r, DoneExact(r), done'[r] = done[r],
         \A w \in Members(r) : /\ state'[w] = "absent" <=> state[w] = "absent"
                               /\ state'[w] \in Nonterminal <=> state[w] \in Nonterminal
  PROVE  DoneExact(r)'
<1>1. RunAdmitted(r)' <=> RunAdmitted(r)
  BY DEF RunAdmitted, Members
<1>2. RunDone(r, state)' <=> RunDone(r, state)
  BY DEF RunDone, Members
<1> QED
  BY <1>1, <1>2 DEF DoneExact

\* The mark is removed, or was not set, while one of r waits.
LEMMA DoneOpened ==
  ASSUME NEW r, done'[r] = FALSE, NEW w \in Members(r), state'[w] \in Nonterminal
  PROVE  DoneExact(r)'
<1>1. ~RunDone(r, state)'
  BY DEF RunDone, Members
<1> QED
  BY <1>1 DEF DoneExact

\* The mark is computed from the rows as they are left.
LEMMA DoneComputed ==
  ASSUME NEW r, done'[r] = RunDone(r, state'), NEW w \in Members(r), state'[w] # "absent"
  PROVE  DoneExact(r)'
<1>1. RunAdmitted(r)'
  BY DEF RunAdmitted, Members
<1>2. RunDone(r, state)' <=> RunDone(r, state')
  BY DEF RunDone, Members
<1> QED
  BY <1>1, <1>2 DEF DoneExact

LEMMA AdmitDone ==
  ASSUME TypeOK, NEW r \in Run, DoneExact(r), Admit PROVE DoneExact(r)'
<1>1. PICK s \in Run : AdmitTask(s) \/ \E rebuild \in BOOLEAN : AdmitBuild(s, rebuild)
  BY DEF Admit
<1>2. done' = done
  BY <1>1 DEF AdmitTask, AdmitBuild, InsertRun
<1>3. CASE s # r
  <2>1. \A v \in Members(r) : state'[v] = state[v]
    BY <1>1, <1>3 DEF AdmitTask, AdmitBuild, InsertRun, Members
  <2> QED
    BY <1>2, <2>1, DoneFrame
<1>4. CASE s = r
  <2>1. Members(r) # {} /\ \A v \in Members(r) : state[v] = "absent"
    BY <1>1, <1>4 DEF AdmitTask, AdmitBuild
  <2>2. done[r] = FALSE
    BY <2>1 DEF DoneExact, RunAdmitted, TypeOK
  <2>3. \A v \in Members(r) : state'[v] \in {"draft", "blocked", "queued"}
    BY <1>1, <1>4 DEF AdmitTask, AdmitBuild, InsertRun, Members
  <2> QED
    BY <1>2, <2>1, <2>2, <2>3, DoneOpened DEF Nonterminal
<1> QED
  BY <1>3, <1>4

\* ApproveWork, RetrySession, AnswerWork: w waits again and its run is open.
LEMMA ReopenDone ==
  ASSUME TypeOK, NEW r \in Run, DoneExact(r), NEW w \in Work,
         NEW s \in {"queued", "blocked"}, state' = [state EXCEPT ![w] = s],
         done' = [done EXCEPT ![RunOf[w]] = FALSE]
  PROVE  DoneExact(r)'
<1>1. CASE RunOf[w] = r
  <2>1. w \in Members(r) /\ state'[w] \in Nonterminal /\ done'[r] = FALSE
    BY <1>1 DEF Members, TypeOK, Nonterminal
  <2> QED
    BY <2>1, DoneOpened
<1>2. CASE RunOf[w] # r
  <2>1. done'[r] = done[r] /\ \A v \in Members(r) : state'[v] = state[v]
    BY <1>2 DEF Members, TypeOK
  <2> QED
    BY <2>1, DoneFrame
<1> QED
  BY <1>1, <1>2

LEMMA ReplaceDone ==
  ASSUME TypeOK, NEW r \in Run, DoneExact(r), NEW old \in Work, NEW w \in Work,
         ReplaceWork(old, w)
  PROVE  DoneExact(r)'
<1>1. PICK s \in {"queued", "blocked"} : state' = [state EXCEPT ![w] = s]
  BY DEF ReplaceWork, Waiting
<1>2. done' = done /\ Members(RunOf[w]) = {w} /\ state[w] = "absent"
  BY DEF ReplaceWork
<1>3. CASE RunOf[w] = r
  <2>1. done[r] = FALSE
    BY <1>2, <1>3 DEF DoneExact, RunAdmitted, TypeOK
  <2>2. w \in Members(r) /\ state'[w] \in Nonterminal
    BY <1>1, <1>2, <1>3 DEF TypeOK, Nonterminal
  <2> QED
    BY <1>2, <2>1, <2>2, DoneOpened
<1>4. CASE RunOf[w] # r
  <2>1. \A v \in Members(r) : state'[v] = state[v]
    BY <1>1, <1>4 DEF Members, TypeOK
  <2> QED
    BY <1>2, <2>1, DoneFrame
<1> QED
  BY <1>3, <1>4

LEMMA CancelSessionDone ==
  ASSUME TypeOK, NEW r \in Run, DoneExact(r), NEW w \in Work, CancelSession(w)
  PROVE  DoneExact(r)'
<1>1. /\ done' = [done EXCEPT ![RunOf[w]] = RunDone(RunOf[w], state')]
      /\ state[w] \in Nonterminal
      /\ \A v \in Work : v # w => state'[v] = state[v]
      /\ state'[w] \in {"cancelled", state[w]}
  BY DEF CancelSession, CancelAll
<1>2. CASE RunOf[w] = r
  <2>1. w \in Members(r) /\ state'[w] # "absent" /\ done'[r] = RunDone(r, state')
    BY <1>1, <1>2 DEF Members, Nonterminal, TypeOK
  <2> QED
    BY <2>1, DoneComputed
<1>3. CASE RunOf[w] # r
  <2>1. done'[r] = done[r] /\ \A v \in Members(r) : state'[v] = state[v]
    BY <1>1, <1>3 DEF Members, TypeOK
  <2> QED
    BY <2>1, DoneFrame
<1> QED
  BY <1>2, <1>3

LEMMA CancelRunDone ==
  ASSUME TypeOK, NEW r \in Run, DoneExact(r), NEW s \in Run, CancelRun(s)
  PROVE  DoneExact(r)'
<1>1. /\ done' = [done EXCEPT ![s] = RunDone(s, state')]
      /\ \E w \in Members(s) : state[w] # "absent"
      /\ \A v \in Work : /\ v \notin Members(s) => state'[v] = state[v]
                         /\ state'[v] \in {"cancelled", state[v]}
  BY DEF CancelRun, CancelAll
<1>2. CASE s = r
  <2>1. PICK w \in Members(r) : state[w] # "absent"
    BY <1>1, <1>2
  <2>2. state'[w] # "absent" /\ done'[r] = RunDone(r, state')
    BY <1>1, <1>2, <2>1 DEF Members, TypeOK
  <2> QED
    BY <2>2, DoneComputed
<1>3. CASE s # r
  <2>1. done'[r] = done[r] /\ \A v \in Members(r) : state'[v] = state[v]
    BY <1>1, <1>3 DEF Members, TypeOK
  <2> QED
    BY <2>1, DoneFrame
<1> QED
  BY <1>2, <1>3

LEMMA CompleteDone ==
  ASSUME TypeOK, NEW r \in Run, DoneExact(r), NEW w \in Work, Row(w), NEW n \in Number,
         NEW reported \in Exit, CompleteAttempt(w, n, reported)
  PROVE  DoneExact(r)'
<1> DEFINE next == WorkStateOf(w, n, EndOf(w, n, reported))
<1>1. next \in Ending \cup Exit /\ EndSession(w, n, next) /\ OwnsLease(w, n)
  BY EndTyped DEF CompleteAttempt
<1> HIDE DEF next
<1>2. state[w] \in Active
  BY <1>1, OpenIsNewest DEF OwnsLease
<1>3. /\ state' = [state EXCEPT ![w] = next]
      /\ done' = [done EXCEPT ![RunOf[w]] = RunDone(RunOf[w], state')]
  BY <1>1, <1>2 DEF EndSession
<1>4. CASE RunOf[w] = r
  <2>1. w \in Members(r) /\ state'[w] # "absent" /\ done'[r] = RunDone(r, state')
    BY <1>1, <1>3, <1>4 DEF Members, Ending, Exit, TypeOK
  <2> QED
    BY <2>1, DoneComputed
<1>5. CASE RunOf[w] # r
  <2>1. done'[r] = done[r] /\ \A v \in Members(r) : state'[v] = state[v]
    BY <1>3, <1>5 DEF Members, TypeOK
  <2> QED
    BY <2>1, DoneFrame
<1> QED
  BY <1>4, <1>5

LEMMA SweepDone ==
  ASSUME TypeOK, NEW r \in Run, DoneExact(r), \A v \in Work : Row(v), SweepExpired
  PROVE  DoneExact(r)'
<1>1. \A v \in Work : state'[v] = IF Collected(v) /\ state[v] \in Active THEN "failed" ELSE state[v]
  BY DEF SweepExpired
<1>2. done'[r] = IF \E w \in Members(r) : Collected(w) THEN RunDone(r, state') ELSE done[r]
  BY DEF SweepExpired
<1>3. CASE \E w \in Members(r) : Collected(w)
  <2>1. PICK w \in Members(r) : Collected(w)
    BY <1>3
  <2>2. w \in Work
    BY DEF Members
  <2>3. state[w] \in Active
    BY <2>1, <2>2, OpenIsNewest DEF Collected, Expired
  <2>4. state'[w] # "absent"
    BY <1>1, <2>1, <2>2, <2>3
  <2> QED
    BY <1>2, <1>3, <2>4, DoneComputed
<1>4. CASE ~\E w \in Members(r) : Collected(w)
  <2>1. \A v \in Members(r) : state'[v] = state[v]
    BY <1>1, <1>4 DEF Members
  <2> QED
    BY <1>2, <1>4, <2>1, DoneFrame
<1> QED
  BY <1>3, <1>4

\* What moves Work among the states that are not terminal leaves the mark alone.
LEMMA ShuffleDone ==
  ASSUME TypeOK, NEW r \in Run, DoneExact(r), \A v \in Work : Row(v), done' = done,
         \A v \in Work : state'[v] # state[v] => state[v] \in Nonterminal /\ state'[v] \in Nonterminal
  PROVE  DoneExact(r)'
<1>1. \A w \in Members(r) : /\ state'[w] = "absent" <=> state[w] = "absent"
                            /\ state'[w] \in Nonterminal <=> state[w] \in Nonterminal
  BY DEF Members, Nonterminal
<1> QED
  BY <1>1, DoneFrame

LEMMA NextDone ==
  ASSUME TypeOK, NEW r \in Run, DoneExact(r), \A v \in Work : Row(v), [Next]_vars
  PROVE  DoneExact(r)'
<1>1. ASSUME NEW w \in Work, ApproveWork(w) \/ AnswerWork(w) \/ RetrySession(w)
      PROVE  DoneExact(r)'
  <2>1. \E s \in {"queued", "blocked"} : state' = [state EXCEPT ![w] = s]
    BY <1>1 DEF ApproveWork, AnswerWork, RetrySession, Waiting
  <2>2. done' = [done EXCEPT ![RunOf[w]] = FALSE]
    BY <1>1 DEF ApproveWork, AnswerWork, RetrySession
  <2> QED
    BY <2>1, <2>2, ReopenDone
<1>2. ASSUME \/ \E k \in Worker : Claim(k)
             \/ \E ws \in SUBSET Work : DisableRepository(ws)
             \/ SetFactoryPause \/ RegisterWorker \/ Tick \/ UNCHANGED vars
      PROVE  DoneExact(r)'
  <2>1. done' = done
    BY <1>2 DEF Claim, Dispatch, DisableRepository, SetFactoryPause, RegisterWorker, Tick, vars
  <2>2. ASSUME NEW v \in Work, state'[v] # state[v]
        PROVE  state[v] \in Nonterminal /\ state'[v] \in Nonterminal
    <3>1. CASE \E k \in Worker : Claim(k)
      <4>1. Unmoved(v) \/ Shifted(v) \/ Taken(v)
        BY <3>1, ClaimSteps
      <4> QED
        BY <2>2, <4>1 DEF Unmoved, Shifted, Taken, Nonterminal
    <3>2. CASE \E ws \in SUBSET Work : DisableRepository(ws)
      BY <2>2, <3>2 DEF DisableRepository, TakenBack, Nonterminal
    <3>3. CASE SetFactoryPause \/ RegisterWorker \/ Tick \/ UNCHANGED vars
      BY <2>2, <3>3 DEF SetFactoryPause, RegisterWorker, Tick, vars, sessionVars
    <3> QED
      BY <1>2, <3>1, <3>2, <3>3
  <2> QED
    BY <2>1, <2>2, ShuffleDone
<1>3. ASSUME NEW w \in Work, NEW n \in Number, Hold(w, n) PROVE DoneExact(r)'
  <2>1. CASE \E reported \in Exit : CompleteAttempt(w, n, reported)
    BY <2>1, CompleteDone
  <2>2. CASE \/ \E sha \in Number \cup {0}, started \in BOOLEAN : StartAttempt(w, n, sha, started)
             \/ Heartbeat(w, n) \/ \E status \in Ending : AppendAgentUpdate(w, n, status)
    <3>1. done' = done
      BY <2>2 DEF StartAttempt, Heartbeat, AppendAgentUpdate
    <3>2. ASSUME NEW v \in Work, state'[v] # state[v]
          PROVE  state[v] \in Nonterminal /\ state'[v] \in Nonterminal
      BY <2>2, <3>2 DEF StartAttempt, Heartbeat, AppendAgentUpdate, sessionVars, Nonterminal, TypeOK
    <3> QED
      BY <3>1, <3>2, ShuffleDone
  <2> QED
    BY <1>3, <2>1, <2>2 DEF Hold, Exit
<1> QED
  BY <1>1, <1>2, <1>3, AdmitDone, ReplaceDone, CancelSessionDone, CancelRunDone, SweepDone,
     NextKinds DEF Plain, Reopening
-----------------------------------------------------------------------------
LimitsInv ==
  /\ \A r \in Run : SlotsKept(r) /\ DoneExact(r)
  /\ \A k \in Worker : CapacityKept(k)

LEMMA InitLimits == Init => LimitsInv
<1> SUFFICES ASSUME Init PROVE LimitsInv
  OBVIOUS
<1>1. ASSUME NEW r \in Run PROVE SlotsKept(r) /\ DoneExact(r)
  <2>1. Occupied(r) = {}
    BY DEF Init, Occupied, Occupying, Members
  <2>2. Limit[r] \in Nat /\ Cardinality(Occupied(r)) = 0
    BY <2>1, RunAssumption, FS_EmptySet
  <2>3. ~RunAdmitted(r) /\ done[r] = FALSE
    BY DEF Init, RunAdmitted, Members
  <2> QED
    BY <2>2, <2>3 DEF SlotsKept, DoneExact
<1>2. ASSUME NEW k \in Worker PROVE CapacityKept(k)
  <2>1. HeldBy(k) = {}
    BY DEF Init, HeldBy, Active
  <2> QED
    BY <2>1, WorkerAssumption, FS_EmptySet DEF CapacityKept
<1> QED
  BY <1>1, <1>2 DEF LimitsInv

\* The limits of runs and workers are kept and a run is marked terminal exactly
\* when it is, whichever way Work takes into the queue and out of it.
THEOREM LimitsAlwaysExact == Spec => []LimitsExact
<1>1. HistoryInv => HeldMatches
  BY HeldState DEF HistoryInv, History
<1>2. ASSUME HistoryInv, HeldMatches, HeldMatches', LimitsInv, [Next]_vars PROVE LimitsInv'
  <2>1. TypeOK /\ \A v \in Work : Row(v)
    BY <1>2 DEF HistoryInv, History
  <2> QED
    BY <1>2, <2>1, NextSlots, NextCapacity, NextDone DEF LimitsInv
<1>3. LimitsInv => LimitsExact
  <2> SUFFICES ASSUME LimitsInv PROVE LimitsExact
    OBVIOUS
  <2>1. SlotsWithinLimit
    <3>1. \A r \in Run : Occupied(r) = {w \in Work : /\ RunOf[w] = r
                                       /\ state[w] \in {"queued", "preparing", "running"}}
      BY DEF Occupied, Members, Occupying
    <3> QED
      BY <3>1 DEF LimitsInv, SlotsKept, SlotsWithinLimit
  <2>2. CapacityRespected
    BY DEF LimitsInv, CapacityKept, HeldBy, CapacityRespected
  <2>3. RunDoneExact
    BY DEF LimitsInv, DoneExact, RunAdmitted, RunDone, Members, RunDoneExact
  <2> QED
    BY <2>1, <2>2, <2>3 DEF LimitsExact, LimitsKept
<1> QED
  BY <1>1, <1>2, <1>3, InitLimits, HistoryInvariant, PTL DEF Spec
=============================================================================
