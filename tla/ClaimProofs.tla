---------------------------- MODULE ClaimProofs ----------------------------
(***************************************************************************)
(* The proof that ClaimProtocol is safe: for any number of requests, slots *)
(* and changes of the worker's health, the server reserves at most one     *)
(* attempt for a request, and a worker that trusts its registration, or    *)
(* keeps a claim pending, is right to.                                     *)
(***************************************************************************)
EXTENDS ClaimProtocol, FiniteSetTheorems, TLAPS

StepNames == Working \cup {"unused", "turnedAway", "empty", "refused", "abandoned", "ended"}
CallType == [owner : Request \cup {Nobody, Loop}, kind : {"none", "register", "heartbeat"},
             of : Generations, applied : BOOLEAN]
Handing == {"disposing", "disposed"}
HandedOff == {r \in Request : step[r] \in Handing}

\* Who is counted: the slots, the capacity handoffs and the goroutine that claims.
Counts ==
  /\ handoffs \in 0 .. MaxConcurrent /\ handoffs = Cardinality(HandedOff)
  /\ claiming \in Request \cup {Nobody} /\ (claiming # Nobody => claiming \in Slots)
  /\ Cardinality(Slots) <= MaxConcurrent
  /\ step \in [Request -> StepNames]

\* The worker's own view of its health and its registration.
WorkerTypes ==
  /\ health \in {"healthy", "unhealthy"} /\ fatal \in BOOLEAN /\ probing \in BOOLEAN
  /\ fatal => health = "unhealthy"
  /\ generation \in Generations /\ registered \in BOOLEAN
  /\ advertised \in Generations \cup {Never} /\ stored \in Generations \cup {Never}
  /\ due \in BOOLEAN /\ calling \in CallType

RequestTypes ==
  /\ pending \subseteq Request
  /\ asked \in [Request -> Answers \cup {"none", "sent"}] /\ late \subseteq Request
  /\ ledger \in [Request -> {"none", "empty", "open", "ended"}] /\ opened \in [Request -> Nat]

\* What a request and its row say of each other.  An answer in flight is the row's; a
\* goroutine with an attempt has a row that reserved one; and a row that said there is
\* none outlives every copy of its request.
RowFits(r) ==
  /\ asked[r] # "none" => step[r] \in {"asking", "answered"}
  /\ step[r] = "answered" => asked[r] \in Answers
  /\ ledger[r] \in {"open", "ended"} => opened[r] = 1
  /\ ledger[r] \in {"none", "empty"} => opened[r] = 0
  /\ asked[r] = "claim" => ledger[r] \in {"open", "ended"}
  /\ step[r] \in {"rejected", "running", "disposing", "disposed"} => ledger[r] \in {"open", "ended"}
  /\ asked[r] = "empty" => ledger[r] = "empty"
  /\ step[r] = "empty" => ledger[r] = "empty" \/ (ledger[r] = "none" /\ r \notin late)

\* The registration the worker believes in is the server's: the call under way is no
\* older than what it advertised, and what was advertised of this generation is stored.
CallFits ==
  /\ advertised <= generation
  /\ advertised = generation => stored = generation
  /\ registered => advertised = generation
  /\ calling # NoCall =>
       /\ calling.owner \in Request \cup {Loop} /\ calling.kind \in {"register", "heartbeat"}
       /\ calling.of <= generation
       /\ calling.owner # Loop => step[calling.owner] = "registering" /\ calling.kind = "register"
       /\ calling.kind = "register" => /\ advertised <= calling.of
                                       /\ calling.applied => stored = calling.of
       /\ calling.kind = "heartbeat" => handoffs > 0

\* A claim that is pending was not overtaken by the worker's health.
PendingFits ==
  pending # {} => /\ health = "healthy"
                  /\ registered \/ due \/ handoffs > 0 \/ calling.kind = "register"

ClaimInv ==
  /\ Counts /\ WorkerTypes /\ RequestTypes
  /\ \A r \in Request : RowFits(r)
  /\ CallFits /\ PendingFits

LEMMA ClaimConstantsHold ==
  /\ MaxRequests \in Nat \ {0} /\ MaxConcurrent \in Nat \ {0} /\ MaxGeneration \in Nat \ {0}
  /\ Nobody # Loop /\ Nobody \notin Request /\ Loop \notin Request
BY ClaimConstants

LEMMA RequestsFinite == \A S \in SUBSET Request : IsFiniteSet(S) /\ Cardinality(S) \in Nat
<1>1. IsFiniteSet(1 .. MaxRequests)
  BY ClaimConstantsHold, FS_Interval
<1>2. \A S \in SUBSET (1 .. MaxRequests) : IsFiniteSet(S)
  BY <1>1, FS_Subset
<1> QED
  BY <1>2, FS_CardinalityType DEF Request

LEMMA NoCallType ==
  /\ NoCall \in CallType
  /\ NoCall.owner = Nobody /\ NoCall.kind = "none" /\ NoCall.of = 0 /\ NoCall.applied = FALSE
BY ClaimConstantsHold DEF NoCall, CallType, Generations

LEMMA ClaimInit == Init => ClaimInv
<1> SUFFICES ASSUME Init PROVE ClaimInv
  OBVIOUS
<1>1. Slots = {} /\ HandedOff = {}
  BY DEF Init, Slots, HandedOff, Handing, Working
<1>2. Counts
  BY <1>1, FS_EmptySet, ClaimConstantsHold DEF Init, Counts, StepNames
<1>3. WorkerTypes
  <2>1. generation \in Generations
    BY ClaimConstantsHold DEF Init, Generations
  <2>2. fatal \in BOOLEAN /\ probing \in BOOLEAN /\ registered \in BOOLEAN /\ due \in BOOLEAN
    BY Zenon DEF Init
  <2>3. health \in {"healthy", "unhealthy"} /\ (fatal => health = "unhealthy")
    BY DEF Init
  <2> QED
    BY <2>1, <2>2, <2>3, NoCallType DEF Init, WorkerTypes
<1>4. RequestTypes /\ \A r \in Request : RowFits(r)
  BY DEF Init, RequestTypes, RowFits
<1>5. CallFits /\ PendingFits
  BY ClaimConstantsHold DEF Init, CallFits, PendingFits, Never
<1> QED
  BY <1>2, <1>3, <1>4, <1>5 DEF ClaimInv

\* Of the goroutines that hold a slot one moves on, or leaves it.
LEMMA CountsKept ==
  ASSUME Counts, NEW r \in Request, NEW x \in StepNames, step[r] \in Working,
         step' = [step EXCEPT ![r] = x],
         \/ (step[r] \in Handing <=> x \in Handing) /\ handoffs' = handoffs
         \/ step[r] \notin Handing /\ x \in Handing /\ handoffs' = handoffs + 1
         \/ step[r] \in Handing /\ x \notin Handing /\ handoffs' = handoffs - 1,
         \/ claiming' = IF claiming = r THEN Nobody ELSE claiming
         \/ claiming' = claiming /\ x \in Working
  PROVE  Counts' /\ \A q \in Request : step'[q] = IF q = r THEN x ELSE step[q]
<1>1. /\ step' \in [Request -> StepNames]
      /\ \A q \in Request : step'[q] = IF q = r THEN x ELSE step[q]
  BY DEF Counts
<1>2. /\ Slots \in SUBSET Request /\ HandedOff \in SUBSET Request
      /\ Slots' \in SUBSET Request /\ HandedOff' \in SUBSET Request
  BY <1>1 DEF Slots, HandedOff
<1>3. Slots' \subseteq Slots /\ HandedOff' \subseteq Slots'
  BY <1>1 DEF Slots, HandedOff, Handing, Working
<1>4. /\ Cardinality(Slots') <= Cardinality(Slots)
      /\ Cardinality(HandedOff') <= Cardinality(Slots')
      /\ Cardinality(Slots) \in Nat /\ Cardinality(Slots') \in Nat
      /\ Cardinality(HandedOff') \in Nat /\ Cardinality(HandedOff) \in Nat
  BY <1>2, <1>3, RequestsFinite, FS_Subset
<1>5. /\ Cardinality(HandedOff') <= MaxConcurrent /\ Cardinality(Slots') <= MaxConcurrent
      /\ handoffs = Cardinality(HandedOff)
  BY <1>4, ClaimConstantsHold DEF Counts
<1>6. handoffs' = Cardinality(HandedOff')
  <2>1. CASE (step[r] \in Handing <=> x \in Handing) /\ handoffs' = handoffs
    <3>1. HandedOff' = HandedOff
      BY <1>1, <2>1 DEF HandedOff
    <3> QED
      BY <1>5, <2>1, <3>1
  <2>2. CASE step[r] \notin Handing /\ x \in Handing /\ handoffs' = handoffs + 1
    <3>1. HandedOff' = HandedOff \cup {r} /\ r \notin HandedOff
      BY <1>1, <2>2 DEF HandedOff
    <3>2. Cardinality(HandedOff \cup {r}) = Cardinality(HandedOff) + 1
      BY <1>2, <3>1, RequestsFinite, FS_AddElement
    <3> QED
      BY <1>5, <2>2, <3>1, <3>2
  <2>3. CASE step[r] \in Handing /\ x \notin Handing /\ handoffs' = handoffs - 1
    <3>1. HandedOff' = HandedOff \ {r} /\ r \in HandedOff
      BY <1>1, <2>3 DEF HandedOff
    <3>2. Cardinality(HandedOff \ {r}) = Cardinality(HandedOff) - 1
      BY <1>2, <3>1, RequestsFinite, FS_RemoveElement
    <3> QED
      BY <1>5, <2>3, <3>1, <3>2
  <2> QED
    BY <2>1, <2>2, <2>3
<1>7. handoffs' \in 0 .. MaxConcurrent
  BY <1>4, <1>5, <1>6, ClaimConstantsHold
<1>8. claiming' \in Request \cup {Nobody} /\ (claiming' # Nobody => claiming' \in Slots')
  BY <1>1 DEF Counts, Slots
<1> QED
  BY <1>1, <1>5, <1>6, <1>7, <1>8 DEF Counts

\* A step of the goroutine of r that leaves the registration as it was.
LEMMA GoroutineKept ==
  ASSUME ClaimInv, NEW r \in Request, NEW x \in StepNames, step[r] \in Working \ {"registering"},
         Counts', \A q \in Request : step'[q] = IF q = r THEN x ELSE step[q],
         UNCHANGED <<health, fatal, probing, generation, registered, advertised, stored, due, calling>>,
         RequestTypes', RowFits(r)',
         \A q \in Request \ {r} : asked'[q] = asked[q] /\ ledger'[q] = ledger[q]
                                  /\ opened'[q] = opened[q] /\ (q \in late' => q \in late),
         \/ pending' \subseteq pending
         \/ pending' = pending \cup {r} /\ health = "healthy" /\ registered,
         handoffs' >= handoffs \/ (calling = NoCall /\ handoffs' > 0)
  PROVE  ClaimInv'
<1>1. WorkerTypes'
  BY DEF ClaimInv, WorkerTypes
<1>2. \A q \in Request : RowFits(q)'
  <2> SUFFICES ASSUME NEW q \in Request \ {r} PROVE RowFits(q)'
    OBVIOUS
  <2> QED
    BY DEF ClaimInv, RowFits
<1>3. handoffs \in Nat /\ handoffs' \in Nat
  BY DEF ClaimInv, Counts
<1>4. CallFits'
  BY <1>3 DEF ClaimInv, CallFits
<1>5. PendingFits'
  BY <1>3 DEF ClaimInv, PendingFits
<1> QED
  BY <1>1, <1>2, <1>4, <1>5 DEF ClaimInv

\* The first steps of a claim: it is begun, sent, sent again, answered and withdrawn.
LEMMA AskingKept ==
  ASSUME ClaimInv, NEW r \in Request,
         \/ BeginClaim(r) \/ Timeout(r) \/ Retry(r) \/ Receive(r) \/ Abandon(r)
  PROVE  ClaimInv'
<1>c. Counts /\ RequestTypes /\ RowFits(r) /\ handoffs \in Nat
  BY DEF ClaimInv, Counts
<1>s. {"asking", "turnedAway", "answered", "abandoned"} \subseteq StepNames
      /\ step \in [Request -> StepNames]
  BY <1>c DEF StepNames, Working, Counts
<1>e. Eligible => health = "healthy" /\ registered
  BY DEF Eligible
<1>1. CASE BeginClaim(r)
  <2>1. /\ step[r] = "reserved" /\ UNCHANGED <<workerVars, callVars, late, serverVars, stored>>
    BY <1>1 DEF BeginClaim
  <2>2. PICK x \in {"asking", "turnedAway"} :
          /\ step' = [step EXCEPT ![r] = x]
          /\ \/ /\ x = "asking" /\ pending' = pending \cup {r} /\ claiming' = claiming
                /\ asked' = [asked EXCEPT ![r] = "sent"] /\ health = "healthy" /\ registered
             \/ /\ x = "turnedAway" /\ UNCHANGED <<pending, asked>>
                /\ claiming' = IF claiming = r THEN Nobody ELSE claiming
    BY <1>1, <1>e DEF BeginClaim, Leave, Release
  <2>3. Counts' /\ \A q \in Request : step'[q] = IF q = r THEN x ELSE step[q]
    BY <1>c, <1>s, <2>1, <2>2, CountsKept DEF Working, Handing, callVars
  <2>4. RequestTypes' /\ RowFits(r)'
    BY <1>c, <2>1, <2>2, <2>3 DEF RequestTypes, RowFits, serverVars
  <2>5. \A q \in Request \ {r} : asked'[q] = asked[q]
    BY <1>c, <2>2 DEF RequestTypes
  <2> QED
    BY <1>s, <1>c, <2>1, <2>2, <2>3, <2>4, <2>5, GoroutineKept
       DEF Working, workerVars, callVars, serverVars
<1>2. CASE Timeout(r)
  <2>1. /\ step[r] = "asking" /\ asked' = [asked EXCEPT ![r] = "none"]
        /\ late' \in {late, late \cup {r}}
        /\ UNCHANGED <<workerVars, callVars, claimVars, serverVars, stored>>
    BY <1>2 DEF Timeout
  <2>2. Counts' /\ \A q \in Request : step'[q] = IF q = r THEN "asking" ELSE step[q]
    BY <1>c, <2>1 DEF Counts, callVars, claimVars, Slots, HandedOff
  <2>3. RequestTypes' /\ RowFits(r)'
    BY <1>c, <2>1, <2>2 DEF RequestTypes, RowFits, serverVars, claimVars
  <2>4. \A q \in Request \ {r} : asked'[q] = asked[q]
    BY <1>c, <2>1 DEF RequestTypes
  <2> QED
    BY <1>s, <1>c, <2>1, <2>2, <2>3, <2>4, GoroutineKept
       DEF Working, workerVars, callVars, serverVars, claimVars
<1>3. CASE Retry(r)
  <2>1. /\ step[r] = "asking" /\ asked' = [asked EXCEPT ![r] = "sent"]
        /\ UNCHANGED <<workerVars, callVars, claimVars, late, serverVars, stored>>
    BY <1>3 DEF Retry
  <2>2. Counts' /\ \A q \in Request : step'[q] = IF q = r THEN "asking" ELSE step[q]
    BY <1>c, <2>1 DEF Counts, callVars, claimVars, Slots, HandedOff
  <2>3. RequestTypes' /\ RowFits(r)'
    BY <1>c, <2>1, <2>2 DEF RequestTypes, RowFits, serverVars, claimVars
  <2>4. \A q \in Request \ {r} : asked'[q] = asked[q]
    BY <1>c, <2>1 DEF RequestTypes
  <2> QED
    BY <1>s, <1>c, <2>1, <2>2, <2>3, <2>4, GoroutineKept
       DEF Working, workerVars, callVars, serverVars, claimVars
<1>4. CASE Receive(r)
  <2>1. /\ step[r] = "asking" /\ step' = [step EXCEPT ![r] = "answered"] /\ asked[r] \in Answers
        /\ UNCHANGED <<workerVars, callVars, claiming, pending, netVars, serverVars, stored>>
    BY <1>4 DEF Receive
  <2>2. Counts' /\ \A q \in Request : step'[q] = IF q = r THEN "answered" ELSE step[q]
    BY <1>c, <1>s, <2>1, CountsKept DEF Working, Handing, callVars
  <2>3. RequestTypes' /\ RowFits(r)'
    BY <1>c, <2>1, <2>2 DEF RequestTypes, RowFits, serverVars, netVars
  <2> QED
    BY <1>s, <1>c, <2>1, <2>2, <2>3, GoroutineKept
       DEF Working, workerVars, callVars, serverVars, netVars
<1>5. CASE Abandon(r)
  <2>1. /\ step[r] = "asking" /\ step' = [step EXCEPT ![r] = "abandoned"]
        /\ claiming' = IF claiming = r THEN Nobody ELSE claiming
        /\ asked' = [asked EXCEPT ![r] = "none"] /\ late' \in {late, late \cup {r}}
        /\ UNCHANGED <<workerVars, callVars, pending, serverVars, stored>>
    BY <1>5 DEF Abandon, Leave, Release
  <2>2. Counts' /\ \A q \in Request : step'[q] = IF q = r THEN "abandoned" ELSE step[q]
    BY <1>c, <1>s, <2>1, CountsKept DEF Working, Handing, callVars
  <2>3. RequestTypes' /\ RowFits(r)'
    BY <1>c, <2>1, <2>2 DEF RequestTypes, RowFits, serverVars
  <2>4. \A q \in Request \ {r} : asked'[q] = asked[q]
    BY <1>c, <2>1 DEF RequestTypes
  <2> QED
    BY <1>s, <1>c, <2>1, <2>2, <2>3, <2>4, GoroutineKept
       DEF Working, workerVars, callVars, serverVars
<1> QED
  BY <1>1, <1>2, <1>3, <1>4, <1>5

\* A new goroutine reserves a slot.
LEMMA ReserveKept ==
  ASSUME ClaimInv, NEW r \in Request, ReserveAndClaim(r) PROVE ClaimInv'
<1>c. Counts /\ RequestTypes /\ RowFits(r)
  BY DEF ClaimInv
<1>1. /\ step[r] = "unused" /\ step' = [step EXCEPT ![r] = "reserved"] /\ claiming' = r
      /\ Cardinality(Slots) < MaxConcurrent
      /\ UNCHANGED <<health, fatal, probing, generation, registered, advertised, stored, due,
                     calling, handoffs, pending, asked, late, ledger, opened>>
  BY DEF ReserveAndClaim, workerVars, callVars, netVars, serverVars
<1>2. /\ step' \in [Request -> StepNames]
      /\ \A q \in Request : step'[q] = IF q = r THEN "reserved" ELSE step[q]
  BY <1>c, <1>1 DEF Counts, StepNames, Working
<1>3. Slots' = Slots \cup {r} /\ r \notin Slots /\ HandedOff' = HandedOff
  BY <1>1, <1>2 DEF Slots, HandedOff, Working, Handing
<1>4. Cardinality(Slots') <= MaxConcurrent
  <2>1. IsFiniteSet(Slots) /\ Cardinality(Slots) \in Nat
    BY RequestsFinite DEF Slots
  <2>2. Cardinality(Slots \cup {r}) = Cardinality(Slots) + 1
    BY <1>3, <2>1, FS_AddElement
  <2> QED
    BY <1>1, <1>3, <2>1, <2>2, ClaimConstantsHold
<1>5. Counts'
  BY <1>c, <1>1, <1>2, <1>3, <1>4 DEF Counts
<1>6. WorkerTypes' /\ RequestTypes'
  BY <1>1 DEF ClaimInv, WorkerTypes, RequestTypes
<1>7. \A q \in Request : RowFits(q)'
  BY <1>1, <1>2 DEF ClaimInv, RowFits
<1>8. CallFits' /\ PendingFits'
  BY <1>1, <1>2, ClaimConstantsHold DEF ClaimInv, CallFits, PendingFits
<1> QED
  BY <1>5, <1>6, <1>7, <1>8 DEF ClaimInv

\* An answered claim ends, and an attempt hands its capacity off.
LEMMA HandingKept ==
  ASSUME ClaimInv, NEW r \in Request, EndClaim(r) \/ BeginHandoff(r) \/ Complete(r)
  PROVE  ClaimInv'
<1>c. Counts /\ RequestTypes /\ RowFits(r) /\ handoffs \in Nat
  BY DEF ClaimInv, Counts
<1>s. {"empty", "refused", "running", "rejected", "disposing", "disposed"} \subseteq StepNames
      /\ step \in [Request -> StepNames]
  BY <1>c DEF StepNames, Working, Counts
<1>1. CASE EndClaim(r)
  <2>1. /\ step[r] = "answered" /\ asked' = [asked EXCEPT ![r] = "none"] /\ asked[r] \in Answers
        /\ pending' = pending \ {r}
        /\ UNCHANGED <<workerVars, callVars, late, serverVars, stored>>
    BY <1>c, <1>1 DEF EndClaim, RowFits
  <2>2. PICK x \in {"empty", "refused", "running", "rejected"} :
          /\ step' = [step EXCEPT ![r] = x]
          /\ x \in {"empty", "refused"} => asked[r] = x
          /\ x \in {"running", "rejected"} => asked[r] = "claim"
          /\ \/ claiming' = IF claiming = r THEN Nobody ELSE claiming
             \/ claiming' = claiming /\ x = "rejected"
    BY <1>1, <2>1 DEF EndClaim, Leave, Release, Answers
  <2>3. Counts' /\ \A q \in Request : step'[q] = IF q = r THEN x ELSE step[q]
    BY <1>c, <1>s, <2>1, <2>2, CountsKept DEF Working, Handing, callVars
  <2>4. RequestTypes' /\ RowFits(r)'
    BY <1>c, <2>1, <2>2, <2>3 DEF RequestTypes, RowFits, serverVars
  <2>5. \A q \in Request \ {r} : asked'[q] = asked[q]
    BY <1>c, <2>1 DEF RequestTypes
  <2> QED
    BY <1>s, <1>c, <2>1, <2>2, <2>3, <2>4, <2>5, GoroutineKept
       DEF Working, workerVars, callVars, serverVars
<1>2. CASE BeginHandoff(r)
  <2>1. /\ step[r] \in {"rejected", "running"} /\ step' = [step EXCEPT ![r] = "disposing"]
        /\ handoffs' = handoffs + 1
        /\ UNCHANGED <<workerVars, due, calling, claiming, pending, netVars, serverVars, stored>>
    BY <1>2 DEF BeginHandoff
  <2>2. Counts' /\ \A q \in Request : step'[q] = IF q = r THEN "disposing" ELSE step[q]
    BY <1>c, <1>s, <2>1, CountsKept DEF Working, Handing
  <2>3. RequestTypes' /\ RowFits(r)'
    BY <1>c, <2>1, <2>2 DEF RequestTypes, RowFits, serverVars, netVars
  <2> QED
    BY <1>s, <1>c, <2>1, <2>2, <2>3, GoroutineKept
       DEF Working, workerVars, serverVars, netVars
<1>3. CASE Complete(r)
  <2>1. /\ step[r] = "disposing" /\ step' = [step EXCEPT ![r] = "disposed"]
        /\ ledger' = [ledger EXCEPT ![r] = "ended"]
        /\ UNCHANGED <<workerVars, callVars, claiming, pending, netVars, opened, stored>>
    BY <1>3 DEF Complete
  <2>2. Counts' /\ \A q \in Request : step'[q] = IF q = r THEN "disposed" ELSE step[q]
    BY <1>c, <1>s, <2>1, CountsKept DEF Working, Handing, callVars
  <2>3. RequestTypes' /\ RowFits(r)'
    BY <1>c, <2>1, <2>2 DEF RequestTypes, RowFits, netVars
  <2>4. \A q \in Request \ {r} : ledger'[q] = ledger[q]
    BY <1>c, <2>1 DEF RequestTypes
  <2> QED
    BY <1>s, <1>c, <2>1, <2>2, <2>3, <2>4, GoroutineKept
       DEF Working, workerVars, callVars, netVars
<1> QED
  BY <1>1, <1>2, <1>3

\* The last handoff registers; an earlier one ends.
LEMMA EndHandoffKept ==
  ASSUME ClaimInv, NEW r \in Request, EndHandoff(r) PROVE ClaimInv'
<1>c. Counts /\ RequestTypes /\ RowFits(r) /\ handoffs \in Nat /\ WorkerTypes
  BY DEF ClaimInv, Counts
<1>1. /\ step[r] = "disposed" /\ calling = NoCall /\ handoffs' = handoffs - 1
      /\ UNCHANGED <<health, fatal, probing, generation, registered, advertised, stored, due,
                     pending, asked, late, ledger, opened>>
  BY DEF EndHandoff, workerVars, netVars, serverVars
<1>2. handoffs > 0
  <2>1. r \in HandedOff /\ HandedOff \in SUBSET Request
    BY <1>1 DEF HandedOff, Handing
  <2>2. IsFiniteSet(HandedOff) /\ Cardinality(HandedOff) # 0
    BY <2>1, RequestsFinite, FS_EmptySet
  <2> QED
    BY <1>c, <2>2 DEF Counts
<1>s. {"registering", "ended"} \subseteq StepNames /\ step \in [Request -> StepNames]
  BY <1>c DEF StepNames, Working, Counts
<1>3. CASE handoffs = 1
  <2>1. /\ calling' = [owner |-> r, kind |-> "register", of |-> generation, applied |-> FALSE]
        /\ step' = [step EXCEPT ![r] = "registering"] /\ claiming' = claiming
    BY <1>3 DEF EndHandoff
  <2>2. Counts' /\ \A q \in Request : step'[q] = IF q = r THEN "registering" ELSE step[q]
    BY <1>c, <1>s, <1>1, <2>1, CountsKept DEF Working, Handing
  <2>3. RequestTypes' /\ \A q \in Request : RowFits(q)'
    BY <1>1, <2>2 DEF ClaimInv, RequestTypes, RowFits
  <2>4. /\ calling' # NoCall /\ calling' \in CallType /\ calling'.owner = r
        /\ calling'.kind = "register" /\ calling'.of = generation /\ calling'.applied = FALSE
    BY <1>c, <2>1, NoCallType DEF CallType, WorkerTypes
  <2>5. WorkerTypes'
    BY <1>1, <2>4 DEF ClaimInv, WorkerTypes
  <2>6. generation <= generation
    BY <1>c DEF WorkerTypes, Generations
  <2>7. CallFits'
    BY <1>1, <2>2, <2>4, <2>6 DEF ClaimInv, CallFits
  <2>8. PendingFits'
    BY <1>1, <2>4 DEF ClaimInv, PendingFits
  <2> QED
    BY <2>2, <2>3, <2>5, <2>7, <2>8 DEF ClaimInv
<1>4. CASE handoffs # 1
  <2>1. /\ calling' = calling /\ step' = [step EXCEPT ![r] = "ended"]
        /\ claiming' = IF claiming = r THEN Nobody ELSE claiming
    BY <1>4 DEF EndHandoff, Leave, Release
  <2>2. Counts' /\ \A q \in Request : step'[q] = IF q = r THEN "ended" ELSE step[q]
    BY <1>c, <1>s, <1>1, <2>1, CountsKept DEF Working, Handing
  <2>3. RequestTypes' /\ RowFits(r)'
    BY <1>c, <1>1, <2>2 DEF RequestTypes, RowFits
  <2>4. handoffs' > 0
    BY <1>c, <1>1, <1>2, <1>4
  <2> QED
    BY <1>s, <1>c, <1>1, <2>1, <2>2, <2>3, <2>4, GoroutineKept DEF Working
<1> QED
  BY <1>3, <1>4

\* The probes and what they find.
LEMMA HealthKept ==
  ASSUME ClaimInv,
         \/ BeginHealthCheck \/ MarkUnhealthy \/ RegistrationTick
         \/ \E next \in {"healthy", "unhealthy"}, other \in BOOLEAN : SetHealth(next, other)
  PROVE  ClaimInv'
<1>c. WorkerTypes /\ generation \in Nat /\ MaxGeneration \in Nat
  BY ClaimConstantsHold DEF ClaimInv, WorkerTypes, Generations
<1>g. ASSUME generation < MaxGeneration
      PROVE generation + 1 \in Generations /\ generation + 1 > generation
  BY <1>c, <1>g DEF Generations
<1>u. ASSUME UNCHANGED <<claiming, step, handoffs, asked, late, ledger, opened, calling, stored>>,
             advertised' = advertised, pending' \subseteq pending, WorkerTypes', PendingFits',
             \/ generation' = generation /\ (registered' => registered)
             \/ generation' > generation /\ generation' \in Nat /\ ~registered'
      PROVE  ClaimInv'
  <2>1. Counts'
    BY <1>u DEF ClaimInv, Counts, Slots, HandedOff
  <2>2. RequestTypes' /\ \A r \in Request : RowFits(r)'
    BY <1>u DEF ClaimInv, RequestTypes, RowFits
  <2>3. CallFits'
    <3>1. advertised \in Int /\ calling.of \in Int
      BY <1>c DEF WorkerTypes, Generations, Never, CallType
    <3> QED
      BY <1>c, <1>u, <3>1 DEF ClaimInv, CallFits
  <2> QED
    BY <1>u, <2>1, <2>2, <2>3 DEF ClaimInv
<1>1. CASE BeginHealthCheck
  <2>1. probing' = TRUE /\ UNCHANGED <<health, fatal, generation, registered, advertised, callVars,
                                       claimVars, netVars, serverVars, stored>>
    BY <1>1 DEF BeginHealthCheck
  <2>2. WorkerTypes' /\ PendingFits'
    BY <2>1 DEF ClaimInv, WorkerTypes, PendingFits, callVars, claimVars
  <2> QED
    BY <1>u, <2>1, <2>2 DEF callVars, claimVars, netVars, serverVars
<1>2. CASE MarkUnhealthy
  <2>1. /\ generation < MaxGeneration /\ fatal' = TRUE /\ health' = "unhealthy"
        /\ generation' = generation + 1 /\ registered' = FALSE /\ pending' = {}
        /\ UNCHANGED <<probing, advertised, callVars, claiming, step, netVars, serverVars, stored>>
    BY <1>2 DEF MarkUnhealthy, Distrust
  <2>2. WorkerTypes' /\ PendingFits'
    BY <1>g, <2>1 DEF ClaimInv, WorkerTypes, PendingFits, callVars
  <2> QED
    BY <1>c, <1>g, <1>u, <2>1, <2>2 DEF callVars, netVars, serverVars
<1>3. CASE RegistrationTick
  <2>1. due' = TRUE /\ UNCHANGED <<workerVars, calling, handoffs, claimVars, netVars, serverVars, stored>>
    BY <1>3 DEF RegistrationTick
  <2>2. WorkerTypes' /\ PendingFits'
    BY <2>1 DEF ClaimInv, WorkerTypes, PendingFits, workerVars, claimVars
  <2> QED
    BY <1>u, <2>1, <2>2 DEF workerVars, claimVars, netVars, serverVars
<1>4. ASSUME NEW next \in {"healthy", "unhealthy"}, NEW other \in BOOLEAN, SetHealth(next, other)
      PROVE  ClaimInv'
  <2> DEFINE now == IF fatal THEN "unhealthy" ELSE next
             changed == now # health \/ other
  <2>1. /\ changed => generation < MaxGeneration
        /\ health' = now
        /\ generation' = IF changed THEN generation + 1 ELSE generation
        /\ registered' = (registered /\ ~changed)
        /\ due' = changed
        /\ pending' = IF now = "healthy" THEN pending ELSE {}
        /\ probing' = FALSE /\ ~due
        /\ UNCHANGED <<fatal, advertised, calling, handoffs, claiming, step, netVars, serverVars, stored>>
    BY <1>4 DEF SetHealth
  <2>2. generation' \in Generations
    BY <1>c, <1>g, <2>1 DEF WorkerTypes
  <2>3. WorkerTypes'
    <3>1. /\ registered' \in BOOLEAN /\ due' \in BOOLEAN /\ probing' \in BOOLEAN
          /\ fatal' \in BOOLEAN
      BY <1>c, <2>1 DEF WorkerTypes
    <3>2. health' \in {"healthy", "unhealthy"} /\ (fatal' => health' = "unhealthy")
      BY <2>1
    <3> QED
      BY <1>c, <2>1, <2>2, <3>1, <3>2 DEF WorkerTypes
  <2>4. PendingFits'
    BY <2>1 DEF ClaimInv, PendingFits
  <2>5. \/ generation' = generation /\ (registered' => registered)
        \/ generation' > generation /\ generation' \in Nat /\ ~registered'
    <3>1. registered' => registered /\ ~changed
      BY <2>1
    <3>2. CASE changed
      <4>1. generation' = generation + 1 /\ ~registered'
        BY <2>1, <3>1, <3>2
      <4> QED
        BY <1>c, <4>1
    <3>3. CASE ~changed
      <4>1. generation' = generation
        BY <2>1, <3>3
      <4> QED
        BY <3>1, <4>1
    <3> QED
      BY <3>2, <3>3
  <2>6. pending' \subseteq pending
    BY <2>1
  <2> QED
    BY <1>u, <2>1, <2>3, <2>4, <2>5, <2>6 DEF netVars, serverVars
<1> QED
  BY <1>1, <1>2, <1>3, <1>4

\* A registration or a heartbeat is due, sent, and applied by the server.
LEMMA CallKept == ASSUME ClaimInv, Register \/ RegisterWorker PROVE ClaimInv'
<1>c. WorkerTypes /\ generation \in Nat /\ handoffs \in Nat /\ generation <= generation
  BY DEF ClaimInv, WorkerTypes, Generations, Counts
<1>u. ASSUME UNCHANGED <<workerVars, handoffs, claimVars, netVars, serverVars>>
      PROVE  Counts' /\ RequestTypes' /\ \A r \in Request : RowFits(r)'
  <2>1. UNCHANGED <<handoffs, claiming, pending, step, asked, late, ledger, opened>>
    BY <1>u DEF claimVars, netVars, serverVars
  <2> QED
    BY <2>1 DEF ClaimInv, Counts, RequestTypes, RowFits, Slots, HandedOff
<1>1. CASE Register
  <2>1. /\ due /\ calling = NoCall
        /\ UNCHANGED <<workerVars, handoffs, claimVars, netVars, serverVars, stored>>
    BY <1>1 DEF Register
  <2>2. CASE handoffs = 0 \/ advertised = generation
    <3> DEFINE kind == IF handoffs = 0 THEN "register" ELSE "heartbeat"
    <3>1. /\ calling' = [owner |-> Loop, of |-> generation, applied |-> FALSE, kind |-> kind]
          /\ due' = due
      BY <1>1, <2>2 DEF Register
    <3>2. /\ calling'.owner = Loop /\ calling'.kind = kind /\ calling'.of = generation
          /\ calling'.applied = FALSE /\ calling' \in CallType /\ kind \in {"register", "heartbeat"}
      BY <1>c, <3>1 DEF CallType, WorkerTypes
    <3>3. WorkerTypes'
      BY <1>c, <2>1, <3>1, <3>2 DEF WorkerTypes, workerVars
    <3>4. CallFits'
      BY <1>c, <2>1, <3>2 DEF ClaimInv, CallFits, workerVars
    <3>5. PendingFits'
      BY <2>1, <3>1 DEF ClaimInv, PendingFits, workerVars, claimVars
    <3> QED
      BY <1>u, <2>1, <3>3, <3>4, <3>5 DEF ClaimInv
  <2>3. CASE ~(handoffs = 0 \/ advertised = generation)
    <3>1. due' = FALSE /\ calling' = calling
      BY <1>1, <2>3 DEF Register
    <3>2. WorkerTypes'
      BY <1>c, <2>1, <3>1 DEF WorkerTypes, workerVars
    <3>3. CallFits'
      BY <2>1, <3>1 DEF ClaimInv, CallFits, workerVars, claimVars
    <3>4. PendingFits'
      BY <1>c, <2>1, <2>3, <3>1 DEF ClaimInv, PendingFits, workerVars, claimVars
    <3> QED
      BY <1>u, <2>1, <3>2, <3>3, <3>4 DEF ClaimInv
  <2> QED
    BY <2>2, <2>3
<1>2. CASE RegisterWorker
  <2>1. /\ calling # NoCall /\ calling' = [calling EXCEPT !.applied = TRUE]
        /\ stored' = IF calling.kind = "register" THEN calling.of ELSE stored
        /\ UNCHANGED <<workerVars, due, handoffs, claimVars, netVars, serverVars>>
    BY <1>2 DEF RegisterWorker
  <2>2. /\ calling'.owner = calling.owner /\ calling'.kind = calling.kind
        /\ calling'.of = calling.of /\ calling'.applied = TRUE /\ calling' \in CallType
        /\ calling.of \in Generations /\ calling.owner \in Request \cup {Nobody, Loop}
    BY <1>c, <2>1 DEF WorkerTypes, CallType
  <2>3. WorkerTypes'
    BY <1>c, <2>1, <2>2 DEF WorkerTypes, workerVars
  <2>4. CallFits'
    <3>1. /\ calling.of <= generation /\ advertised <= generation
          /\ calling.kind = "register" => advertised <= calling.of
          /\ calling.of \in Int /\ advertised \in Int /\ generation \in Int
      BY <1>c, <2>1, <2>2 DEF ClaimInv, CallFits, WorkerTypes, Generations, Never
    <3>2. advertised = generation => stored' = generation
      BY <2>1, <3>1 DEF ClaimInv, CallFits
    <3>3. calling.kind = "register" => stored' = calling.of
      BY <2>1
    <3>4. /\ calling.owner \in Request \cup {Loop} /\ calling.kind \in {"register", "heartbeat"}
          /\ calling.owner # Loop => step[calling.owner] = "registering" /\ calling.kind = "register"
          /\ calling.kind = "heartbeat" => handoffs > 0
          /\ registered => advertised = generation
      BY <2>1 DEF ClaimInv, CallFits
    <3>5. UNCHANGED <<advertised, generation, registered, step, handoffs>>
      BY <2>1 DEF workerVars, claimVars
    <3> QED
      BY <2>2, <3>1, <3>2, <3>3, <3>4, <3>5 DEF CallFits
  <2>5. PendingFits'
    BY <2>1, <2>2 DEF ClaimInv, PendingFits, workerVars, claimVars
  <2> QED
    BY <1>u, <2>1, <2>3, <2>4, <2>5 DEF ClaimInv
<1> QED
  BY <1>1, <1>2

\* The call returns to its goroutine.
LEMMA CallEnds ==
  ASSUME ClaimInv, calling # NoCall, EndCall, pending' \subseteq pending,
         UNCHANGED <<handoffs, asked, late, ledger, opened>>
  PROVE  /\ Counts' /\ RequestTypes' /\ \A r \in Request : RowFits(r)'
         /\ calling' = NoCall /\ due' \in BOOLEAN
<1>c. /\ Counts /\ RequestTypes /\ handoffs \in Nat
      /\ calling.owner \in Request \cup {Loop}
      /\ calling.owner # Loop => step[calling.owner] = "registering"
  BY DEF ClaimInv, Counts, CallFits
<1>1. calling' = NoCall /\ due' \in BOOLEAN
  BY DEF EndCall
<1>2. RequestTypes'
  BY <1>c DEF RequestTypes
<1>3. CASE calling.owner = Loop
  <2>1. UNCHANGED <<step, claiming>>
    BY <1>3 DEF EndCall
  <2>2. Counts' /\ \A r \in Request : RowFits(r)'
    BY <1>c, <2>1 DEF ClaimInv, Counts, RowFits, Slots, HandedOff
  <2> QED
    BY <1>1, <1>2, <2>2
<1>4. CASE calling.owner # Loop
  <2>1. PICK r \in Request : r = calling.owner
    BY <1>c, <1>4
  <2>2. /\ step[r] = "registering" /\ step' = [step EXCEPT ![r] = "ended"]
        /\ claiming' = IF claiming = r THEN Nobody ELSE claiming
    BY <1>c, <1>4, <2>1 DEF EndCall, Leave, Release
  <2>3. Counts' /\ \A q \in Request : step'[q] = IF q = r THEN "ended" ELSE step[q]
    BY <1>c, <2>2, CountsKept DEF Working, Handing, StepNames
  <2>4. \A q \in Request : RowFits(q)'
    BY <2>2, <2>3 DEF ClaimInv, RowFits
  <2> QED
    BY <1>1, <1>2, <2>3, <2>4
<1> QED
  BY <1>3, <1>4

\* An answer comes, none comes, or the server refuses the worker.
LEMMA AnswersKept ==
  ASSUME ClaimInv, RegistrationAnswered \/ HeartbeatAnswered \/ CallLost \/ RegistrationRefused
  PROVE  ClaimInv'
<1>c. /\ WorkerTypes /\ generation \in Nat /\ advertised \in Int /\ calling.of \in Generations
      /\ calling.owner \in Request \cup {Nobody, Loop} /\ MaxGeneration \in Nat
  BY ClaimConstantsHold DEF ClaimInv, WorkerTypes, Generations, Never, CallType
<1>k. calling # NoCall
  BY NoCallType DEF RegistrationAnswered, HeartbeatAnswered, CallLost, RegistrationRefused
<1>f. /\ advertised <= generation /\ (advertised = generation => stored = generation)
      /\ registered => advertised = generation
      /\ calling.kind = "register" /\ calling.applied => stored = calling.of
      /\ calling.kind = "heartbeat" => handoffs > 0
  BY <1>k DEF ClaimInv, CallFits
<1>n. NoCall \in CallType
  BY NoCallType
<1>1. CASE RegistrationAnswered
  <2>1. /\ calling.applied /\ calling.kind = "register" /\ Completed(calling.of) /\ EndCall
        /\ UNCHANGED <<health, fatal, probing, generation, handoffs, netVars, serverVars, stored>>
    BY <1>1 DEF RegistrationAnswered
  <2>2. /\ registered' = (calling.of = generation)
        /\ advertised' = IF calling.of = generation THEN calling.of ELSE advertised
        /\ pending' = IF calling.of = generation THEN pending ELSE {}
    BY <2>1 DEF Completed
  <2>3. Counts' /\ RequestTypes' /\ calling' = NoCall /\ due' \in BOOLEAN
        /\ \A r \in Request : RowFits(r)'
    BY <1>k, <2>1, <2>2, CallEnds DEF netVars, serverVars
  <2>4. registered' \in BOOLEAN /\ advertised' \in Generations \cup {Never}
    BY <1>c, <2>2 DEF WorkerTypes
  <2>5. WorkerTypes'
    BY <1>c, <1>n, <2>1, <2>3, <2>4 DEF WorkerTypes
  <2>6. CallFits'
    <3>1. registered' => calling.of = generation
      BY <2>2
    <3>2. stored' = stored /\ generation' = generation /\ (calling.of = generation => stored = generation)
      BY <1>f, <2>1
    <3> QED
      BY <1>c, <1>f, <2>2, <2>3, <3>1, <3>2 DEF CallFits
  <2>7. PendingFits'
    BY <2>1, <2>2 DEF ClaimInv, PendingFits
  <2> QED
    BY <2>3, <2>5, <2>6, <2>7 DEF ClaimInv
<1>2. CASE HeartbeatAnswered
  <2>1. /\ calling.kind = "heartbeat" /\ EndCall
        /\ registered' = (registered \/ (calling.of = generation /\ advertised = generation))
        /\ UNCHANGED <<health, fatal, probing, generation, advertised, handoffs, pending, netVars,
                       serverVars, stored>>
    BY <1>2 DEF HeartbeatAnswered
  <2>2. Counts' /\ RequestTypes' /\ calling' = NoCall /\ due' \in BOOLEAN
        /\ \A r \in Request : RowFits(r)'
    BY <1>k, <2>1, CallEnds DEF netVars, serverVars
  <2>3. registered' \in BOOLEAN
    BY <2>1
  <2>4. WorkerTypes'
    BY <1>c, <1>n, <2>1, <2>2, <2>3 DEF WorkerTypes
  <2>5. CallFits'
    BY <1>f, <2>1, <2>2 DEF CallFits
  <2>6. PendingFits'
    BY <1>f, <2>1 DEF ClaimInv, PendingFits
  <2> QED
    BY <2>2, <2>4, <2>5, <2>6 DEF ClaimInv
<1>3. CASE CallLost
  <2>1. /\ registered' = FALSE /\ pending' = {} /\ EndCall
        /\ UNCHANGED <<health, fatal, probing, generation, advertised, handoffs, netVars,
                       serverVars, stored>>
    BY <1>3 DEF CallLost
  <2>2. Counts' /\ RequestTypes' /\ calling' = NoCall /\ due' \in BOOLEAN
        /\ \A r \in Request : RowFits(r)'
    BY <1>k, <2>1, CallEnds DEF netVars, serverVars
  <2>3. WorkerTypes'
    BY <1>c, <1>n, <2>1, <2>2 DEF WorkerTypes
  <2>4. CallFits' /\ PendingFits'
    BY <1>f, <2>1, <2>2 DEF CallFits, PendingFits
  <2> QED
    BY <2>2, <2>3, <2>4 DEF ClaimInv
<1>4. CASE RegistrationRefused
  <2>1. /\ generation < MaxGeneration /\ fatal' = TRUE /\ health' = "unhealthy"
        /\ generation' = generation + 1 /\ registered' = FALSE /\ pending' = {} /\ EndCall
        /\ UNCHANGED <<probing, advertised, handoffs, netVars, serverVars, stored>>
    BY <1>4 DEF RegistrationRefused, Distrust
  <2>2. Counts' /\ RequestTypes' /\ calling' = NoCall /\ due' \in BOOLEAN
        /\ \A r \in Request : RowFits(r)'
    BY <1>k, <2>1, CallEnds DEF netVars, serverVars
  <2>3. generation' \in Generations /\ advertised < generation'
    BY <1>c, <1>f, <2>1 DEF Generations
  <2>4. WorkerTypes'
    BY <1>c, <1>n, <2>1, <2>2, <2>3 DEF WorkerTypes
  <2>5. CallFits' /\ PendingFits'
    BY <1>c, <2>1, <2>2, <2>3 DEF CallFits, PendingFits
  <2> QED
    BY <2>2, <2>4, <2>5 DEF ClaimInv
<1> QED
  BY <1>1, <1>2, <1>3, <1>4

\* What Claim may do with a row: it keeps one that exists, and a new one reserves at most
\* one attempt.
LEMMA ClaimMeans ==
  ASSUME RequestTypes, NEW r \in Request, NEW answer \in Answers, Claim(r, answer)
  PROVE  /\ \A q \in Request \ {r} : ledger'[q] = ledger[q] /\ opened'[q] = opened[q]
         /\ ledger' \in [Request -> {"none", "empty", "open", "ended"}]
         /\ opened' \in [Request -> Nat]
         /\ \/ /\ ledger' = ledger /\ opened' = opened
               /\ answer = "claim" => ledger[r] = "open"
               /\ answer = "empty" => ledger[r] = "empty"
            \/ /\ ledger[r] = "none" /\ ledger'[r] = "empty" /\ answer = "empty"
               /\ opened' = opened
            \/ /\ ledger[r] = "none" /\ ledger'[r] = "open" /\ answer = "claim"
               /\ opened'[r] = opened[r] + 1
<1>1. /\ ledger \in [Request -> {"none", "empty", "open", "ended"}]
      /\ opened \in [Request -> Nat]
  BY DEF RequestTypes
<1>2. CASE ledger[r] = "open"
  BY <1>1, <1>2 DEF Claim, serverVars
<1>3. CASE ledger[r] = "ended"
  BY <1>1, <1>3 DEF Claim, serverVars
<1>4. CASE ledger[r] = "empty"
  BY <1>1, <1>4 DEF Claim, serverVars
<1>5. CASE ledger[r] = "none"
  <2>1. \/ /\ answer = "empty"
           /\ ledger' = [ledger EXCEPT ![r] = "empty"] /\ UNCHANGED opened
        \/ /\ answer = "claim"
           /\ ledger' = [ledger EXCEPT ![r] = "open"] /\ opened' = [opened EXCEPT ![r] = @ + 1]
    BY <1>5 DEF Claim
  <2> QED
    BY <1>1, <1>5, <2>1
<1> QED
  BY <1>1, <1>2, <1>3, <1>4, <1>5

\* The server answers a claim, or a copy of it, and forgets.
LEMMA RowsKept ==
  ASSUME ClaimInv, NEW r \in Request, ClaimAnswered(r) \/ ClaimLate(r) \/ SweepExpired(r)
  PROVE  ClaimInv'
<1>c. RequestTypes /\ RowFits(r)
  BY DEF ClaimInv
<1>u. ASSUME UNCHANGED <<workerVars, callVars, claimVars, stored>>, RequestTypes', RowFits(r)',
             \A q \in Request \ {r} : asked'[q] = asked[q] /\ ledger'[q] = ledger[q]
                                      /\ opened'[q] = opened[q] /\ (q \in late' => q \in late)
      PROVE  ClaimInv'
  <2>1. Counts' /\ WorkerTypes'
    BY <1>u DEF ClaimInv, Counts, WorkerTypes, workerVars, callVars, claimVars, Slots, HandedOff
  <2>2. \A q \in Request : RowFits(q)'
    <3> SUFFICES ASSUME NEW q \in Request \ {r} PROVE RowFits(q)'
      BY <1>u
    <3>1. RowFits(q) /\ step' = step
      BY <1>u DEF ClaimInv, claimVars
    <3> QED
      BY <1>u, <3>1 DEF RowFits
  <2>3. CallFits' /\ PendingFits'
    BY <1>u DEF ClaimInv, CallFits, PendingFits, workerVars, callVars, claimVars
  <2> QED
    BY <1>u, <2>1, <2>2, <2>3 DEF ClaimInv
<1>1. CASE ClaimAnswered(r)
  <2>1. PICK answer \in Answers : Claim(r, answer) /\ asked' = [asked EXCEPT ![r] = answer]
    BY <1>1 DEF ClaimAnswered
  <2>2. asked[r] = "sent" /\ UNCHANGED <<workerVars, callVars, claimVars, late, stored>>
    BY <1>1 DEF ClaimAnswered
  <2>3. /\ \A q \in Request \ {r} : ledger'[q] = ledger[q] /\ opened'[q] = opened[q]
        /\ ledger' \in [Request -> {"none", "empty", "open", "ended"}]
        /\ opened' \in [Request -> Nat]
        /\ \/ /\ ledger' = ledger /\ opened' = opened
              /\ answer = "claim" => ledger[r] = "open"
              /\ answer = "empty" => ledger[r] = "empty"
           \/ /\ ledger[r] = "none" /\ ledger'[r] = "empty" /\ answer = "empty"
              /\ opened' = opened
           \/ /\ ledger[r] = "none" /\ ledger'[r] = "open" /\ answer = "claim"
              /\ opened'[r] = opened[r] + 1
    BY <1>c, <2>1, ClaimMeans
  <2>4. RequestTypes' /\ asked'[r] = answer /\ \A q \in Request \ {r} : asked'[q] = asked[q]
    BY <1>c, <2>1, <2>2, <2>3 DEF RequestTypes, claimVars
  <2>5. RowFits(r)'
    BY <1>c, <2>2, <2>3, <2>4 DEF RowFits, claimVars, Answers
  <2> QED
    BY <1>u, <2>2, <2>3, <2>4, <2>5
<1>2. CASE ClaimLate(r)
  <2>1. r \in late /\ late' = late \ {r} /\ UNCHANGED <<workerVars, callVars, claimVars, asked, stored>>
    BY <1>2 DEF ClaimLate
  <2>2. CASE UNCHANGED serverVars
    <3>1. RequestTypes' /\ RowFits(r)'
      BY <1>c, <2>1, <2>2 DEF RequestTypes, RowFits, serverVars, claimVars
    <3> QED
      BY <1>u, <2>1, <2>2, <3>1 DEF serverVars
  <2>3. ASSUME NEW answer \in Answers, Claim(r, answer) PROVE ClaimInv'
    <3>1. /\ \A q \in Request \ {r} : ledger'[q] = ledger[q] /\ opened'[q] = opened[q]
          /\ ledger' \in [Request -> {"none", "empty", "open", "ended"}]
          /\ opened' \in [Request -> Nat]
          /\ \/ /\ ledger' = ledger /\ opened' = opened
             \/ ledger[r] = "none" /\ ledger'[r] = "empty" /\ opened' = opened
             \/ ledger[r] = "none" /\ ledger'[r] = "open" /\ opened'[r] = opened[r] + 1
      BY <1>c, <2>3, ClaimMeans
    <3>2. RequestTypes'
      BY <1>c, <2>1, <3>1 DEF RequestTypes, claimVars
    <3>3. RowFits(r)'
      BY <1>c, <2>1, <3>1 DEF RowFits, claimVars
    <3> QED
      BY <1>u, <2>1, <3>1, <3>2, <3>3
  <2> QED
    BY <1>2, <2>2, <2>3 DEF ClaimLate
<1>3. CASE SweepExpired(r)
  <2>1. /\ UNCHANGED <<workerVars, callVars, claimVars, netVars, opened, stored>>
        /\ \/ ledger[r] = "open" /\ ledger' = [ledger EXCEPT ![r] = "ended"]
           \/ /\ ledger[r] = "empty" /\ asked[r] = "none" /\ r \notin late
              /\ ledger' = [ledger EXCEPT ![r] = "none"]
    BY <1>3 DEF SweepExpired
  <2>2. RequestTypes' /\ \A q \in Request \ {r} : ledger'[q] = ledger[q]
    BY <1>c, <2>1 DEF RequestTypes, netVars, claimVars
  <2>3. RowFits(r)'
    BY <1>c, <2>1 DEF RequestTypes, RowFits, netVars, claimVars
  <2> QED
    BY <1>u, <2>1, <2>2, <2>3 DEF netVars
<1> QED
  BY <1>1, <1>2, <1>3

LEMMA ClaimKept == ASSUME ClaimInv, [Next]_vars PROVE ClaimInv'
<1>1. CASE UNCHANGED vars
  <2>1. Counts'
    BY <1>1 DEF vars, ClaimInv, Counts, callVars, claimVars, Slots, HandedOff
  <2>2. WorkerTypes' /\ RequestTypes'
    BY <1>1 DEF vars, ClaimInv, WorkerTypes, RequestTypes, workerVars, callVars, claimVars,
       netVars, serverVars
  <2>3. \A r \in Request : RowFits(r)'
    BY <1>1 DEF vars, ClaimInv, RowFits, claimVars, netVars, serverVars
  <2>4. CallFits' /\ PendingFits'
    BY <1>1 DEF vars, ClaimInv, CallFits, PendingFits, workerVars, callVars, claimVars
  <2> QED
    BY <2>1, <2>2, <2>3, <2>4 DEF ClaimInv
<1>2. CASE Next
  BY <1>2, ReserveKept, AskingKept, HandingKept, EndHandoffKept, HealthKept, CallKept,
     AnswersKept, RowsKept DEF Next
<1> QED
  BY <1>1, <1>2

\* However often a claim is sent and whenever its copies arrive, the server reserves at
\* most one attempt for it; a worker that believes itself registered is, with its present
\* health; and no claim is pending that its health has overtaken (Claim, setHealth,
\* completeRegistrationLocked), for any number of requests, slots and changes of health.
THEOREM ClaimsAlwaysSafe == Spec => []ClaimsSafe
<1>1. ClaimInv => ClaimsSafe
  <2> SUFFICES ASSUME ClaimInv PROVE ClaimsSafe
    OBVIOUS
  <2>1. TypeOK
    BY DEF ClaimInv, Counts, WorkerTypes, RequestTypes, TypeOK, StepNames, CallType, HandedOff,
       Handing
  <2>2. OneAttemptPerRequest
    BY DEF ClaimInv, RequestTypes, RowFits, OneAttemptPerRequest
  <2>3. TrustedRegistration
    BY DEF ClaimInv, CallFits, PendingFits, TrustedRegistration
  <2> QED
    BY <2>1, <2>2, <2>3 DEF ClaimsSafe
<1> QED
  BY ClaimInit, ClaimKept, <1>1, PTL DEF Spec
=============================================================================
