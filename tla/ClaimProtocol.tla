--------------------------- MODULE ClaimProtocol ---------------------------
(***************************************************************************)
(* How one worker asks for Work.  A goroutine reserves a slot, draws a     *)
(* request id and sends the same claim until it is answered; the server    *)
(* keeps an answer per request id.  Health probes, registrations and       *)
(* heartbeats run beside it and may withdraw the claim at any moment.      *)
(***************************************************************************)
EXTENDS Integers, FiniteSets

CONSTANTS
  MaxRequests,    \* bound on the requests the worker makes
  Nobody,         \* no goroutine
  Loop,           \* the goroutine of Manager.Run
  MaxConcurrent,  \* slots of the worker
  MaxGeneration   \* bound on changes of the health a registration reports

\* Request ids are random; they are numbered in the order they are drawn.
Request == 1 .. MaxRequests

ASSUME ClaimConstants ==
  /\ MaxRequests \in Nat \ {0}
  /\ Nobody # Loop /\ {Nobody, Loop} \cap Request = {}
  /\ MaxConcurrent \in Nat \ {0} /\ MaxGeneration \in Nat \ {0}

VARIABLES
  health,      \* manager.health.State
  fatal,       \* manager.fatalHealth is set
  probing,     \* manager.healthCheckPending
  generation,  \* manager.registrationGeneration
  registered,  \* manager.registered
  advertised,  \* manager.advertisedGeneration, Never without one
  due,         \* the Run loop is inside register
  calling,     \* the call made under registrationMutex
  handoffs,    \* manager.capacityHandoffs
  claiming,    \* the goroutine for which manager.claiming is set
  pending,     \* the keys of manager.pending
  step,        \* where the goroutine of a request is
  asked,       \* the HTTP call of a request: none, sent, or its answer
  late,        \* requests with a copy the worker no longer waits for
  ledger,      \* the claim_requests row and the state of its Attempt
  opened,      \* Attempts ever created for a request
  stored       \* the generation of the registration the server holds

workerVars == <<health, fatal, probing, generation, registered, advertised>>
callVars == <<due, calling, handoffs>>
netVars == <<asked, late>>
serverVars == <<ledger, opened>>
claimVars == <<claiming, pending, step>>
vars == <<workerVars, callVars, claimVars, netVars, serverVars, stored>>

Never == -1
Generations == 0 .. MaxGeneration
Answers == {"empty", "claim", "refused"}
NoCall == [owner |-> Nobody, kind |-> "none", of |-> 0, applied |-> FALSE]

\* Steps in which the goroutine holds one of the slots.
Working == {"reserved", "asking", "answered", "rejected", "running", "disposing", "disposed", "registering"}
Slots == {r \in Request : step[r] \in Working}

TypeOK ==
  /\ health \in {"healthy", "unhealthy"} /\ fatal \in BOOLEAN /\ probing \in BOOLEAN
  /\ fatal => health = "unhealthy"
  /\ generation \in Generations /\ registered \in BOOLEAN
  /\ advertised \in Generations \union {Never} /\ stored \in Generations \union {Never}
  /\ due \in BOOLEAN /\ handoffs \in 0 .. MaxConcurrent
  /\ handoffs = Cardinality({r \in Request : step[r] \in {"disposing", "disposed"}})
  /\ calling \in [owner : Request \union {Nobody, Loop}, kind : {"none", "register", "heartbeat"},
                  of : Generations, applied : BOOLEAN]
  /\ claiming \in Request \union {Nobody} /\ pending \subseteq Request
  /\ claiming # Nobody => claiming \in Slots
  /\ Cardinality(Slots) <= MaxConcurrent
  /\ step \in [Request -> Working \union {"unused", "turnedAway", "empty", "refused", "abandoned", "ended"}]
  /\ asked \in [Request -> Answers \union {"none", "sent"}] /\ late \subseteq Request
  /\ ledger \in [Request -> {"none", "empty", "open", "ended"}] /\ opened \in [Request -> Nat]

\* New, reconcile and the first setHealth are over; Run is about to register.
Init ==
  /\ health \in {"healthy", "unhealthy"}
  /\ generation = IF health = "healthy" THEN 1 ELSE 0
  /\ fatal = FALSE /\ probing = FALSE /\ registered = FALSE
  /\ advertised = Never /\ stored = Never
  /\ due = TRUE /\ calling = NoCall /\ handoffs = 0
  /\ claiming = Nobody /\ pending = {}
  /\ step = [r \in Request |-> "unused"] /\ asked = [r \in Request |-> "none"] /\ late = {}
  /\ ledger = [r \in Request |-> "none"] /\ opened = [r \in Request |-> 0]

-----------------------------------------------------------------------------
(* The claim goroutine.                                                     *)

Eligible == health = "healthy" /\ registered /\ ~probing

\* The poll timer, or a goroutine that got or ended an Attempt.
ReserveAndClaim(r) ==
  /\ claiming = Nobody /\ Eligible /\ Cardinality(Slots) < MaxConcurrent
  /\ step[r] = "unused" /\ \A q \in 1 .. r - 1 : step[q] # "unused"
  /\ claiming' = r /\ step' = [step EXCEPT ![r] = "reserved"]
  /\ UNCHANGED <<workerVars, callVars, pending, netVars, serverVars, stored>>

\* The deferred release of the slot and of the claim reservation.  Mutants: only
\* an answered claim gives the reservation back; a slot without its reservation.
ReleaseAnswered(r) == claiming' = IF claiming = r /\ asked[r] \in Answers THEN Nobody ELSE claiming
Release(r) == claiming' = IF claiming = r THEN Nobody ELSE claiming

LeaveReserved(r, how) == step' = [step EXCEPT ![r] = how] /\ UNCHANGED claiming
Leave(r, how) == step' = [step EXCEPT ![r] = how] /\ Release(r)

BeginClaim(r) ==
  /\ step[r] = "reserved"
  /\ \/ /\ Eligible
        /\ pending' = pending \union {r} /\ asked' = [asked EXCEPT ![r] = "sent"]
        /\ step' = [step EXCEPT ![r] = "asking"] /\ UNCHANGED claiming
     \/ /\ ~Eligible
        /\ Leave(r, "turnedAway") /\ UNCHANGED <<pending, asked>>
  /\ UNCHANGED <<workerVars, callVars, late, serverVars, stored>>

\* The transport fails or times out; the copy may still reach the server.
Timeout(r) ==
  /\ step[r] = "asking" /\ asked[r] # "none"
  /\ asked' = [asked EXCEPT ![r] = "none"]
  /\ late' \in {late} \union (IF asked[r] = "sent" THEN {late \union {r}} ELSE {})
  /\ UNCHANGED <<workerVars, callVars, claimVars, serverVars, stored>>

\* client.retry sends the same request id and lease token again.
Retry(r) ==
  /\ step[r] = "asking" /\ asked[r] = "none" /\ r \in pending
  /\ asked' = [asked EXCEPT ![r] = "sent"]
  /\ UNCHANGED <<workerVars, callVars, claimVars, late, serverVars, stored>>

Receive(r) ==
  /\ step[r] = "asking" /\ asked[r] \in Answers
  /\ step' = [step EXCEPT ![r] = "answered"]
  /\ UNCHANGED <<workerVars, callVars, claiming, pending, netVars, serverVars, stored>>

\* The claim was withdrawn: its context is cancelled and the call returns.
Abandon(r) ==
  /\ step[r] = "asking" /\ r \notin pending
  /\ asked' = [asked EXCEPT ![r] = "none"]
  /\ late' \in {late} \union (IF asked[r] = "sent" THEN {late \union {r}} ELSE {})
  /\ Leave(r, "abandoned")
  /\ UNCHANGED <<workerVars, callVars, pending, serverVars, stored>>

\* endClaim waits for a running probe unless the claim was withdrawn.
EndClaim(r) ==
  /\ step[r] = "answered" /\ (r \notin pending \/ ~probing)
  /\ pending' = pending \ {r} /\ asked' = [asked EXCEPT ![r] = "none"]
  /\ IF asked[r] # "claim" THEN Leave(r, asked[r])
     ELSE IF r \in pending /\ health = "healthy" THEN Leave(r, "running")
     ELSE step' = [step EXCEPT ![r] = "rejected"] /\ UNCHANGED claiming
  /\ UNCHANGED <<workerVars, callVars, late, serverVars, stored>>

\* finishWithoutWorktree, or the end of a run: beginCapacityHandoff.
BeginHandoff(r) ==
  /\ step[r] \in {"rejected", "running"} /\ calling = NoCall
  /\ handoffs' = handoffs + 1 /\ step' = [step EXCEPT ![r] = "disposing"]
  /\ UNCHANGED <<workerVars, due, calling, claiming, pending, netVars, serverVars, stored>>

\* complete retries until it is acknowledged or the lease is over.
Complete(r) ==
  /\ step[r] = "disposing"
  /\ step' = [step EXCEPT ![r] = "disposed"] /\ ledger' = [ledger EXCEPT ![r] = "ended"]
  /\ UNCHANGED <<workerVars, callVars, claiming, pending, netVars, opened, stored>>

\* finishCapacityHandoff: the last handoff registers.
EndHandoff(r) ==
  /\ step[r] = "disposed" /\ calling = NoCall
  /\ handoffs' = handoffs - 1
  /\ IF handoffs = 1
     THEN /\ calling' = [owner |-> r, kind |-> "register", of |-> generation, applied |-> FALSE]
          /\ step' = [step EXCEPT ![r] = "registering"] /\ UNCHANGED claiming
     ELSE Leave(r, "ended") /\ UNCHANGED calling
  /\ UNCHANGED <<workerVars, due, pending, netVars, serverVars, stored>>

-----------------------------------------------------------------------------
(* Health.                                                                  *)

BeginHealthCheck ==
  /\ ~probing /\ probing' = TRUE
  /\ UNCHANGED <<health, fatal, generation, registered, advertised, callVars, claimVars, netVars, serverVars, stored>>

\* The probe finds state "next"; "other" says that capabilities changed.
SetHealth(next, other) ==
  /\ probing /\ ~due
  /\ LET now == IF fatal THEN "unhealthy" ELSE next
         changed == now # health \/ other IN
     /\ changed => generation < MaxGeneration
     /\ health' = now
     /\ generation' = IF changed THEN generation + 1 ELSE generation
     /\ registered' = (registered /\ ~changed)
     /\ due' = changed
     /\ pending' = IF now = "healthy" THEN pending ELSE {}
  /\ probing' = FALSE
  /\ UNCHANGED <<fatal, advertised, calling, handoffs, claiming, step, netVars, serverVars, stored>>

\* markUnhealthy, from any goroutine that cannot trust its files.  Mutant: claims
\* under way are not withdrawn.
DistrustQuietly ==
  /\ fatal' = TRUE /\ health' = "unhealthy" /\ generation' = generation + 1
  /\ registered' = FALSE /\ UNCHANGED pending
Distrust ==
  /\ fatal' = TRUE /\ health' = "unhealthy" /\ generation' = generation + 1
  /\ registered' = FALSE /\ pending' = {}

MarkUnhealthy ==
  /\ generation < MaxGeneration /\ ~fatal /\ Slots # {} /\ Distrust
  /\ UNCHANGED <<probing, advertised, callVars, claiming, step, netVars, serverVars, stored>>

-----------------------------------------------------------------------------
(* Registration.                                                            *)

RegistrationTick ==
  /\ ~due /\ due' = TRUE
  /\ UNCHANGED <<workerVars, calling, handoffs, claimVars, netVars, serverVars, stored>>

\* register: while capacity is handed off it only renews the heartbeat.
Register ==
  /\ due /\ calling = NoCall
  /\ IF handoffs = 0 \/ advertised = generation
     THEN /\ calling' = [owner |-> Loop, of |-> generation, applied |-> FALSE,
                         kind |-> IF handoffs = 0 THEN "register" ELSE "heartbeat"]
          /\ UNCHANGED due
     ELSE due' = FALSE /\ UNCHANGED calling
  /\ UNCHANGED <<workerVars, handoffs, claimVars, netVars, serverVars, stored>>

\* RegisterWorker on the server; a heartbeat changes no registration.
RegisterWorker ==
  /\ calling # NoCall /\ ~calling.applied
  /\ calling' = [calling EXCEPT !.applied = TRUE]
  /\ stored' = IF calling.kind = "register" THEN calling.of ELSE stored
  /\ UNCHANGED <<workerVars, due, handoffs, claimVars, netVars, serverVars>>

\* The call returns to its goroutine, which leaves registrationMutex.
EndCall ==
  /\ calling' = NoCall
  /\ due' = (due /\ calling.owner # Loop)
  /\ IF calling.owner = Loop THEN UNCHANGED <<step, claiming>> ELSE Leave(calling.owner, "ended")

\* completeRegistrationLocked.  Mutant: the generation is not compared.
CompletedAnyway(of) == registered' = TRUE /\ advertised' = of /\ UNCHANGED pending
Completed(of) ==
  /\ registered' = (of = generation)
  /\ advertised' = IF of = generation THEN of ELSE advertised
  /\ pending' = IF of = generation THEN pending ELSE {}

RegistrationAnswered ==
  /\ calling.applied /\ calling.kind = "register"
  /\ Completed(calling.of) /\ EndCall
  /\ UNCHANGED <<health, fatal, probing, generation, handoffs, netVars, serverVars, stored>>

HeartbeatAnswered ==
  /\ calling.applied /\ calling.kind = "heartbeat"
  /\ registered' = (registered \/ (calling.of = generation /\ advertised = generation))
  /\ EndCall
  /\ UNCHANGED <<health, fatal, probing, generation, advertised, handoffs, pending, netVars, serverVars, stored>>

\* No answer within requestTimeout.
CallLost ==
  /\ calling # NoCall
  /\ registered' = FALSE /\ pending' = {} /\ EndCall
  /\ UNCHANGED <<health, fatal, probing, generation, advertised, handoffs, netVars, serverVars, stored>>

\* The server refuses the configuration, or the journal cannot be cleared.
RegistrationRefused ==
  /\ calling.kind = "register" /\ generation < MaxGeneration
  /\ Distrust /\ EndCall
  /\ UNCHANGED <<probing, advertised, handoffs, netVars, serverVars, stored>>

-----------------------------------------------------------------------------
(* The server.                                                              *)

\* Claim: a known request is answered from its row; otherwise the queue, the
\* pause and the capacity decide.  Mutant: only ended Attempts
\* are looked up.
ClaimAnew(r, answer) ==
  CASE ledger[r] = "ended" -> answer = "refused" /\ UNCHANGED serverVars
    [] ledger[r] = "empty" -> answer = "empty" /\ UNCHANGED serverVars
    [] OTHER -> /\ answer = "claim"
                /\ ledger' = [ledger EXCEPT ![r] = "open"] /\ opened' = [opened EXCEPT ![r] = @ + 1]
Claim(r, answer) ==
  CASE ledger[r] = "open" -> answer = "claim" /\ UNCHANGED serverVars
    [] ledger[r] = "ended" -> answer = "refused" /\ UNCHANGED serverVars
    [] ledger[r] = "empty" -> answer = "empty" /\ UNCHANGED serverVars
    [] OTHER ->
         \/ /\ answer = "empty"
            /\ ledger' = [ledger EXCEPT ![r] = "empty"] /\ UNCHANGED opened
         \/ /\ answer = "claim"
            /\ ledger' = [ledger EXCEPT ![r] = "open"] /\ opened' = [opened EXCEPT ![r] = @ + 1]

ClaimAnswered(r) ==
  /\ asked[r] = "sent"
  /\ \E answer \in Answers : Claim(r, answer) /\ asked' = [asked EXCEPT ![r] = answer]
  /\ UNCHANGED <<workerVars, callVars, claimVars, late, stored>>

\* A copy nobody waits for arrives, or is lost.
ClaimLate(r) ==
  /\ r \in late /\ late' = late \ {r}
  /\ \/ \E answer \in Answers : Claim(r, answer)
     \/ UNCHANGED serverVars
  /\ UNCHANGED <<workerVars, callVars, claimVars, asked, stored>>

\* The lease of an Attempt ends; an empty row is forgotten EmptyClaimTTL after
\* it was written, long after requestTimeout ended every copy of its request.
SweepExpired(r) ==
  /\ \/ ledger[r] = "open" /\ ledger' = [ledger EXCEPT ![r] = "ended"]
     \/ /\ ledger[r] = "empty" /\ asked[r] = "none" /\ r \notin late
        /\ ledger' = [ledger EXCEPT ![r] = "none"]
  /\ UNCHANGED <<workerVars, callVars, claimVars, netVars, opened, stored>>

Next ==
  \/ \E r \in Request :
       \/ ReserveAndClaim(r) \/ BeginClaim(r) \/ Timeout(r) \/ Retry(r) \/ Receive(r) \/ Abandon(r)
       \/ EndClaim(r) \/ BeginHandoff(r) \/ Complete(r) \/ EndHandoff(r)
       \/ ClaimAnswered(r) \/ ClaimLate(r) \/ SweepExpired(r)
  \/ BeginHealthCheck \/ MarkUnhealthy \/ RegistrationTick \/ Register \/ RegisterWorker
  \/ \E next \in {"healthy", "unhealthy"}, other \in BOOLEAN : SetHealth(next, other)
  \/ RegistrationAnswered \/ HeartbeatAnswered \/ CallLost \/ RegistrationRefused

Spec == Init /\ [][Next]_vars

\* A probe that ends is taken by the Run loop.
ProbeEnds == \E next \in {"healthy", "unhealthy"}, other \in BOOLEAN : SetHealth(next, other)
\* The goroutine goes on, and retries while nobody withdraws its claim.
Proceed == \E r \in Request : BeginClaim(r) \/ Retry(r) \/ Abandon(r) \/ Complete(r)
\* It is woken by the end of a probe, and gets registrationMutex.
Wake == \E r \in Request : EndClaim(r) \/ BeginHandoff(r) \/ EndHandoff(r)
\* The server answers, and not every answer is lost.
Answered == \E r \in Request : ClaimAnswered(r)
Received == \E r \in Request : Receive(r)

FairSpec ==
  /\ Spec /\ WF_vars(Proceed) /\ SF_vars(Wake) /\ SF_vars(Answered) /\ SF_vars(Received)
  /\ SF_vars(ProbeEnds) /\ WF_vars(Register) /\ WF_vars(CallLost)

-----------------------------------------------------------------------------
\* However often a claim is sent, and whenever its copies arrive, the server
\* reserves at most one Attempt for it, and none after it told the worker there
\* is none, since nobody would execute it: the empty row outlives every copy
\* (Claim, insertEmptyClaim).
OneAttemptPerRequest ==
  \A r \in Request : opened[r] <= 1 /\ (step[r] = "empty" => opened[r] = 0)

\* A worker that believes itself registered has told the server its present
\* health, whatever probe ended while a registration was under way.  While a
\* claim is pending the worker is healthy, and registered or about to be: a
\* registration is due, under way or waits for the last capacity handoff
\* (setHealth, completeRegistrationLocked).
TrustedRegistration ==
  /\ registered => stored = generation /\ advertised = generation
  /\ pending # {} => /\ health = "healthy"
                     /\ registered \/ due \/ handoffs > 0 \/ calling.kind = "register"

\* What the claims and registrations of one worker may not confuse (Claim, Register).
ClaimsSafe == TypeOK /\ OneAttemptPerRequest /\ TrustedRegistration

\* The next claim waits for this one; every claim ends, answered or withdrawn.
ClaimsEnd == \A r \in Request : []<>(claiming # r)
=============================================================================
