--------------------------- MODULE AttemptSupervision ---------------------------
(***************************************************************************)
(* One attempt on its worker: the goroutine that drives the stages, the    *)
(* heartbeats beside it, the supervisor process of an agent stage with its *)
(* control pipe and timers, the agent it supervises, and what the control  *)
(* plane stores.  Calls are refused, answered or lost; the worker may die. *)
(*                                                                         *)
(* Time is counted in ticks, Grace of them to the termination grace.       *)
(* Timers and local steps are prompt: time passes while somebody waits for *)
(* a call, a process or a timer.  The Run has the agent-update contract.   *)
(* Abstracted: output, cost and prompts; delivery stages                   *)
(* (PipelineDelivery); a failed write of a manifest; processes that leave  *)
(* the process group, except that a stop may fail to be verified.          *)
(***************************************************************************)
EXTENDS Naturals, Sequences

CONSTANTS
  Last,         \* stages are numbered 1..Last
  Lease,        \* protocol.LeaseDuration
  Grace,        \* terminationGrace
  OutcomeGrace, \* what an agent is left after its report
  Timeout       \* the Session's timeout

ASSUME SupervisionConstants ==
  /\ Last \in Nat \ {0} /\ Lease \in Nat /\ Timeout \in Nat
  /\ Grace \in 1..(Lease - 1) /\ OutcomeGrace \in Nat

VARIABLES
  server,   \* attempts.state
  lease,    \* what is left of attempts.lease_expires_at
  cancel,   \* executions.cancellation_requested
  outcome,  \* the attempt has an ending row of work_updates
  stage,    \* session_stages.state
  kind,     \* session_stages.kind
  reason, attached, told,  \* attemptHandle.reason, .supervisor, .outcome
  expiry,   \* what is left of attemptHandle.expiry
  deadline, \* what is left of attemptHandle.deadline
  beat,     \* where heartbeatAttempt stands, or the answer under way to it
  heard,    \* what is left of the lease that answer tells
  step, at, \* where runAttempt stands, and the stage it drives
  fate,     \* the state it is about to report, manifest.TerminalState
  completion, \* what became of the completing call
  phase,    \* of the supervisor process
  pipe,     \* commands under way to it
  fuse,     \* its lease timer
  grace,    \* what its process group is left
  why, clean, \* Reason and ~StopUnverified of its exit message
  runtime, exit, \* the agent or command, and how it ended by itself
  began,    \* history: what was left of the lease when the agent was started
  call      \* where handleAgentUpdate stands

serverVars == <<server, lease, cancel, outcome, stage, kind>>
handleVars == <<reason, attached, told, expiry, deadline>>
beatVars == <<beat, heard>>
mainVars == <<step, at, fate, completion>>
processVars == <<phase, pipe, fuse, grace, why, clean>>
agentVars == <<runtime, exit, began, call>>
vars == <<serverVars, handleVars, beatVars, mainVars, processVars, agentVars>>

Stage == 1..Last

Init ==
  /\ server = "preparing" /\ lease = Lease /\ cancel = FALSE /\ outcome = FALSE
  /\ stage = [s \in Stage |-> "pending"] /\ kind \in [Stage -> {"agent", "code"}]
  /\ reason = "none" /\ attached = FALSE /\ told = FALSE
  /\ expiry = Lease /\ deadline = Timeout
  /\ beat = "waiting" /\ heard = 0
  /\ step = "next" /\ at = 1 /\ fate = "none" /\ completion = "none"
  /\ phase = "none" /\ pipe = <<>> /\ fuse = 0 /\ grace = 0 /\ why = "none" /\ clean = TRUE
  /\ runtime = "none" /\ exit = "none" /\ began = 0 /\ call = "none"

Held == server \in {"preparing", "running"} /\ lease > 0
Listening == phase \in {"ready", "running"}
Go(from, to) == step = from /\ step' = to
Command(c, a) == [name |-> c, arg |-> a]
\* What is sent to a supervisor that no longer reads has no effect.
Send(sent, c) == IF attached /\ Listening THEN Append(sent, c) ELSE sent

\* attemptHandle.stop: the first reason stays.
StopWith(r) ==
  /\ reason' = IF reason = "none" THEN r ELSE reason
  /\ pipe' = IF reason = "none" THEN Send(pipe, Command("stop", r)) ELSE pipe
NoStop == UNCHANGED <<reason, pipe>>

\* The handle and the goroutines beside it go with runAttempt or the process.
Freed == /\ reason' = "none" /\ told' = FALSE /\ attached' = FALSE /\ expiry' = 0
         /\ beat' = "done" /\ heard' = 0 /\ call' = "none"
Kept == UNCHANGED <<told, attached, expiry, beatVars, call>>
-----------------------------------------------------------------------------
(* Heartbeats and the session timer *)

Renewal(left) == IF left = 0 THEN Command("stop", "lease_lost") ELSE Command("renew", left)

\* A tick passes between an answer and the next heartbeat.
HeartbeatAttempt ==
  /\ beat = "waiting" /\ pipe = <<>> /\ step \notin {"done", "dead"}
  /\ \/ /\ Held /\ lease' = Lease
        /\ \/ beat' = (IF cancel THEN "cancelled" ELSE "renewed") /\ heard' = Lease
           \/ beat' = "lost" /\ UNCHANGED heard
     \/ /\ ~Held /\ beat' = "refused" /\ UNCHANGED <<lease, heard>>
     \/ beat' = "lost" /\ UNCHANGED <<lease, heard>>
  /\ UNCHANGED <<server, cancel, outcome, stage, kind, handleVars, mainVars,
                 processVars, agentVars>>

HeartbeatAnswered ==
  /\ beat \in {"renewed", "cancelled"}
  /\ expiry' = heard
  /\ LET renewed == Send(pipe, Renewal(heard)) IN
       IF beat = "cancelled"
       THEN /\ beat' = "done"
            /\ reason' = IF reason = "none" THEN "cancelled" ELSE reason
            /\ pipe' = IF reason = "none" THEN Send(renewed, Command("stop", "cancelled"))
                       ELSE renewed
       ELSE beat' = "resting" /\ pipe' = renewed /\ UNCHANGED reason
  /\ heard' = 0
  /\ UNCHANGED <<serverVars, attached, told, deadline, mainVars, phase, fuse, grace, why,
                 clean, agentVars>>

HeartbeatFailed ==
  /\ beat \in {"refused", "lost"}
  /\ IF beat = "refused" \/ expiry = 0
     THEN beat' = "done" /\ StopWith("lease_lost")
     ELSE beat' = "waiting" /\ NoStop
  /\ heard' = 0
  /\ UNCHANGED <<serverVars, attached, told, expiry, deadline, mainVars, phase, fuse,
                 grace, why, clean, agentVars>>

SessionTimer ==
  /\ deadline = 0 /\ reason = "none" /\ step \notin {"done", "dead"}
  /\ StopWith("timeout")
  /\ UNCHANGED <<serverVars, attached, told, expiry, deadline, beatVars, mainVars, phase,
                 fuse, grace, why, clean, agentVars>>

\* stopAll, when the worker shuts down.
Shutdown ==
  /\ reason = "none" /\ step \notin {"done", "dead"}
  /\ StopWith("cancelled")
  /\ UNCHANGED <<serverVars, attached, told, expiry, deadline, beatVars, mainVars, phase,
                 fuse, grace, why, clean, agentVars>>
-----------------------------------------------------------------------------
(* runAttempt: one step between any two calls *)

First == at = 1
Live == reason = "none"

\* Before a stage: has the attempt been stopped, or its time run out?
NextStage ==
  /\ step = "next"
  /\ IF Live /\ deadline > 0
     THEN /\ step' = IF kind[at] = "agent" THEN "launch" ELSE IF First THEN "start" ELSE "stage"
          /\ UNCHANGED <<fate, reason>>
     ELSE /\ step' = "finish"
          /\ fate' = IF reason = "cancelled" THEN "cancelled" ELSE "failed"
          /\ reason' = IF Live THEN "timeout" ELSE reason
  /\ UNCHANGED <<serverVars, attached, told, expiry, deadline, beatVars, at, completion,
                 processVars, agentVars>>

\* startSupervisor and awaitReady.
Launch ==
  /\ step = "launch"
  /\ \/ /\ step' = "attach" /\ phase' = "ready" /\ fuse' = Lease - Grace
        /\ why' = "none" /\ clean' = TRUE
        /\ UNCHANGED fate
     \/ /\ step' = "finish" /\ UNCHANGED <<phase, fuse, why, clean>>
        /\ fate' = IF reason = "cancelled" THEN "cancelled" ELSE "failed"
  /\ runtime' = "none" /\ exit' = "none" /\ attached' = FALSE
  /\ UNCHANGED <<serverVars, reason, told, expiry, deadline, beatVars, at, completion,
                 pipe, grace, began, call>>

\* setSupervisor: the first command.  Mutant: it does not ask for a reason.
GreetingBlind == Renewal(expiry)
Greeting == IF Live THEN Renewal(expiry) ELSE Command("stop", reason)

Attach ==
  /\ Go("attach", IF First THEN "start" ELSE "stage")
  /\ attached' = TRUE
  /\ pipe' = IF Listening THEN Append(pipe, Greeting) ELSE pipe
  /\ UNCHANGED <<serverVars, reason, told, expiry, deadline, beatVars, at, fate, completion,
                 phase, fuse, grace, why, clean, agentVars>>

\* After a call that failed: an agent's supervisor is awaited, a command has
\* nothing to await.
AfterStop == IF kind[at] = "agent" THEN "reap" ELSE "finish"
CallFailed(r) ==
  /\ StopWith(r) /\ step' = AfterStop
  /\ fate' = IF reason' = "cancelled" THEN "cancelled" ELSE "failed"

\* client.start, once before the first stage and once more when its agent runs.
Accepted == Held /\ server' = "running"
StartAttempt ==
  /\ step \in {"start", "started"}
  /\ \/ /\ Accepted /\ Live
        /\ step' = IF step = "start" THEN "stage" ELSE "wait"
        /\ NoStop /\ UNCHANGED fate
     \/ Accepted /\ CallFailed("failed")
     \/ UNCHANGED server /\ CallFailed(IF Held \/ step = "started" THEN "failed" ELSE "lease_lost")
     \/ UNCHANGED server /\ CallFailed("failed")
  /\ UNCHANGED <<lease, cancel, outcome, stage, kind, attached, told, expiry, deadline,
                 beatVars, at, completion, phase, fuse, grace, why, clean, agentVars>>

\* client.startStage
StageStart == Held /\ server = "running" /\ ~cancel
Refusal == IF ~Held THEN "lease_lost" ELSE IF cancel THEN "cancelled" ELSE "failed"
StartStage ==
  /\ step = "stage"
  /\ \/ /\ StageStart /\ stage' = [stage EXCEPT ![at] = "running"]
        /\ \/ /\ Live /\ step' = IF kind[at] = "agent" THEN "send" ELSE "command"
              /\ NoStop /\ UNCHANGED fate
           \/ CallFailed("failed")
     \/ ~StageStart /\ CallFailed(Refusal) /\ UNCHANGED stage
     \/ CallFailed("failed") /\ UNCHANGED stage
  /\ runtime' = IF step' = "command" THEN "alive" ELSE runtime
  /\ exit' = IF step' = "command" THEN "none" ELSE exit
  /\ UNCHANGED <<server, lease, cancel, outcome, kind, attached, told, expiry, deadline,
                 beatVars, at, completion, phase, fuse, grace, why, clean, began, call>>

\* process.send("start").  If nobody reads any more, emergencyStop verifies the
\* identity of the process group, which the supervisor may have removed itself.
SendStart ==
  /\ step = "send"
  /\ \/ /\ phase # "gone" /\ step' = "await" /\ pipe' = Send(pipe, Command("start", 0))
        /\ UNCHANGED <<fate, clean>>
     \/ /\ phase = "gone" /\ step' = "finish" /\ fate' = "failed"
        /\ clean' = (why = "crashed") /\ UNCHANGED pipe
  /\ UNCHANGED <<serverVars, handleVars, beatVars, at, completion, phase, fuse, grace, why,
                 agentVars>>

\* waitForSupervisorMessage: an exit that was not verified, or no exit message
\* at all, is followed by emergencyStop, which may fail.  The end of the output of a
\* supervisor that crashed is told once.
ReadExit ==
  /\ phase = "gone" /\ why # "unheard" /\ why' = why
  /\ \/ clean /\ UNCHANGED <<clean, runtime>>
     \/ ~clean /\ clean' = TRUE /\ runtime' = IF runtime = "alive" THEN "dead" ELSE runtime
     \/ ~clean /\ UNCHANGED <<clean, runtime>>
TerminalState ==
  IF why = "cancelled" THEN "cancelled"
  ELSE IF why = "outcome_reported" \/ (why = "exited" /\ exit = "ok" /\ clean)
       THEN "succeeded" ELSE "failed"

\* A message that is still buffered when that end is read is returned in its place,
\* and nothing else tells of the end: the next wait has nobody left to hear.
Unheard == phase = "gone" /\ why = "crashed" /\ runtime # "none" /\ why' = "unheard"

\* awaitRuntimeStarted; a supervisor may crash before it says that the agent runs.
AwaitStarted ==
  /\ step = "await"
  /\ \/ /\ runtime # "none" /\ step' = IF First THEN "started" ELSE "wait"
        /\ why' = why \/ Unheard
        /\ UNCHANGED <<fate, clean, runtime>>
     \/ /\ runtime = "none" \/ why = "crashed"
        /\ ReadExit
        /\ step' = "finish" /\ fate' = "failed"
  /\ UNCHANGED <<serverVars, handleVars, beatVars, at, completion, phase, pipe, fuse, grace,
                 exit, began, call>>

\* waitForSupervisor, waitForSupervisorWithEvents, which go on after an output.
AwaitExit ==
  /\ step \in {"wait", "reap"}
  /\ \/ /\ ReadExit /\ fate' = TerminalState
        /\ step' = IF step = "wait" THEN "report" ELSE "finish"
     \/ Unheard /\ UNCHANGED <<step, fate, clean, runtime>>
  /\ UNCHANGED <<serverVars, handleVars, beatVars, at, completion, phase, pipe, fuse, grace,
                 exit, began, call>>

\* runCodeStage: the command ends, or the context of the attempt ends it.
CommandEnds ==
  /\ Go("command", "report") /\ (runtime = "dead" \/ ~Live)
  /\ runtime' = "dead"
  /\ fate' \in IF runtime = "alive" THEN {"cancelled", IF deadline = 0 THEN "failed" ELSE "cancelled"}
               ELSE {IF exit = "ok" THEN "succeeded" ELSE "failed"}
  /\ UNCHANGED <<serverVars, handleVars, beatVars, at, completion, processVars, exit, began, call>>

\* client.completeStage
CompleteStage ==
  /\ step = "report"
  /\ \/ /\ Held /\ stage[at] = "running" /\ stage' = [stage EXCEPT ![at] = fate]
        /\ \/ /\ Live /\ NoStop /\ UNCHANGED fate
              /\ IF fate = "succeeded" /\ at < Last
                 THEN step' = "next" /\ at' = at + 1
                 ELSE step' = "finish" /\ UNCHANGED at
           \/ /\ step' = "finish" /\ NoStop /\ UNCHANGED at
              /\ fate' = IF fate = "succeeded" THEN "failed" ELSE fate
     \/ /\ UNCHANGED <<stage, at>> /\ step' = "finish"
        /\ fate' = IF fate = "succeeded" THEN "failed" ELSE fate
        /\ IF Held THEN NoStop ELSE StopWith("lease_lost")
     \/ /\ UNCHANGED <<stage, at>> /\ step' = "finish" /\ NoStop
        /\ fate' = IF fate = "succeeded" THEN "failed" ELSE fate
  /\ UNCHANGED <<server, lease, cancel, outcome, kind, attached, told, expiry, deadline,
                 beatVars, completion, phase, fuse, grace, why, clean, agentVars>>

\* finishWithWorktree: a report the worker knows of counts, if its evidence is
\* still valid; a reason to stop counts more.  With a process that may still
\* run nothing is completed.  Mutant: it completes whatever still runs.
StillActiveNever == FALSE
StillActive == attached /\ ~clean
Finish ==
  /\ step = "finish"
  /\ IF StillActive
     THEN step' = "done" /\ Freed /\ deadline' = 0 /\ UNCHANGED fate
     ELSE /\ step' = "complete" /\ Kept /\ UNCHANGED deadline
          /\ reason' = IF Live /\ deadline = 0 THEN "timeout" ELSE reason
          /\ fate' \in CASE reason' = "cancelled" -> {"cancelled"}
                         [] reason' \in {"timeout", "lease_lost", "failed"} -> {"failed"}
                         [] reason' = "none" -> IF told THEN {"succeeded", "failed"} ELSE {fate}
  /\ UNCHANGED <<serverVars, at, completion, processVars, runtime, exit, began>>

\* CompleteAttempt
Unreported == ~cancel /\ fate = "succeeded" /\ ~outcome
End == IF cancel THEN "cancelled" ELSE IF Unreported THEN "failed" ELSE fate
PipelineComplete == \A s \in Stage : \/ stage[s] = "succeeded"
                                     \/ Last = 1 /\ stage[s] \in {"pending", "running"}
Completable == Held /\ (End = "succeeded" => server = "running" /\ PipelineComplete)
Complete ==
  /\ step = "complete" /\ step' = "done" /\ Freed /\ deadline' = 0
  /\ \/ /\ Completable /\ server' = End
        /\ stage' = [s \in Stage |->
             CASE stage[s] = "pending" -> IF End = "succeeded" THEN "succeeded" ELSE "cancelled"
               [] stage[s] = "running" -> End
               [] stage[s] = "succeeded" /\ s = Last /\ Unreported -> "failed"
               [] OTHER -> stage[s]]
        /\ completion' \in {"stored", "lost"}
     \/ /\ completion' = IF Completable THEN "lost" ELSE "refused"
        /\ UNCHANGED <<server, stage>>
  /\ UNCHANGED <<lease, cancel, outcome, kind, at, fate, processVars, runtime, exit, began>>

\* The process of the worker ends: the control pipe is closed.
WorkerDies ==
  /\ step \notin {"done", "dead"} /\ step' = "dead" /\ Freed
  /\ UNCHANGED <<serverVars, deadline, at, fate, completion, processVars, runtime, exit, began>>
-----------------------------------------------------------------------------
(* The supervisor *)

\* leaseStopDelay: the group must be gone when the lease ends.  Mutant: the
\* timer leaves no time for that.
StopDelayWhole(left) == left
StopDelay(left) == IF left > Grace THEN left - Grace ELSE 0

\* It reads no more, whatever is left in the pipe.
StopGroup(r, left) ==
  /\ phase' = "stopping" /\ why' = r /\ grace' = left
  /\ fuse' = 0 /\ pipe' = <<>>

StartRuntime ==
  /\ phase = "ready" /\ UNCHANGED grace
  /\ \/ /\ phase' = "running" /\ runtime' = "alive" /\ began' = lease
        /\ pipe' = Tail(pipe) /\ UNCHANGED <<why, fuse>>
     \/ /\ phase' = "gone" /\ why' = "supervisor_error"
        /\ pipe' = <<>> /\ fuse' = 0 /\ UNCHANGED <<runtime, began>>

\* stopCommand, which knows no reason "failed".  Mutant: it passes it on.
ReasonOfStopRaw(r) == r
ReasonOfStop(r) == IF r = "failed" THEN "supervisor_error" ELSE r

\* A report stops a running group, unless its lease timer has fired.
StopFor(command) ==
  CASE command.name = "stop" ->
         StopGroup(ReasonOfStop(command.arg), Grace)
    [] command.name = "outcome" /\ phase = "running" /\ fuse = 0 ->
         StopGroup("lease_lost", Grace)
    [] command.name = "outcome" /\ phase = "running" /\ fuse > 0 ->
         StopGroup("outcome_reported", OutcomeGrace)
    [] OTHER -> pipe' = Tail(pipe) /\ UNCHANGED <<phase, why, grace, fuse>>

ReadCommand ==
  /\ Listening /\ pipe # <<>>
  /\ LET command == Head(pipe) IN
       \/ /\ command.name = "renew" /\ fuse' = StopDelay(command.arg)
          /\ pipe' = Tail(pipe) /\ UNCHANGED <<phase, why, grace, runtime, began>>
       \/ command.name = "start" /\ StartRuntime
       \/ command.name \in {"stop", "outcome"} /\ StopFor(command)
          /\ UNCHANGED <<runtime, began>>
  /\ UNCHANGED <<serverVars, handleVars, beatVars, mainVars, clean, exit, call>>

\* The control pipe ends with the worker; a timer; the runtime itself.
ParentLost == step = "dead" /\ Listening /\ pipe = <<>> /\ StopGroup("parent_lost", Grace)
LeaseTimer == Listening /\ fuse = 0 /\ StopGroup("lease_lost", Grace)
WorkTimer == phase = "running" /\ deadline = 0 /\ StopGroup("timeout", Grace)
ChildExited == phase = "running" /\ runtime = "dead" /\ StopGroup("exited", 0)
Wake ==
  /\ ParentLost \/ LeaseTimer \/ WorkTimer \/ ChildExited
  /\ UNCHANGED <<serverVars, handleVars, beatVars, mainVars, clean, agentVars>>

\* stopStartedSupervisorGroup and what verifies it; the exit message.  The
\* anchor of the group ignores TERM: the grace is always waited for.
Verified == clean' = TRUE /\ runtime' = (IF runtime = "alive" THEN "dead" ELSE runtime)
            /\ why' = why
Unverified ==
  /\ runtime # "none" /\ clean' = FALSE /\ runtime' \in {runtime, "dead"}
  /\ why' = IF why = "outcome_reported" THEN "supervisor_error" ELSE why
KillGroup ==
  /\ phase = "stopping" /\ grace = 0 /\ phase' = "gone"
  /\ Verified \/ Unverified
  /\ UNCHANGED <<serverVars, handleVars, beatVars, mainVars, pipe, fuse, grace, exit, began, call>>

SupervisorDies ==
  /\ phase \in {"ready", "running", "stopping"} /\ step # "dead"
  /\ phase' = "gone" /\ why' = "crashed" /\ clean' = FALSE
  /\ fuse' = 0 /\ grace' = 0 /\ pipe' = <<>>
  /\ UNCHANGED <<serverVars, handleVars, beatVars, mainVars, agentVars>>
-----------------------------------------------------------------------------
(* The agent and the operator *)

RuntimeExits ==
  /\ runtime = "alive" /\ runtime' = "dead" /\ exit' \in {"ok", "bad"}
  /\ UNCHANGED <<serverVars, handleVars, beatVars, mainVars, processVars, began, call>>

\* handleAgentUpdate and AppendAgentUpdate, an ending report by the agent of
\* the last stage; a repeated one is replayed.
AgentReports ==
  /\ at = Last /\ kind[at] = "agent" /\ runtime = "alive"
  /\ call = "none" /\ ~told /\ step \notin {"done", "dead"}
  /\ outcome \/ (Held /\ server = "running" /\ ~cancel)
  /\ outcome' = TRUE /\ call' = "answered"
  /\ UNCHANGED <<server, lease, cancel, stage, kind, handleVars, beatVars, mainVars,
                 processVars, runtime, exit, began>>
UpdateLost ==
  /\ call = "answered" /\ call' = "none"
  /\ UNCHANGED <<serverVars, handleVars, beatVars, mainVars, processVars, runtime, exit, began>>
\* respondAcceptedAgentUpdate
RecordOutcome ==
  /\ call = "answered" /\ call' = "recorded" /\ told' = TRUE
  /\ UNCHANGED <<serverVars, reason, attached, expiry, deadline, beatVars, mainVars,
                 processVars, runtime, exit, began>>
NotifySupervisor ==
  /\ call = "recorded" /\ call' = "none" /\ pipe' = Send(pipe, Command("outcome", 0))
  /\ UNCHANGED <<serverVars, handleVars, beatVars, mainVars, phase, fuse, grace, why, clean,
                 runtime, exit, began>>

Active == server \in {"preparing", "running"}
RequestCancel ==
  /\ Active /\ ~cancel /\ cancel' = TRUE
  /\ UNCHANGED <<server, lease, outcome, stage, kind, handleVars, beatVars, mainVars,
                 processVars, agentVars>>
SweepExpired ==
  /\ Active /\ lease = 0 /\ server' = "lost"
  /\ stage' = [s \in Stage |-> CASE stage[s] = "running" -> "failed"
                                  [] stage[s] = "pending" -> "cancelled"
                                  [] OTHER -> stage[s]]
  /\ UNCHANGED <<lease, cancel, outcome, kind, handleVars, beatVars, mainVars, processVars,
                 agentVars>>
-----------------------------------------------------------------------------
(* Time *)

Prompt ==
  \/ Listening /\ (pipe # <<>> \/ fuse = 0 \/ step = "dead")
  \/ phase = "running" /\ (runtime = "dead" \/ deadline = 0)
  \/ phase = "stopping" /\ grace = 0
  \/ deadline = 0 /\ Live /\ step \notin {"done", "dead"}
  \/ step \in {"next", "attach", "send", "finish"}
  \/ step = "await" /\ (runtime # "none" \/ phase = "gone")
  \/ step \in {"wait", "reap"} /\ phase = "gone" /\ why # "unheard"

Less(n) == IF n > 0 THEN n - 1 ELSE 0
Tick ==
  /\ ~Prompt
  /\ lease' = (IF Active THEN Less(lease) ELSE lease)
  /\ expiry' = Less(expiry) /\ heard' = Less(heard) /\ deadline' = Less(deadline)
  /\ fuse' = (IF Listening THEN Less(fuse) ELSE fuse)
  /\ grace' = (IF phase = "stopping" THEN Less(grace) ELSE grace)
  /\ beat' = (IF beat = "resting" THEN "waiting" ELSE beat)
  /\ UNCHANGED <<server, cancel, outcome, stage, kind, reason, attached, told, mainVars,
                 phase, pipe, why, clean, agentVars>>

Local ==
  \/ NextStage \/ Launch \/ Attach \/ StartAttempt \/ StartStage \/ SendStart
  \/ AwaitStarted \/ AwaitExit \/ CommandEnds \/ CompleteStage \/ Finish \/ Complete
Supervisor == ReadCommand \/ Wake \/ KillGroup
Beats == HeartbeatAttempt \/ HeartbeatAnswered \/ HeartbeatFailed
Agent == RuntimeExits \/ AgentReports \/ UpdateLost \/ RecordOutcome \/ NotifySupervisor

Next ==
  \/ Local \/ Supervisor \/ SupervisorDies \/ Beats \/ SessionTimer \/ Shutdown
  \/ WorkerDies \/ Agent \/ RequestCancel \/ SweepExpired \/ Tick

Spec == Init /\ [][Next]_vars

\* Calls are answered or time out, and the supervisor and the timers run: the
\* attempt does not stand still while one of them has something to do.
Progress == Local \/ Supervisor \/ SessionTimer
FairSpec == Spec /\ WF_vars(Progress) /\ WF_vars(Tick)
-----------------------------------------------------------------------------
Reasons == {"none", "cancelled", "timeout", "lease_lost", "failed"}
Ends == {"succeeded", "failed", "cancelled"}

\* The fields hold what their types allow.
TypeOK ==
  /\ server \in {"preparing", "running", "lost"} \cup Ends
  /\ stage \in [Stage -> {"pending", "running"} \cup Ends]
  /\ {lease, expiry, heard, fuse} \subseteq 0..Lease /\ deadline \in 0..Timeout
  /\ reason \in Reasons /\ fate \in {"none"} \cup Ends
  /\ beat \in {"waiting", "resting", "renewed", "cancelled", "refused", "lost", "done"}
  /\ phase \in {"none", "ready", "running", "stopping", "gone"}
  /\ why \in {"none", "exited", "parent_lost", "supervisor_error", "outcome_reported",
              "crashed", "unheard"} \cup (Reasons \ {"failed"})
  /\ runtime \in {"none", "alive", "dead"} /\ call \in {"none", "answered", "recorded"}
  /\ at \in Stage /\ grace \in 0..(Grace + OutcomeGrace)

Supervised == kind[at] = "agent" /\ runtime = "alive"

\* A supervised agent does not outlive the lease of its attempt: at its end the
\* supervisor kills it.  It was given longer only if it had reported, or if it was
\* started with less than the grace of its group left (superviseRuntime, leaseStopDelay).
RuntimeWithinLease ==
  Supervised /\ lease = 0 /\ phase # "gone" =>
    /\ phase = "stopping"
    /\ \/ grace = 0
       \/ why = "outcome_reported" /\ grace + Grace <= OutcomeGrace
       \/ began < Grace /\ grace + began <= Grace

\* Nothing is completed while the agent may still run, and a success only with
\* its report (finishWithWorktree, CompleteAttempt).
CompletedAfterStop ==
  completion = "stored" \/ server \in Ends =>
    ~Supervised /\ (server = "succeeded" => outcome)

\* An agent, its lease and its completion agree (superviseRuntime, CompleteAttempt).
SupervisionSafe == TypeOK /\ RuntimeWithinLease /\ CompletedAfterStop

\* The attempt ends on its worker, and with it every agent whose stop was
\* verified, unless it waits for a supervisor whose crash it did not hear of
\* (runAttempt, superviseRuntime, setSupervisor, waitForSupervisorMessage).
Ended == step \in {"done", "dead"} /\ (Supervised => ~clean)
Deaf == step \in {"wait", "reap"} /\ why = "unheard"
AttemptEnds == <>[](Ended \/ Deaf)

\* A report that is stored decides the attempt, not how the agent exits: a
\* success is refused only to an attempt without its lease
\* (expectedOutcomeTerminationError, CompleteAttempt).
ExitDoesNotDecide ==
  why = "exited" /\ fate = "succeeded" /\ completion = "refused" =>
    server = "lost" \/ lease = 0
=============================================================================
