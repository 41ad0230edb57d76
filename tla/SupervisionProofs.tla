-------------------------- MODULE SupervisionProofs --------------------------
(***************************************************************************)
(* What holds of one attempt on its worker (AttemptSupervision) for every  *)
(* number of stages, every lease, grace and timeout: the agent does not    *)
(* outlive the lease by more than it was given, and nothing is completed   *)
(* while it may run.                                                       *)
(***************************************************************************)
EXTENDS AttemptSupervision, TLAPS

-----------------------------------------------------------------------------
(* The inductive invariant *)

Steps == {"next", "launch", "attach", "start", "stage", "send", "await", "started", "wait",
          "reap", "command", "report", "finish", "complete", "done", "dead"}
\* The types that TypeOK leaves out, and a stage only ever stores an end.
MoreTypes ==
  /\ kind \in [Stage -> {"agent", "code"}] /\ step \in Steps
  /\ began \in 0..Lease /\ completion \in {"none", "stored", "lost", "refused"}
  /\ step \in {"report", "finish", "complete"} => fate \in Ends

\* What is under way to a supervisor that reads: a renewal tells no more than the lease.
Commands == [name : {"renew", "stop", "start", "outcome"}, arg : (0..Lease) \cup Reasons]
Fits(c, left) ==
  \/ c.name = "renew" /\ c.arg \in 1..left
  \/ c.name = "stop" /\ c.arg \in Reasons \ {"none"}
  \/ c.name \in {"start", "outcome"}
Says(c) == Fits(c, lease)
PipeInv ==
  /\ pipe \in Seq(Commands)
  /\ \A i \in 1..Len(pipe) : Says(pipe[i])
  /\ ~Listening => pipe = <<>>
\* What the worker knows of the lease is never more than what is left of it.
LeaseInv == expiry <= lease /\ heard <= lease

\* The timer leaves the group its grace, or has fired while the lease lasts.
Armed == \/ fuse + Grace <= lease
         \/ fuse = 0 /\ lease > 0
\* Before the first command is read, the timer counts a whole lease: then nothing runs
\* and the first command renews it or stops the supervisor.
Ungreeted ==
  /\ phase = "ready" /\ (attached => pipe # <<>>)
  /\ pipe # <<>> => Head(pipe).name \in {"renew", "stop"}
GroupInv ==
  /\ Listening => Armed \/ Ungreeted
  /\ phase = "ready" => runtime = "none"
  /\ phase = "running" => Armed /\ runtime # "none" /\ (lease >= Grace \/ lease >= began)
  /\ phase = "stopping" /\ runtime # "none" =>
       \/ lease >= grace
       \/ lease + Grace >= grace + began
       \/ why = "outcome_reported" /\ lease + OutcomeGrace >= grace + Grace

\* An agent that runs has a supervisor, or one that went without knowing its end.
Away == phase \in {"none", "gone"}
Unstarted ==
  /\ runtime = "none" /\ why # "outcome_reported"
  /\ \A i \in 1..Len(pipe) : pipe[i].name # "start"
ControlInv ==
  /\ Supervised => phase \in {"running", "stopping"} \/ (phase = "gone" /\ ~clean)
  /\ phase = "gone" /\ why = "outcome_reported" => clean
  /\ step \in {"launch", "attach", "send", "await", "started", "wait", "reap"} => kind[at] = "agent"
  /\ step = "command" => kind[at] = "code"
  /\ kind[at] = "code" /\ step # "dead" => Away /\ (attached /\ step # "done" => clean)
  /\ step \in {"next", "launch"} => Away /\ runtime # "alive" /\ (attached => clean)
  /\ step = "attach" => ~attached /\ pipe = <<>>
  /\ step \in {"attach", "start", "stage", "send"} /\ kind[at] = "agent" => Unstarted
  /\ step \in {"start", "stage", "send", "await", "started", "wait", "reap", "report"}
       /\ kind[at] = "agent" => attached
  /\ step = "report" => Away /\ (kind[at] = "agent" /\ fate = "succeeded" => clean)
  /\ step = "report" /\ kind[at] = "code" => runtime # "alive"
  /\ step = "finish" => Away /\ (Supervised => attached)
  /\ step = "complete" => Away /\ ~Supervised
EndInv ==
  /\ completion = "stored" \/ server \in Ends => step = "done" /\ Away /\ ~Supervised
  /\ server = "succeeded" => outcome

SupervisionInv ==
  TypeOK /\ MoreTypes /\ PipeInv /\ LeaseInv /\ GroupInv /\ ControlInv /\ EndInv

-----------------------------------------------------------------------------
(* The pipe *)

NoStart(s) == \A i \in 1..Len(s) : s[i].name # "start"
\* What the pipe may become by what is sent to a supervisor that is not to start yet.
GoodPipe(s) ==
  /\ s \in Seq(Commands) /\ \A i \in 1..Len(s) : Says(s[i])
  /\ ~ (attached /\ Listening) => s = pipe
  /\ pipe # <<>> => s # <<>> /\ Head(s) = Head(pipe)
Quiet(s) == GoodPipe(s) /\ (NoStart(pipe) => NoStart(s))

LEMMA SupervisionNumbers ==
  /\ Last \in Nat /\ 1 <= Last /\ Lease \in Nat /\ Timeout \in Nat /\ Grace \in Nat
  /\ 1 <= Grace /\ Grace < Lease /\ OutcomeGrace \in Nat /\ Stage = 1..Last
BY SupervisionConstants DEF SupervisionConstants, Stage

LEMMA Appends ==
  ASSUME NEW S, NEW s \in Seq(S), NEW c \in S
  PROVE  /\ Append(s, c) \in Seq(S) /\ Append(s, c) # <<>>
         /\ Len(Append(s, c)) = Len(s) + 1
         /\ \A i \in 1..Len(s) : Append(s, c)[i] = s[i]
         /\ Append(s, c)[Len(s) + 1] = c
         /\ Head(Append(s, c)) = IF s = <<>> THEN c ELSE Head(s)
OBVIOUS

LEMMA Tails ==
  ASSUME NEW S, NEW s \in Seq(S), s # <<>>
  PROVE  /\ Head(s) \in S /\ Head(s) = s[1] /\ 1 \in 1..Len(s) /\ Tail(s) \in Seq(S)
         /\ \A i \in 1..Len(Tail(s)) : i + 1 \in 1..Len(s) /\ Tail(s)[i] = s[i + 1]
OBVIOUS

LEMMA PipeIsQuiet == ASSUME PipeInv PROVE Quiet(pipe)
BY DEF PipeInv, Quiet, GoodPipe

LEMMA AppendIsGood ==
  ASSUME NEW s, GoodPipe(s), attached, Listening, NEW c \in Commands, Says(c)
  PROVE  /\ GoodPipe(Append(s, c))
         /\ c.name # "start" /\ NoStart(s) => NoStart(Append(s, c))
<1> DEFINE t == Append(s, c)
<1>0. s \in Seq(Commands) /\ Len(s) \in Nat
  BY DEF GoodPipe
<1>1. /\ t \in Seq(Commands) /\ t # <<>> /\ Len(t) = Len(s) + 1
      /\ \A i \in 1..Len(s) : t[i] = s[i]
      /\ t[Len(s) + 1] = c /\ Head(t) = IF s = <<>> THEN c ELSE Head(s)
  BY <1>0, Appends
<1> HIDE DEF t
<1>2. \A i \in 1..Len(t) : i \in 1..Len(s) \/ i = Len(s) + 1
  BY <1>0, <1>1
<1>3. \A i \in 1..Len(t) : Says(t[i])
  BY <1>1, <1>2 DEF GoodPipe
<1>4. GoodPipe(t)
  BY <1>1, <1>3 DEF GoodPipe
<1>5. c.name # "start" /\ NoStart(s) => NoStart(t)
  BY <1>1, <1>2 DEF NoStart
<1> QED BY <1>4, <1>5 DEF t

LEMMA SendIsGood ==
  ASSUME NEW s, GoodPipe(s), NEW c \in Commands, Says(c)
  PROVE  /\ GoodPipe(Send(s, c))
         /\ c.name # "start" /\ NoStart(s) => NoStart(Send(s, c))
BY AppendIsGood DEF Send

LEMMA StopIsGood ==
  ASSUME NEW s, Quiet(s), NEW r \in Reasons \ {"none"}
  PROVE  Quiet(Send(s, Command("stop", r)))
<1>1. Command("stop", r) \in Commands /\ Says(Command("stop", r))
      /\ Command("stop", r).name # "start"
  BY DEF Command, Commands, Says, Fits
<1> QED BY <1>1, SendIsGood DEF Quiet

LEMMA RenewalIsGood ==
  ASSUME NEW left \in 0..Lease, left <= lease, lease \in 0..Lease
  PROVE  /\ Renewal(left) \in Commands /\ Says(Renewal(left))
         /\ Renewal(left).name \in {"renew", "stop"}
BY SupervisionNumbers DEF Renewal, Command, Commands, Says, Fits, Reasons

LEMMA StopWithIsGood ==
  ASSUME PipeInv, NEW r \in Reasons \ {"none"}, StopWith(r) PROVE Quiet(pipe')
BY PipeIsQuiet, StopIsGood DEF StopWith
LEMMA NoStopIsGood == ASSUME PipeInv, NoStop PROVE Quiet(pipe')
BY PipeIsQuiet DEF NoStop

\* The calls and timers that only tell the supervisor something.
Tells ==
  \/ HeartbeatAnswered \/ HeartbeatFailed \/ SessionTimer \/ Shutdown \/ StartAttempt
  \/ StartStage \/ CompleteStage \/ NotifySupervisor
LEMMA TellsQuietly == ASSUME SupervisionInv, Tells PROVE Quiet(pipe')
<1>0. PipeInv /\ LeaseInv /\ heard \in 0..Lease /\ lease \in 0..Lease
  BY DEF SupervisionInv, TypeOK
<1>r. {"cancelled", "lease_lost", "timeout", "failed"} \subseteq Reasons \ {"none"}
  BY DEF Reasons
<1>1. CASE HeartbeatAnswered
  <2>1. Quiet(Send(pipe, Renewal(heard)))
    BY <1>0, RenewalIsGood, SendIsGood, PipeIsQuiet DEF Quiet, LeaseInv
  <2>2. Quiet(Send(Send(pipe, Renewal(heard)), Command("stop", "cancelled")))
    BY <1>r, <2>1, StopIsGood
  <2> QED BY <1>1, <2>1, <2>2 DEF HeartbeatAnswered
<1>2. CASE HeartbeatFailed
  BY <1>0, <1>2, <1>r, StopWithIsGood, NoStopIsGood DEF HeartbeatFailed
<1>3. CASE SessionTimer \/ Shutdown
  BY <1>0, <1>3, <1>r, StopWithIsGood DEF SessionTimer, Shutdown
<1>4. CASE StartAttempt
  BY <1>0, <1>4, <1>r, StopWithIsGood, NoStopIsGood DEF StartAttempt, CallFailed
<1>5. CASE StartStage
  <2>1. Refusal \in {"lease_lost", "cancelled", "failed"}
    BY DEF Refusal
  <2> QED BY <1>0, <1>5, <1>r, <2>1, StopWithIsGood, NoStopIsGood DEF StartStage, CallFailed
<1>6. CASE CompleteStage
  BY <1>0, <1>6, <1>r, StopWithIsGood, NoStopIsGood DEF CompleteStage
<1>7. CASE NotifySupervisor
  <2>1. /\ Command("outcome", 0) \in Commands /\ Says(Command("outcome", 0))
        /\ Command("outcome", 0).name # "start"
    BY SupervisionNumbers DEF Command, Commands, Says, Fits
  <2> QED BY <1>0, <1>7, <2>1, SendIsGood, PipeIsQuiet DEF NotifySupervisor, Quiet
<1> QED BY <1>1, <1>2, <1>3, <1>4, <1>5, <1>6, <1>7 DEF Tells

\* The supervisor stops its group, for any reason it has.
Halts ==
  \E r \in {"cancelled", "timeout", "lease_lost", "supervisor_error", "parent_lost",
            "outcome_reported", "exited"} :
  \E left \in {0, Grace, OutcomeGrace} :
    /\ Listening /\ StopGroup(r, left) /\ UNCHANGED <<clean, runtime, began>>
    /\ \/ r \notin {"outcome_reported", "exited"} /\ left = Grace
       \/ r = "outcome_reported" /\ phase = "running" /\ fuse > 0 /\ left = OutcomeGrace
       \/ r = "exited" /\ phase = "running" /\ left = 0
Renews ==
  /\ Listening /\ \E n \in 1..lease : fuse' = StopDelay(n)
  /\ pipe # <<>> /\ pipe' = Tail(pipe) /\ Head(pipe).name = "renew"
  /\ UNCHANGED <<phase, grace, why, clean, runtime, began>>
Starts ==
  /\ phase = "ready" /\ Armed /\ phase' = "running" /\ runtime' = "alive" /\ began' = lease
  /\ pipe # <<>> /\ pipe' = Tail(pipe) /\ UNCHANGED <<fuse, grace, why, clean>>
  /\ Head(pipe).name = "start"
FailsToStart ==
  /\ phase = "ready" /\ phase' = "gone" /\ why' = "supervisor_error" /\ pipe' = <<>>
  /\ fuse' = 0 /\ UNCHANGED <<grace, clean, runtime, began>>
  /\ pipe # <<>> /\ Head(pipe).name = "start"
Skips ==
  /\ Listening /\ Armed /\ pipe # <<>> /\ pipe' = Tail(pipe)
  /\ UNCHANGED <<phase, fuse, grace, why, clean, runtime, began>>
Others == <<serverVars, handleVars, beatVars, mainVars, exit, call>>

LEMMA ReadIs ==
  ASSUME SupervisionInv, ReadCommand
  PROVE  UNCHANGED Others /\ (Halts \/ Renews \/ Starts \/ FailsToStart \/ Skips)
<1>0. PipeInv /\ GroupInv /\ pipe # <<>> /\ pipe \in Seq(Commands)
  BY DEF SupervisionInv, ReadCommand, PipeInv
<1> DEFINE c == Head(pipe)
<1>1. Says(c) /\ 1 \in 1..Len(pipe) /\ c = pipe[1]
  BY <1>0, Tails DEF PipeInv
<1>2. Ungreeted => c.name \in {"renew", "stop"}
  BY <1>0 DEF Ungreeted
<1>3. Listening /\ UNCHANGED Others /\ UNCHANGED clean
  BY DEF ReadCommand, Others
<1>4. \/ /\ c.name = "renew" /\ fuse' = StopDelay(c.arg)
         /\ pipe' = Tail(pipe) /\ UNCHANGED <<phase, why, grace, runtime, began>>
      \/ c.name = "start" /\ StartRuntime
      \/ c.name \in {"stop", "outcome"} /\ StopFor(c) /\ UNCHANGED <<runtime, began>>
  BY DEF ReadCommand
<1> HIDE DEF c
<1>5. Armed \/ c.name \in {"renew", "stop"}
  BY <1>0, <1>2, <1>3 DEF GroupInv
<1>6. CASE c.name = "renew"
  <2>1. c.arg \in 1..lease
    BY <1>1, <1>6 DEF Says, Fits
  <2>2. Renews
    BY <1>0, <1>3, <1>4, <1>6, <2>1 DEF Renews, c
  <2> QED BY <1>3, <2>2
<1>7. CASE c.name = "start"
  <2>1. StartRuntime /\ Armed
    BY <1>4, <1>5, <1>7
  <2>2. Starts \/ FailsToStart
    BY <1>0, <1>3, <1>7, <2>1 DEF StartRuntime, Starts, FailsToStart, c
  <2> QED BY <1>3, <2>2
<1>8. CASE c.name = "stop"
  <2>1. ReasonOfStop(c.arg) \in {"cancelled", "timeout", "lease_lost", "supervisor_error"}
    BY <1>1, <1>8 DEF Says, Fits, Reasons, ReasonOfStop
  <2>2. StopGroup(ReasonOfStop(c.arg), Grace) /\ UNCHANGED <<runtime, began>>
    BY <1>4, <1>8 DEF StopFor
  <2>3. Halts
    BY <1>3, <2>1, <2>2 DEF Halts
  <2> QED BY <1>3, <2>3
<1>9. CASE c.name = "outcome"
  <2>1. StopFor(c) /\ UNCHANGED <<runtime, began>> /\ Armed
    BY <1>4, <1>5, <1>9
  <2>2. CASE phase = "running" /\ fuse = 0
    BY <1>3, <1>9, <2>1, <2>2 DEF StopFor, Halts
  <2>3. CASE phase = "running" /\ fuse > 0
    BY <1>3, <1>9, <2>1, <2>3 DEF StopFor, Halts
  <2>4. CASE ~ (phase = "running" /\ fuse = 0) /\ ~ (phase = "running" /\ fuse > 0)
    BY <1>0, <1>3, <1>9, <2>1, <2>4 DEF StopFor, Skips
  <2> QED BY <2>2, <2>3, <2>4
<1> QED BY <1>4, <1>6, <1>7, <1>8, <1>9

LEMMA WakeIs == ASSUME SupervisionInv, Wake PROVE UNCHANGED Others /\ Halts
<1>1. UNCHANGED Others /\ UNCHANGED <<clean, runtime, began>>
  BY DEF Wake, Others, agentVars
<1>2. CASE ParentLost
  BY <1>1, <1>2 DEF ParentLost, Halts
<1>3. CASE LeaseTimer
  BY <1>1, <1>3 DEF LeaseTimer, Halts
<1>4. CASE WorkTimer
  BY <1>1, <1>4 DEF WorkTimer, Halts, Listening
<1>5. CASE ChildExited
  BY <1>1, <1>5 DEF ChildExited, Halts, Listening
<1> QED BY <1>2, <1>3, <1>4, <1>5 DEF Wake

-----------------------------------------------------------------------------
(* Types *)

TypeInv == TypeOK /\ MoreTypes

LEMMA SupervisionStart == Init => SupervisionInv
<1> SUFFICES ASSUME Init PROVE SupervisionInv
  OBVIOUS
<1>1. TypeOK /\ MoreTypes
  BY SupervisionNumbers DEF Init, TypeOK, MoreTypes, Reasons, Ends, Steps
<1>2. PipeInv
  BY DEF Init, PipeInv, Listening
<1>3. LeaseInv
  BY SupervisionNumbers DEF Init, LeaseInv
<1>4. GroupInv /\ ControlInv
  BY SupervisionNumbers DEF Init, GroupInv, ControlInv, Listening, Supervised, Away
<1>5. EndInv
  BY DEF Init, EndInv, Ends
<1> QED BY <1>1, <1>2, <1>3, <1>4, <1>5 DEF SupervisionInv

LEMMA StageKept ==
  ASSUME TypeInv, NEW x \in {"pending", "running"} \cup Ends
  PROVE  [stage EXCEPT ![at] = x] \in [Stage -> {"pending", "running"} \cup Ends]
BY DEF TypeInv, TypeOK

LEMMA BeatTypes ==
  ASSUME SupervisionInv, HeartbeatAttempt \/ HeartbeatAnswered \/ HeartbeatFailed
  PROVE  TypeInv'
<1> USE SupervisionNumbers DEF SupervisionInv, TypeInv, TypeOK, MoreTypes, serverVars, handleVars,
        beatVars, mainVars, processVars, agentVars
<1>1. CASE HeartbeatAttempt
  BY <1>1 DEF HeartbeatAttempt
<1>2. CASE HeartbeatAnswered
  BY <1>2 DEF HeartbeatAnswered, Reasons
<1>3. CASE HeartbeatFailed
  BY <1>3 DEF HeartbeatFailed, StopWith, NoStop, Reasons
<1> QED BY <1>1, <1>2, <1>3

LEMMA TimerTypes ==
  ASSUME SupervisionInv, SessionTimer \/ Shutdown \/ RequestCancel \/ SweepExpired \/ Tick
  PROVE  TypeInv'
<1> USE SupervisionNumbers DEF SupervisionInv, TypeInv, TypeOK, MoreTypes, serverVars, handleVars,
        beatVars, mainVars, processVars, agentVars
<1>1. CASE SessionTimer
  BY <1>1 DEF SessionTimer, StopWith, Reasons
<1>2. CASE Shutdown
  BY <1>2 DEF Shutdown, StopWith, Reasons
<1>3. CASE RequestCancel
  BY <1>3 DEF RequestCancel
<1>4. CASE SweepExpired
  BY <1>4 DEF SweepExpired, Ends
<1>5. CASE Tick
  BY <1>5 DEF Tick, Less
<1> QED BY <1>1, <1>2, <1>3, <1>4, <1>5

LEMMA AgentTypes ==
  ASSUME SupervisionInv, Agent \/ WorkerDies \/ KillGroup \/ SupervisorDies
  PROVE  TypeInv'
<1> USE SupervisionNumbers DEF SupervisionInv, TypeInv, TypeOK, MoreTypes, serverVars, handleVars,
        beatVars, mainVars, processVars, agentVars
<1>1. CASE RuntimeExits \/ AgentReports
  BY <1>1 DEF RuntimeExits, AgentReports
<1>2. CASE UpdateLost \/ RecordOutcome \/ NotifySupervisor
  BY <1>2 DEF UpdateLost, RecordOutcome, NotifySupervisor
<1>3. CASE WorkerDies
  BY <1>3 DEF WorkerDies, Freed, Reasons, Steps
<1>4. CASE KillGroup
  BY <1>4 DEF KillGroup, Verified, Unverified
<1>5. CASE SupervisorDies
  BY <1>5 DEF SupervisorDies
<1> QED BY <1>1, <1>2, <1>3, <1>4, <1>5 DEF Agent

LEMMA SupervisorTypes ==
  ASSUME SupervisionInv, ReadCommand \/ Wake PROVE TypeInv'
<1>0. UNCHANGED Others /\ (Halts \/ Renews \/ Starts \/ FailsToStart \/ Skips)
  BY ReadIs, WakeIs
<1> USE SupervisionNumbers DEF SupervisionInv, TypeInv, TypeOK, MoreTypes, serverVars, handleVars,
        beatVars, mainVars, processVars, agentVars, Others
<1>1. CASE Halts
  <2>1. PICK r \in {"cancelled", "timeout", "lease_lost", "supervisor_error", "parent_lost",
                    "outcome_reported", "exited"}, left \in {0, Grace, OutcomeGrace} :
          StopGroup(r, left) /\ UNCHANGED <<clean, runtime, began>>
    BY <1>1 DEF Halts
  <2>2. left \in 0..(Grace + OutcomeGrace)
    OBVIOUS
  <2> QED BY <1>0, <2>1, <2>2 DEF StopGroup, Reasons
<1>2. CASE Renews
  BY <1>0, <1>2 DEF Renews, StopDelay
<1>3. CASE Starts \/ FailsToStart \/ Skips
  BY <1>0, <1>3 DEF Starts, FailsToStart, Skips
<1> QED BY <1>0, <1>1, <1>2, <1>3

LEMMA StageTypes ==
  ASSUME SupervisionInv, StartAttempt \/ StartStage \/ CompleteStage \/ Complete
  PROVE  TypeInv'
<1> USE SupervisionNumbers DEF SupervisionInv, TypeInv, TypeOK, MoreTypes, serverVars, handleVars,
        beatVars, mainVars, processVars, agentVars
<1>1. CASE StartAttempt
  BY <1>1 DEF StartAttempt, CallFailed, StopWith, NoStop, Reasons, Ends, Steps, AfterStop, Accepted
<1>2. CASE StartStage
  <2>1. stage' \in [Stage -> {"pending", "running"} \cup Ends]
    BY <1>2, StageKept DEF StartStage
  <2>2. step' \in Steps /\ fate' \in {"none"} \cup Ends /\ reason' \in Reasons
          /\ (step' \in {"report", "finish", "complete"} => fate' \in Ends)
    BY <1>2 DEF StartStage, CallFailed, StopWith, NoStop, Reasons, Ends, Steps, AfterStop, Refusal
  <2> QED BY <1>2, <2>1, <2>2 DEF StartStage
<1>3. CASE CompleteStage
  <2>1. stage' \in [Stage -> {"pending", "running"} \cup Ends]
    <3>1. fate \in {"pending", "running"} \cup Ends
      BY <1>3 DEF CompleteStage
    <3> QED BY <1>3, <3>1, StageKept DEF CompleteStage
  <2>2. /\ step' \in Steps /\ fate' \in Ends /\ reason' \in Reasons /\ at' \in Stage
    BY <1>3 DEF CompleteStage, StopWith, NoStop, Reasons, Ends, Steps
  <2> QED BY <1>3, <2>1, <2>2 DEF CompleteStage
<1>4. CASE Complete
  <2>1. End \in Ends
    BY <1>4 DEF Complete, End, Ends
  <2>2. stage' \in [Stage -> {"pending", "running"} \cup Ends]
    BY <1>4, <2>1 DEF Complete, Ends
  <2> QED BY <1>4, <2>1, <2>2 DEF Complete, Freed, Reasons, Steps
<1> QED BY <1>1, <1>2, <1>3, <1>4

LEMMA LocalTypes ==
  ASSUME SupervisionInv,
         \/ NextStage \/ Launch \/ Attach \/ SendStart \/ AwaitStarted \/ AwaitExit
         \/ CommandEnds \/ Finish
  PROVE  TypeInv'
<1> USE SupervisionNumbers DEF SupervisionInv, TypeInv, TypeOK, MoreTypes, serverVars, handleVars,
        beatVars, mainVars, processVars, agentVars
<1>1. CASE NextStage
  BY <1>1 DEF NextStage, Reasons, Ends, Steps
<1>2. CASE Launch
  BY <1>2 DEF Launch, Ends, Steps
<1>3. CASE Attach
  BY <1>3 DEF Attach, Go, Steps
<1>4. CASE SendStart
  BY <1>4 DEF SendStart, Ends, Steps
<1>5. CASE AwaitStarted
  BY <1>5 DEF AwaitStarted, ReadExit, Unheard, Ends, Steps
<1>6. CASE AwaitExit
  BY <1>6 DEF AwaitExit, ReadExit, Unheard, TerminalState, Ends, Steps
<1>7. CASE CommandEnds
  BY <1>7 DEF CommandEnds, Go, Ends, Steps
<1>8. CASE Finish
  BY <1>8 DEF Finish, Freed, Kept, Reasons, Ends, Steps
<1> QED BY <1>1, <1>2, <1>3, <1>4, <1>5, <1>6, <1>7, <1>8

-----------------------------------------------------------------------------
(* What is under way *)

\* The steps that send nothing and leave the supervisor alone.
Aside ==
  \/ NextStage \/ AwaitStarted \/ AwaitExit \/ CommandEnds \/ Finish \/ Complete \/ WorkerDies
  \/ RuntimeExits \/ AgentReports \/ UpdateLost \/ RecordOutcome \/ RequestCancel \/ SweepExpired

LEMMA AsideKeeps ==
  ASSUME Aside
  PROVE  UNCHANGED <<phase, pipe, fuse, grace, lease, began, kind>> /\ (why' = why \/ phase = "gone")
<1> USE DEF serverVars, handleVars, beatVars, mainVars, processVars, agentVars
<1>1. CASE NextStage \/ CommandEnds \/ RuntimeExits
  BY <1>1 DEF NextStage, CommandEnds, RuntimeExits
<1>2. CASE AwaitStarted \/ AwaitExit
  BY <1>2 DEF AwaitStarted, AwaitExit, ReadExit, Unheard
<1>3. CASE Finish
  BY <1>3 DEF Finish
<1>4. CASE Complete \/ WorkerDies
  BY <1>4 DEF Complete, WorkerDies
<1>5. CASE AgentReports \/ UpdateLost \/ RecordOutcome
  BY <1>5 DEF AgentReports, UpdateLost, RecordOutcome
<1>6. CASE RequestCancel \/ SweepExpired
  BY <1>6 DEF RequestCancel, SweepExpired
<1> QED BY <1>1, <1>2, <1>3, <1>4, <1>5, <1>6 DEF Aside

LEMMA TellsKeeps ==
  ASSUME Tells PROVE UNCHANGED <<phase, fuse, grace, why, clean, lease, attached, began, kind>>
<1> USE DEF serverVars, handleVars, beatVars, mainVars, processVars, agentVars
<1>1. CASE HeartbeatAnswered \/ HeartbeatFailed
  BY <1>1 DEF HeartbeatAnswered, HeartbeatFailed
<1>2. CASE SessionTimer \/ Shutdown
  BY <1>2 DEF SessionTimer, Shutdown
<1>3. CASE StartAttempt
  BY <1>3 DEF StartAttempt
<1>4. CASE StartStage
  BY <1>4 DEF StartStage
<1>5. CASE CompleteStage \/ NotifySupervisor
  BY <1>5 DEF CompleteStage, NotifySupervisor
<1> QED BY <1>1, <1>2, <1>3, <1>4, <1>5 DEF Tells

LEMMA PipeSame ==
  ASSUME PipeInv, pipe' = pipe, phase' = phase, lease' = lease PROVE PipeInv'
BY DEF PipeInv, Says, Listening
LEMMA PipeEmpty == ASSUME pipe' = <<>> PROVE PipeInv'
BY DEF PipeInv
LEMMA PipeGood ==
  ASSUME PipeInv, GoodPipe(pipe'), phase' = phase, lease' = lease PROVE PipeInv'
BY DEF PipeInv, GoodPipe, Says, Listening
LEMMA PipeTail ==
  ASSUME PipeInv, pipe # <<>>, pipe' = Tail(pipe), lease' = lease,
         phase' \in {"ready", "running"}
  PROVE  PipeInv'
<1>0. pipe \in Seq(Commands) /\ Listening'
  BY DEF PipeInv, Listening
<1>1. /\ pipe' \in Seq(Commands)
      /\ \A i \in 1..Len(pipe') : i + 1 \in 1..Len(pipe) /\ pipe'[i] = pipe[i + 1]
  BY <1>0, Tails
<1>2. \A i \in 1..Len(pipe') : Fits(pipe'[i], lease')
  BY <1>1 DEF PipeInv, Says
<1> QED BY <1>0, <1>1, <1>2 DEF PipeInv, Says

LEMMA GreetingIsGood ==
  ASSUME SupervisionInv
  PROVE  Greeting \in Commands /\ Says(Greeting) /\ Greeting.name \in {"renew", "stop"}
<1>1. expiry \in 0..Lease /\ lease \in 0..Lease /\ expiry <= lease /\ reason \in Reasons
  BY DEF SupervisionInv, TypeOK, LeaseInv
<1>2. CASE Live
  BY <1>1, <1>2, RenewalIsGood DEF Greeting
<1>3. CASE ~Live
  BY <1>1, <1>3, SupervisionNumbers DEF Greeting, Live, Command, Commands, Says, Fits, Reasons
<1> QED BY <1>2, <1>3

\* The first command is the first in the pipe.
LEMMA AttachIs ==
  ASSUME SupervisionInv, Attach
  PROVE  /\ Listening => /\ pipe' # <<>> /\ Head(pipe').name \in {"renew", "stop"}
                         /\ NoStart(pipe')
         /\ ~Listening => pipe' = pipe
         /\ PipeInv'
<1>1. pipe = <<>> /\ phase' = phase /\ lease' = lease
  BY DEF Attach, Go, SupervisionInv, ControlInv, serverVars
<1>2. CASE Listening
  <2>1. pipe' = Append(pipe, Greeting) /\ pipe \in Seq(Commands)
    BY <1>2 DEF Attach, SupervisionInv, PipeInv
  <2>2. /\ pipe' \in Seq(Commands) /\ pipe' # <<>> /\ Len(pipe') = 1
        /\ pipe'[1] = Greeting /\ Head(pipe') = Greeting
    BY <1>1, <2>1, Appends, GreetingIsGood
  <2>3. Says(Greeting) /\ Greeting.name \in {"renew", "stop"}
    BY GreetingIsGood
  <2>4. \A i \in 1..Len(pipe') : pipe'[i] = Greeting
    BY <2>2
  <2>5. PipeInv'
    <3>1. \A i \in 1..Len(pipe') : Fits(pipe'[i], lease')
      BY <1>1, <2>3, <2>4 DEF Says
    <3>2. Listening'
      BY <1>1, <1>2 DEF Listening
    <3> QED BY <2>2, <3>1, <3>2 DEF PipeInv, Says
  <2>6. NoStart(pipe')
    BY <2>3, <2>4 DEF NoStart
  <2> QED BY <1>2, <2>2, <2>3, <2>5, <2>6
<1>3. CASE ~Listening
  BY <1>1, <1>3, PipeSame DEF Attach, SupervisionInv
<1> QED BY <1>2, <1>3

\* The command to start is the only one that is sent so.
LEMMA SendStartIs ==
  ASSUME SupervisionInv, SendStart
  PROVE  GoodPipe(pipe') /\ UNCHANGED <<phase, lease, attached, fuse, grace, why, began, runtime, kind, at>>
<1>1. UNCHANGED <<phase, lease, attached, fuse, grace, why, began, runtime, kind, at>>
  BY DEF SendStart, serverVars, handleVars, agentVars
<1>2. Command("start", 0) \in Commands /\ Says(Command("start", 0))
  BY SupervisionNumbers DEF Command, Commands, Says, Fits
<1>3. GoodPipe(pipe) /\ GoodPipe(Send(pipe, Command("start", 0)))
  BY <1>2, PipeIsQuiet, SendIsGood DEF Quiet, SupervisionInv
<1> QED BY <1>1, <1>3 DEF SendStart

LEMMA PipeKept == ASSUME SupervisionInv, Next PROVE PipeInv'
<1>0. PipeInv
  BY DEF SupervisionInv
<1>1. CASE Aside
  BY <1>0, <1>1, AsideKeeps, PipeSame
<1>2. CASE Tells
  BY <1>0, <1>2, TellsKeeps, TellsQuietly, PipeGood DEF Quiet
<1>3. CASE HeartbeatAttempt \/ Tick
  <2>1. pipe = <<>> /\ pipe' = pipe
    BY <1>0, <1>3 DEF HeartbeatAttempt, Tick, Prompt, PipeInv, processVars
  <2> QED BY <2>1, PipeEmpty
<1>4. CASE Launch
  <2>1. pipe = <<>> /\ pipe' = pipe
    BY <1>4 DEF Launch, SupervisionInv, ControlInv, PipeInv, Away, Listening
  <2> QED BY <2>1, PipeEmpty
<1>5. CASE Attach
  BY <1>5, AttachIs
<1>6. CASE SendStart
  BY <1>0, <1>6, SendStartIs, PipeGood
<1>7. CASE ReadCommand \/ Wake
  <2>1. UNCHANGED Others /\ (Halts \/ Renews \/ Starts \/ FailsToStart \/ Skips)
    BY <1>7, ReadIs, WakeIs
  <2>2. lease' = lease
    BY <2>1 DEF Others, serverVars
  <2>3. CASE Halts \/ FailsToStart
    BY <2>3, PipeEmpty DEF Halts, StopGroup, FailsToStart
  <2>4. CASE Renews \/ Starts \/ Skips
    <3>1. pipe # <<>> /\ pipe' = Tail(pipe) /\ phase' \in {"ready", "running"}
      BY <2>4 DEF Renews, Starts, Skips, Listening
    <3> QED BY <1>0, <2>2, <3>1, PipeTail
  <2> QED BY <2>1, <2>3, <2>4
<1>8. CASE KillGroup
  <2>1. pipe = <<>> /\ pipe' = pipe
    BY <1>0, <1>8 DEF KillGroup, PipeInv, Listening
  <2> QED BY <2>1, PipeEmpty
<1>9. CASE SupervisorDies
  BY <1>9, PipeEmpty DEF SupervisorDies
<1> QED BY <1>1, <1>2, <1>3, <1>4, <1>5, <1>6, <1>7, <1>8, <1>9
        DEF Next, Local, Supervisor, Beats, Agent, Aside, Tells

LEMMA LeaseKept == ASSUME SupervisionInv, Next PROVE LeaseInv'
<1>0. /\ expiry <= lease /\ heard <= lease /\ lease \in 0..Lease /\ expiry \in 0..Lease
      /\ heard \in 0..Lease
  BY DEF SupervisionInv, LeaseInv, TypeOK
<1> USE SupervisionNumbers DEF LeaseInv, serverVars, handleVars, beatVars, mainVars, processVars,
        agentVars
<1>1. CASE NextStage \/ CommandEnds \/ RuntimeExits \/ Launch \/ Attach \/ SendStart
  BY <1>0, <1>1 DEF NextStage, CommandEnds, RuntimeExits, Launch, Attach, SendStart, Go
<1>2. CASE AwaitStarted \/ AwaitExit \/ KillGroup \/ SupervisorDies
  BY <1>0, <1>2 DEF AwaitStarted, AwaitExit, KillGroup, SupervisorDies
<1>3. CASE Finish \/ Complete \/ WorkerDies
  BY <1>0, <1>3 DEF Finish, Complete, WorkerDies, Freed, Kept
<1>5. CASE AgentReports \/ UpdateLost \/ RecordOutcome \/ NotifySupervisor
  BY <1>0, <1>5 DEF AgentReports, UpdateLost, RecordOutcome, NotifySupervisor
<1>6. CASE RequestCancel \/ SweepExpired \/ SessionTimer \/ Shutdown
  BY <1>0, <1>6 DEF RequestCancel, SweepExpired, SessionTimer, Shutdown
<1>7. CASE StartAttempt \/ StartStage \/ CompleteStage
  BY <1>0, <1>7 DEF StartAttempt, StartStage, CompleteStage
<1>8. CASE HeartbeatAttempt
  BY <1>0, <1>8 DEF HeartbeatAttempt
<1>9. CASE HeartbeatAnswered \/ HeartbeatFailed
  BY <1>0, <1>9 DEF HeartbeatAnswered, HeartbeatFailed
<1>10. CASE Tick
  BY <1>0, <1>10 DEF Tick, Less
<1>11. CASE ReadCommand \/ Wake
  BY <1>0, <1>11, ReadIs, WakeIs DEF Others
<1> QED BY <1>1, <1>2, <1>3, <1>5, <1>6, <1>7, <1>8, <1>9, <1>10, <1>11
        DEF Next, Local, Supervisor, Beats, Agent

-----------------------------------------------------------------------------
(* The group and its time *)

LEMMA GroupAway == ASSUME phase' \in {"none", "gone"} PROVE GroupInv'
BY DEF GroupInv, Listening

LEMMA GroupFrame ==
  ASSUME GroupInv, UNCHANGED <<phase, fuse, grace, lease, began>>, why' = why \/ phase = "gone",
         GoodPipe(pipe'), attached' => attached, runtime' = "none" <=> runtime = "none"
  PROVE  GroupInv'
<1>1. Ungreeted => Ungreeted'
  BY DEF Ungreeted, GoodPipe
<1>2. Armed => Armed'
  BY DEF Armed
<1> QED BY <1>1, <1>2 DEF GroupInv, Listening

LEMMA GroupHalts ==
  ASSUME SupervisionInv, Halts, lease' = lease PROVE GroupInv'
<1>1. PICK r \in {"cancelled", "timeout", "lease_lost", "supervisor_error", "parent_lost",
                  "outcome_reported", "exited"}, left \in {0, Grace, OutcomeGrace} :
        /\ Listening /\ StopGroup(r, left) /\ UNCHANGED <<clean, runtime, began>>
        /\ \/ r \notin {"outcome_reported", "exited"} /\ left = Grace
           \/ r = "outcome_reported" /\ phase = "running" /\ fuse > 0 /\ left = OutcomeGrace
           \/ r = "exited" /\ phase = "running" /\ left = 0
  BY DEF Halts
<1>2. /\ phase' = "stopping" /\ why' = r /\ grace' = left /\ runtime' = runtime /\ began' = began
      /\ phase \in {"ready", "running"}
  BY <1>1 DEF StopGroup, Listening
<1>3. /\ phase = "ready" => runtime = "none"
      /\ phase = "running" => Armed /\ (lease >= Grace \/ lease >= began)
      /\ lease \in 0..Lease /\ fuse \in 0..Lease /\ began \in 0..Lease
  BY DEF SupervisionInv, GroupInv, TypeOK, MoreTypes
<1>4. CASE phase = "running"
  <2>1. CASE left = Grace
    BY <1>2, <1>3, <1>4, <2>1, SupervisionNumbers DEF GroupInv, Listening
  <2>2. CASE r = "outcome_reported" /\ fuse > 0 /\ left = OutcomeGrace
    BY <1>2, <1>3, <1>4, <2>2, SupervisionNumbers DEF GroupInv, Listening, Armed
  <2>3. CASE left = 0
    BY <1>2, <1>3, <1>4, <2>3, SupervisionNumbers DEF GroupInv, Listening
  <2> QED BY <1>1, <2>1, <2>2, <2>3
<1> QED BY <1>2, <1>3, <1>4 DEF GroupInv, Listening

LEMMA GroupKept == ASSUME SupervisionInv, Next PROVE GroupInv'
<1>0. /\ GroupInv /\ PipeInv /\ ControlInv
      /\ lease \in 0..Lease /\ fuse \in 0..Lease /\ grace \in 0..(Grace + OutcomeGrace)
      /\ began \in 0..Lease /\ runtime \in {"none", "alive", "dead"}
      /\ phase \in {"none", "ready", "running", "stopping", "gone"}
      /\ GoodPipe(pipe)
  BY PipeIsQuiet DEF SupervisionInv, TypeOK, MoreTypes, Quiet
<1> USE DEF serverVars, handleVars, beatVars, mainVars, processVars, agentVars
<1>1. CASE Aside
  <2>0. /\ UNCHANGED <<phase, pipe, fuse, grace, lease, began>>
        /\ why' = why \/ phase = "gone"
    BY <1>1, AsideKeeps
  <2>1. CASE AwaitExit \/ CommandEnds
    <3>1. phase' \in {"none", "gone"}
      BY <1>0, <2>0, <2>1 DEF AwaitExit, ReadExit, Unheard, CommandEnds, Go, ControlInv, Away
    <3> QED BY <3>1, GroupAway
  <2>2. CASE ~ (AwaitExit \/ CommandEnds)
    <3>1. (attached' => attached) /\ (runtime' = "none" <=> runtime = "none")
      <4>1. CASE NextStage \/ RuntimeExits \/ AgentReports \/ UpdateLost
        BY <4>1 DEF NextStage, RuntimeExits, AgentReports, UpdateLost
      <4>2. CASE AwaitStarted
        BY <4>2 DEF AwaitStarted, ReadExit
      <4>3. CASE Finish \/ Complete \/ WorkerDies
        BY <4>3 DEF Finish, Complete, WorkerDies, Freed, Kept
      <4>4. CASE RecordOutcome \/ RequestCancel \/ SweepExpired
        BY <4>4 DEF RecordOutcome, RequestCancel, SweepExpired
      <4> QED BY <1>1, <2>2, <4>1, <4>2, <4>3, <4>4 DEF Aside
    <3>2. GoodPipe(pipe')
      BY <1>0, <2>0 DEF GoodPipe
    <3> QED BY <1>0, <2>0, <3>1, <3>2, GroupFrame
  <2> QED BY <2>1, <2>2
<1>2. CASE Tells
  <2>0. UNCHANGED <<phase, fuse, grace, why, lease, attached, began>> /\ GoodPipe(pipe')
    BY <1>2, TellsKeeps, TellsQuietly DEF Quiet
  <2>1. phase \in {"none", "gone"} \/ runtime' = runtime
    <3>1. CASE StartStage
      BY <1>0, <3>1 DEF StartStage, ControlInv, Away, CallFailed, AfterStop, SupervisionInv,
                        MoreTypes, TypeOK
    <3>2. CASE ~StartStage
      <4>1. CASE HeartbeatAnswered \/ HeartbeatFailed \/ SessionTimer \/ Shutdown
        BY <4>1 DEF HeartbeatAnswered, HeartbeatFailed, SessionTimer, Shutdown
      <4>2. CASE StartAttempt \/ CompleteStage \/ NotifySupervisor
        BY <4>2 DEF StartAttempt, CompleteStage, NotifySupervisor
      <4> QED BY <1>2, <3>2, <4>1, <4>2 DEF Tells
    <3> QED BY <3>1, <3>2
  <2> QED BY <1>0, <2>0, <2>1, GroupFrame, GroupAway
<1>3. CASE HeartbeatAttempt
  <2>1. /\ UNCHANGED <<phase, fuse, grace, why, began, runtime, attached, pipe>>
        /\ lease' = Lease \/ lease' = lease
    BY <1>3 DEF HeartbeatAttempt
  <2>2. Ungreeted => Ungreeted'
    BY <2>1 DEF Ungreeted
  <2>3. Armed => Armed'
    BY <1>0, <2>1, SupervisionNumbers DEF Armed
  <2> QED BY <1>0, <2>1, <2>2, <2>3, SupervisionNumbers DEF GroupInv, Listening
<1>4. CASE Tick
  <2>1. /\ UNCHANGED <<phase, why, began, runtime, attached, pipe>>
        /\ lease' = lease \/ (lease' = lease - 1 /\ lease > 0) \/ (lease' = 0 /\ lease = 0)
        /\ Listening => fuse > 0 /\ fuse' = fuse - 1 /\ pipe = <<>>
        /\ phase = "stopping" => grace > 0 /\ grace' = grace - 1
    BY <1>0, <1>4 DEF Tick, Less, Prompt, Listening
  <2>2. Ungreeted => Ungreeted'
    BY <2>1 DEF Ungreeted
  <2>3. Listening /\ Armed => Armed' /\ lease' >= Grace
    BY <1>0, <2>1, SupervisionNumbers DEF Armed
  <2>4. phase = "stopping" => GroupInv'
    BY <1>0, <2>1, SupervisionNumbers DEF GroupInv, Listening
  <2>5. phase # "stopping" => GroupInv'
    BY <1>0, <2>1, <2>2, <2>3 DEF GroupInv, Listening
  <2> QED BY <2>4, <2>5
<1>5. CASE Launch
  <2>1. \/ phase' \in {"none", "gone"}
        \/ phase' = "ready" /\ runtime' = "none" /\ attached' = FALSE /\ pipe' = <<>>
    BY <1>0, <1>5 DEF Launch, ControlInv, Away, PipeInv, Listening
  <2> QED BY <2>1, GroupAway DEF GroupInv, Listening, Ungreeted
<1>6. CASE Attach
  <2>1. UNCHANGED <<phase, fuse, grace, why, lease, began, runtime>> /\ pipe = <<>> /\ ~attached
    BY <1>0, <1>6 DEF Attach, Go, ControlInv
  <2>2. Listening => pipe' # <<>> /\ Head(pipe').name \in {"renew", "stop"}
    BY <1>6, AttachIs
  <2>3. Armed => Armed'
    BY <2>1 DEF Armed
  <2>4. Listening /\ Ungreeted => Ungreeted'
    BY <2>1, <2>2 DEF Ungreeted
  <2> QED BY <1>0, <2>1, <2>3, <2>4 DEF GroupInv, Listening
<1>7. CASE SendStart
  BY <1>0, <1>7, SendStartIs, GroupFrame
<1>8. CASE ReadCommand \/ Wake
  <2>1. UNCHANGED Others /\ (Halts \/ Renews \/ Starts \/ FailsToStart \/ Skips)
    BY <1>8, ReadIs, WakeIs
  <2>2. lease' = lease /\ attached' = attached
    BY <2>1 DEF Others
  <2>3. CASE Halts
    BY <2>2, <2>3, GroupHalts
  <2>4. CASE Renews
    <3>1. Armed'
      BY <1>0, <2>2, <2>4, SupervisionNumbers DEF Renews, Armed, StopDelay
    <3> QED BY <1>0, <2>2, <2>4, <3>1 DEF Renews, GroupInv, Listening
  <2>5. CASE Starts
    BY <1>0, <2>2, <2>5 DEF Starts, GroupInv, Listening, Armed
  <2>6. CASE FailsToStart
    BY <2>6, GroupAway DEF FailsToStart
  <2>7. CASE Skips
    BY <1>0, <2>2, <2>7 DEF Skips, GroupInv, Listening, Armed
  <2> QED BY <2>1, <2>3, <2>4, <2>5, <2>6, <2>7
<1>9. CASE KillGroup \/ SupervisorDies
  BY <1>9, GroupAway DEF KillGroup, SupervisorDies
<1> QED BY <1>1, <1>2, <1>3, <1>4, <1>5, <1>6, <1>7, <1>8, <1>9
        DEF Next, Local, Supervisor, Beats, Agent, Aside, Tells

-----------------------------------------------------------------------------
(* Who may be alive *)

\* The calls, timers and answers that move nobody.
LEMMA ControlFrame ==
  ASSUME ControlInv, UNCHANGED <<step, at, kind, runtime, phase, clean, why, attached, fate>>,
         Quiet(pipe')
  PROVE  ControlInv'
<1>1. Unstarted => Unstarted'
  BY DEF Unstarted, Quiet, NoStart
<1>2. step = "attach" /\ pipe = <<>> => pipe' = <<>>
  BY DEF ControlInv, Quiet, GoodPipe
<1> QED BY <1>1, <1>2 DEF ControlInv, Away, Supervised

LEMMA ControlTold ==
  ASSUME SupervisionInv,
         \/ HeartbeatAttempt \/ HeartbeatAnswered \/ HeartbeatFailed \/ SessionTimer \/ Shutdown
         \/ AgentReports \/ UpdateLost \/ RecordOutcome \/ NotifySupervisor \/ RequestCancel
         \/ SweepExpired \/ Tick
  PROVE  ControlInv'
<1>0. ControlInv /\ Quiet(pipe)
  BY PipeIsQuiet DEF SupervisionInv
<1>1. Tells => Quiet(pipe')
  BY TellsQuietly
<1> USE DEF serverVars, handleVars, beatVars, mainVars, processVars, agentVars
<1>2. Quiet(pipe')
  <2>1. CASE Tells
    BY <1>1, <2>1
  <2>2. CASE ~Tells
    <3>1. pipe' = pipe
      BY <2>2 DEF Tells, HeartbeatAttempt, AgentReports, UpdateLost, RecordOutcome, RequestCancel,
                  SweepExpired, Tick
    <3> QED BY <1>0, <3>1 DEF Quiet, GoodPipe
  <2> QED BY <2>1, <2>2
<1>3. UNCHANGED <<step, at, kind, runtime, phase, clean, why, attached, fate>>
  <2>1. CASE HeartbeatAttempt \/ HeartbeatAnswered \/ HeartbeatFailed
    BY <2>1 DEF HeartbeatAttempt, HeartbeatAnswered, HeartbeatFailed
  <2>2. CASE SessionTimer \/ Shutdown \/ Tick
    BY <2>2 DEF SessionTimer, Shutdown, Tick
  <2>3. CASE AgentReports \/ UpdateLost \/ RecordOutcome \/ NotifySupervisor
    BY <2>3 DEF AgentReports, UpdateLost, RecordOutcome, NotifySupervisor
  <2>4. CASE RequestCancel \/ SweepExpired
    BY <2>4 DEF RequestCancel, SweepExpired
  <2> QED BY <2>1, <2>2, <2>3, <2>4
<1> QED BY <1>0, <1>2, <1>3, ControlFrame

LEMMA ControlOfStages ==
  ASSUME SupervisionInv, StartAttempt \/ StartStage \/ CompleteStage
  PROVE  ControlInv'
<1>0. /\ ControlInv /\ Quiet(pipe') /\ runtime \in {"none", "alive", "dead"}
      /\ UNCHANGED <<phase, why, clean, attached, kind>>
      /\ kind \in [Stage -> {"agent", "code"}] /\ at \in Stage
  BY TellsQuietly, TellsKeeps DEF SupervisionInv, TypeOK, MoreTypes, Tells
<1>1. Unstarted /\ runtime' = runtime => Unstarted'
  BY <1>0 DEF Unstarted, Quiet, NoStart
<1> USE DEF agentVars
<1>2. CASE StartAttempt
  <2>1. /\ UNCHANGED <<at, runtime>> /\ step \in {"start", "started"}
        /\ \/ step' = IF step = "start" THEN "stage" ELSE "wait"
           \/ step' = AfterStop
    <3>1. \A r : CallFailed(r) => step' = AfterStop
      BY DEF CallFailed
    <3> QED BY <1>2, <3>1 DEF StartAttempt
  <2> QED BY <1>0, <1>1, <2>1 DEF ControlInv, Away, Supervised, AfterStop
<1>3. CASE StartStage
  <2>1. /\ UNCHANGED at /\ step = "stage" /\ runtime' = IF step' = "command" THEN "alive" ELSE runtime
        /\ \/ step' = IF kind[at] = "agent" THEN "send" ELSE "command"
           \/ step' = AfterStop
    BY <1>3 DEF StartStage, CallFailed
  <2> QED BY <1>0, <1>1, <2>1 DEF ControlInv, Away, Supervised, AfterStop
<1>4. CASE CompleteStage
  <2>1. /\ UNCHANGED runtime /\ step = "report"
        /\ \/ step' = "finish" /\ at' = at
           \/ step' = "next" /\ fate = "succeeded"
    BY <1>4 DEF CompleteStage
  <2>2. kind'[at'] = "code" \/ kind'[at'] = "agent"
    <3>1. at' \in Stage
      BY <1>4, StageTypes DEF TypeInv, TypeOK
    <3> QED BY <1>0, <3>1
  <2>3. kind[at] = "code" \/ kind[at] = "agent"
    BY <1>0
  <2> QED BY <1>0, <2>1, <2>2, <2>3 DEF ControlInv, Away, Supervised
<1> QED BY <1>2, <1>3, <1>4

LEMMA ControlOfProcess ==
  ASSUME SupervisionInv, NextStage \/ Launch \/ Attach \/ SendStart \/ AwaitStarted \/ AwaitExit
  PROVE  ControlInv'
<1>0. /\ ControlInv /\ runtime \in {"none", "alive", "dead"} /\ kind[at] \in {"agent", "code"}
      /\ phase \in {"none", "ready", "running", "stopping", "gone"}
      /\ (~Listening => pipe = <<>>)
  BY DEF SupervisionInv, TypeOK, MoreTypes, PipeInv
<1> USE DEF serverVars, handleVars, beatVars, mainVars, processVars, agentVars
<1>1. CASE NextStage
  <2>1. /\ UNCHANGED <<at, kind, runtime, phase, clean, why, attached>> /\ step = "next"
        /\ \/ step' = IF kind[at] = "agent" THEN "launch" ELSE IF First THEN "start" ELSE "stage"
           \/ step' = "finish"
    BY <1>1 DEF NextStage
  <2> QED BY <1>0, <2>1 DEF ControlInv, Away, Supervised
<1>2. CASE Launch
  <2>1. /\ UNCHANGED <<at, kind, pipe>> /\ runtime' = "none" /\ attached' = FALSE
        /\ step = "launch" /\ Away /\ pipe = <<>> /\ kind[at] = "agent"
        /\ \/ step' = "attach" /\ phase' = "ready" /\ why' = "none" /\ clean' = TRUE
           \/ step' = "finish" /\ UNCHANGED <<phase, why, clean>>
    BY <1>0, <1>2 DEF Launch, ControlInv, Away, Listening
  <2>2. pipe' = <<>> /\ why' = "none" => Unstarted'
    BY <2>1 DEF Unstarted
  <2> QED BY <1>0, <2>1, <2>2 DEF ControlInv, Away, Supervised
<1>3. CASE Attach
  <2>1. /\ UNCHANGED <<at, kind, runtime, phase, clean, why>> /\ attached' = TRUE
        /\ step = "attach" /\ step' = IF First THEN "start" ELSE "stage"
        /\ kind[at] = "agent" /\ pipe = <<>> /\ Unstarted
    BY <1>0, <1>3 DEF Attach, Go, ControlInv
  <2>2. Unstarted'
    <3>1. CASE Listening
      BY <1>3, <2>1, <3>1, AttachIs DEF Unstarted, NoStart
    <3>2. CASE ~Listening
      BY <1>3, <2>1, <3>2, AttachIs DEF Unstarted
    <3> QED BY <3>1, <3>2
  <2> QED BY <1>0, <2>1, <2>2 DEF ControlInv, Away, Supervised
<1>4. CASE SendStart
  <2>1. /\ UNCHANGED <<at, kind, runtime, phase, why, attached>>
        /\ step = "send" /\ kind[at] = "agent" /\ attached /\ runtime = "none"
        /\ why # "outcome_reported"
        /\ \/ step' = "await" /\ clean' = clean
           \/ step' = "finish" /\ phase = "gone"
    BY <1>0, <1>4 DEF SendStart, ControlInv, Unstarted
  <2> QED BY <1>0, <2>1 DEF ControlInv, Away, Supervised
<1>5. CASE AwaitStarted
  <2>1. /\ UNCHANGED <<at, kind, phase, attached>> /\ (why' = "outcome_reported" => why' = why)
        /\ step = "await" /\ kind[at] = "agent" /\ attached
        /\ \/ step' \in {"started", "wait"} /\ UNCHANGED <<clean, runtime>>
           \/ step' = "finish" /\ phase = "gone" /\ (clean => clean')
              /\ (runtime' = "alive" => runtime = "alive" /\ clean' = clean)
    BY <1>0, <1>5 DEF AwaitStarted, ReadExit, Unheard, ControlInv
  <2> QED BY <1>0, <2>1 DEF ControlInv, Away, Supervised
<1>6. CASE AwaitExit
  <2>1. /\ UNCHANGED <<at, kind, phase, attached>> /\ kind[at] = "agent" /\ attached
        /\ phase = "gone" /\ step \in {"wait", "reap"}
    BY <1>0, <1>6 DEF AwaitExit, ReadExit, Unheard, ControlInv
  <2>2. CASE Unheard /\ UNCHANGED <<step, fate, clean, runtime>>
    BY <1>0, <2>1, <2>2 DEF Unheard, ControlInv, Away, Supervised
  <2>3. CASE ~ (Unheard /\ UNCHANGED <<step, fate, clean, runtime>>)
    <3>1. /\ why' = why
          /\ step' = IF step = "wait" THEN "report" ELSE "finish"
          /\ (clean => clean') /\ runtime' \in {runtime, "dead"}
          /\ (~clean /\ clean' => runtime' # "alive") /\ (clean => runtime' = runtime)
          /\ (fate' = "succeeded" => why = "outcome_reported" \/ clean)
      BY <1>6, <2>3 DEF AwaitExit, ReadExit, TerminalState
    <3>2. runtime' = "alive" => runtime = "alive"
      BY <3>1
    <3> QED BY <1>0, <2>1, <3>1, <3>2 DEF ControlInv, Away, Supervised
  <2> QED BY <2>2, <2>3
<1> QED BY <1>1, <1>2, <1>3, <1>4, <1>5, <1>6

LEMMA ControlOfEnd ==
  ASSUME SupervisionInv, CommandEnds \/ Finish \/ Complete \/ WorkerDies \/ RuntimeExits
  PROVE  ControlInv'
<1>0. /\ ControlInv /\ runtime \in {"none", "alive", "dead"} /\ kind[at] \in {"agent", "code"}
  BY DEF SupervisionInv, TypeOK, MoreTypes
<1> USE DEF serverVars, handleVars, beatVars, mainVars, processVars, agentVars
<1>1. CASE CommandEnds
  <2>1. /\ UNCHANGED <<at, kind, phase, clean, why, attached>> /\ runtime' = "dead"
        /\ step = "command" /\ step' = "report" /\ kind[at] = "code"
    BY <1>0, <1>1 DEF CommandEnds, Go, ControlInv
  <2> QED BY <1>0, <2>1 DEF ControlInv, Away, Supervised
<1>2. CASE Finish
  <2>1. /\ UNCHANGED <<at, kind, phase, clean, why, runtime>> /\ step = "finish" /\ Away
        /\ \/ step' = "done" /\ attached' = FALSE
           \/ step' = "complete" /\ attached' = attached /\ ~StillActive
    BY <1>0, <1>2 DEF Finish, Freed, Kept, ControlInv
  <2>2. step' = "complete" => ~Supervised
    BY <1>0, <2>1 DEF ControlInv, Away, StillActive
  <2> QED BY <1>0, <2>1, <2>2 DEF ControlInv, Away, Supervised
<1>3. CASE Complete
  <2>1. /\ UNCHANGED <<at, kind, phase, clean, why, runtime>> /\ step = "complete" /\ Away
        /\ step' = "done" /\ attached' = FALSE
    BY <1>0, <1>3 DEF Complete, Freed, ControlInv
  <2> QED BY <1>0, <2>1 DEF ControlInv, Away, Supervised
<1>4. CASE WorkerDies
  <2>1. /\ UNCHANGED <<at, kind, phase, clean, why, runtime>> /\ step' = "dead"
        /\ attached' = FALSE
    BY <1>4 DEF WorkerDies, Freed
  <2> QED BY <1>0, <2>1 DEF ControlInv, Away, Supervised
<1>5. CASE RuntimeExits
  <2>1. /\ UNCHANGED <<step, at, kind, phase, clean, why, attached, pipe, fate>>
        /\ runtime = "alive" /\ runtime' = "dead"
    BY <1>5 DEF RuntimeExits
  <2>2. ~Unstarted
    BY <2>1 DEF Unstarted
  <2> QED BY <1>0, <2>1, <2>2 DEF ControlInv, Away, Supervised
<1> QED BY <1>1, <1>2, <1>3, <1>4, <1>5

LEMMA ControlOfSupervisor ==
  ASSUME SupervisionInv, ReadCommand \/ Wake \/ KillGroup \/ SupervisorDies
  PROVE  ControlInv'
<1>0. /\ ControlInv /\ runtime \in {"none", "alive", "dead"} /\ kind[at] \in {"agent", "code"}
      /\ pipe \in Seq(Commands) /\ (~Listening => pipe = <<>>)
  BY DEF SupervisionInv, TypeOK, MoreTypes, PipeInv
<1> USE DEF serverVars, handleVars, beatVars, mainVars, processVars, agentVars
<1>1. CASE ReadCommand \/ Wake
  <2>1. UNCHANGED Others /\ (Halts \/ Renews \/ Starts \/ FailsToStart \/ Skips)
    BY <1>1, ReadIs, WakeIs
  <2>2. UNCHANGED <<step, at, kind, attached, fate, clean>>
    BY <2>1 DEF Others, Halts, Renews, Starts, FailsToStart, Skips
  <2>3. ~Away
    BY <2>1 DEF Halts, Renews, Starts, FailsToStart, Skips, Listening, Away
  <2>4. CASE Halts
    <3>1. UNCHANGED runtime /\ phase' = "stopping" /\ pipe' = <<>>
            /\ (why' = "outcome_reported" => phase = "running")
      BY <2>4 DEF Halts, StopGroup
    <3>2. Unstarted /\ why' # "outcome_reported" => Unstarted'
      BY <3>1 DEF Unstarted
    <3>3. phase = "running" => ~Unstarted
      BY DEF SupervisionInv, GroupInv, Unstarted
    <3> QED BY <1>0, <2>2, <2>3, <3>1, <3>2, <3>3 DEF ControlInv, Away, Supervised
  <2>5. CASE Starts \/ FailsToStart
    <3>1. ~Unstarted
      BY <1>0, <2>5, Tails DEF Starts, FailsToStart, Unstarted
    <3>2. /\ phase = "ready" /\ pipe # <<>>
          /\ \/ phase' = "running"
             \/ phase' = "gone" /\ why' = "supervisor_error" /\ runtime' = runtime
      BY <2>5 DEF Starts, FailsToStart
    <3>3. Supervised => ~Starts /\ ~FailsToStart
      BY DEF SupervisionInv, GroupInv, Supervised, Starts, FailsToStart
    <3> QED BY <1>0, <2>2, <2>3, <2>5, <3>1, <3>2, <3>3 DEF ControlInv, Away, Supervised
  <2>6. CASE Renews \/ Skips
    <3>1. UNCHANGED <<runtime, phase, why>> /\ pipe # <<>> /\ pipe' = Tail(pipe)
      BY <2>6 DEF Renews, Skips
    <3>2. \A i \in 1..Len(pipe') : i + 1 \in 1..Len(pipe) /\ pipe'[i] = pipe[i + 1]
      BY <1>0, <3>1, Tails
    <3>3. Unstarted => Unstarted'
      BY <3>1, <3>2 DEF Unstarted
    <3> QED BY <1>0, <2>2, <3>1, <3>3 DEF ControlInv, Away, Supervised
  <2> QED BY <2>1, <2>4, <2>5, <2>6
<1>2. CASE KillGroup
  <2>1. /\ UNCHANGED <<step, at, kind, attached, fate, pipe>> /\ phase = "stopping"
        /\ phase' = "gone"
        /\ \/ clean' = TRUE /\ runtime' = (IF runtime = "alive" THEN "dead" ELSE runtime)
              /\ why' = why
           \/ clean' = FALSE /\ runtime # "none" /\ why' # "outcome_reported"
    BY <1>2 DEF KillGroup, Verified, Unverified
  <2>2. Unstarted => Unstarted' /\ clean' = TRUE
    BY <1>0, <2>1 DEF Unstarted
  <2>3. ~Away
    BY <2>1 DEF Away
  <2> QED BY <1>0, <2>1, <2>2, <2>3 DEF ControlInv, Away, Supervised
<1>3. CASE SupervisorDies
  <2>1. /\ UNCHANGED <<step, at, kind, attached, fate, runtime>> /\ ~Away /\ phase' = "gone"
        /\ why' = "crashed" /\ clean' = FALSE /\ pipe' = <<>> /\ step # "dead"
    BY <1>3 DEF SupervisorDies, Away
  <2>2. Unstarted => Unstarted'
    BY <2>1 DEF Unstarted
  <2> QED BY <1>0, <2>1, <2>2 DEF ControlInv, Away, Supervised
<1> QED BY <1>1, <1>2, <1>3

LEMMA ControlKept == ASSUME SupervisionInv, Next PROVE ControlInv'
BY ControlTold, ControlOfStages, ControlOfProcess, ControlOfEnd, ControlOfSupervisor
   DEF Next, Local, Supervisor, Beats, Agent

-----------------------------------------------------------------------------
(* How the attempt ends *)

LEMMA CompleteEnds == ASSUME SupervisionInv, Complete PROVE EndInv'
<1>1. /\ step' = "done" /\ UNCHANGED <<kind, at, runtime, phase, outcome>>
      /\ server' = server \/ server' = End
      /\ Away /\ ~Supervised /\ server \notin Ends
  BY DEF Complete, Freed, processVars, SupervisionInv, ControlInv, EndInv
<1>2. End = "succeeded" => outcome
  BY DEF End, Unreported
<1> QED BY <1>1, <1>2 DEF EndInv, Away, Supervised, Ends

\* Every other step leaves an attempt that has ended alone, and ends none.
LEMMA EndKept == ASSUME SupervisionInv, Next PROVE EndInv'
<1>0. /\ EndInv /\ (~Listening => pipe = <<>>)
      /\ (kind[at] = "code" /\ step # "dead" => Away)
  BY DEF SupervisionInv, PipeInv, ControlInv
<1>1. ASSUME UNCHANGED <<step, at, kind, phase, completion>>,
             server' = server \/ server' \notin Ends, outcome => outcome',
             runtime' = "alive" => runtime = "alive"
      PROVE  EndInv'
  BY <1>0, <1>1 DEF EndInv, Away, Supervised, Ends
<1>2. ASSUME step # "done", UNCHANGED completion, outcome => outcome',
             server' = server \/ server' \notin Ends
      PROVE  EndInv'
  BY <1>0, <1>2 DEF EndInv, Ends
<1> USE DEF serverVars, handleVars, beatVars, mainVars, processVars, agentVars
<1>3. CASE HeartbeatAttempt \/ HeartbeatAnswered \/ HeartbeatFailed \/ SessionTimer \/ Shutdown
  BY <1>1, <1>3 DEF HeartbeatAttempt, HeartbeatAnswered, HeartbeatFailed, SessionTimer, Shutdown
<1>4. CASE RuntimeExits \/ AgentReports \/ UpdateLost \/ RecordOutcome \/ NotifySupervisor
  BY <1>1, <1>4 DEF RuntimeExits, AgentReports, UpdateLost, RecordOutcome, NotifySupervisor
<1>5. CASE RequestCancel \/ Tick
  BY <1>1, <1>5 DEF RequestCancel, Tick
<1>6. CASE SweepExpired
  BY <1>1, <1>6 DEF SweepExpired, Ends
<1>7. CASE NextStage \/ Launch \/ Attach \/ SendStart \/ AwaitStarted \/ AwaitExit
  BY <1>2, <1>7 DEF NextStage, Launch, Attach, Go, SendStart, AwaitStarted, AwaitExit
<1>8. CASE CommandEnds \/ StartStage \/ CompleteStage \/ Finish \/ WorkerDies
  BY <1>2, <1>8 DEF CommandEnds, Go, StartStage, CompleteStage, Finish, WorkerDies
<1>9. CASE StartAttempt
  <2>1. /\ step \in {"start", "started"} /\ UNCHANGED <<completion, outcome>>
        /\ server' = server \/ server' = "running"
    BY <1>9 DEF StartAttempt, Accepted
  <2> QED BY <1>2, <2>1 DEF Ends
<1>10. CASE Complete
  BY <1>10, CompleteEnds
<1>11. CASE ReadCommand \/ Wake
  <2>1. UNCHANGED Others /\ (Halts \/ Renews \/ Starts \/ FailsToStart \/ Skips)
    BY <1>11, ReadIs, WakeIs
  <2>2. ~Away /\ UNCHANGED <<completion, server, outcome>>
    BY <2>1 DEF Others, Halts, Renews, Starts, FailsToStart, Skips, Listening, Away
  <2> QED BY <1>0, <2>2 DEF EndInv
<1>12. CASE KillGroup \/ SupervisorDies
  <2>1. ~Away /\ UNCHANGED <<completion, server, outcome>>
    BY <1>12 DEF KillGroup, SupervisorDies, Away
  <2> QED BY <1>0, <2>1 DEF EndInv
<1> QED BY <1>3, <1>4, <1>5, <1>6, <1>7, <1>8, <1>9, <1>10, <1>11, <1>12
        DEF Next, Local, Supervisor, Beats, Agent

-----------------------------------------------------------------------------
(* The theorem *)

LEMMA SupervisionStep == ASSUME SupervisionInv, [Next]_vars PROVE SupervisionInv'
<1>1. CASE Next
  <2>1. TypeInv'
    BY <1>1, BeatTypes, TimerTypes, AgentTypes, SupervisorTypes, StageTypes, LocalTypes
       DEF Next, Local, Supervisor, Beats
  <2> QED BY <1>1, <2>1, PipeKept, LeaseKept, GroupKept, ControlKept, EndKept
          DEF SupervisionInv, TypeInv
<1>2. CASE UNCHANGED vars
  <2> USE <1>2 DEF vars, serverVars, handleVars, beatVars, mainVars, processVars, agentVars
  <2>1. TypeOK' /\ MoreTypes'
    BY DEF SupervisionInv, TypeOK, MoreTypes
  <2>2. PipeInv'
    BY PipeSame DEF SupervisionInv
  <2>3. LeaseInv'
    BY DEF SupervisionInv, LeaseInv
  <2>4. GroupInv'
    BY PipeIsQuiet, GroupFrame DEF SupervisionInv, Quiet, GoodPipe
  <2>5. ControlInv'
    BY PipeIsQuiet, ControlFrame DEF SupervisionInv, Quiet, GoodPipe
  <2>6. EndInv'
    BY DEF SupervisionInv, EndInv, Away, Supervised
  <2> QED BY <2>1, <2>2, <2>3, <2>4, <2>5, <2>6 DEF SupervisionInv
<1> QED BY <1>1, <1>2

\* Where the agent may be alive with its lease at an end, its group is being stopped.
LEMMA InvImpliesSafe == ASSUME SupervisionInv PROVE SupervisionSafe
<1>0. /\ lease \in 0..Lease /\ grace \in 0..(Grace + OutcomeGrace) /\ began \in 0..Lease
      /\ fuse \in 0..Lease
      /\ phase \in {"none", "ready", "running", "stopping", "gone"}
  BY DEF SupervisionInv, TypeOK, MoreTypes
<1>1. ASSUME Supervised, lease = 0, phase # "gone"
      PROVE  /\ phase = "stopping"
             /\ \/ grace = 0
                \/ why = "outcome_reported" /\ grace + Grace <= OutcomeGrace
                \/ began < Grace /\ grace + began <= Grace
  <2>1. phase \in {"running", "stopping"} /\ runtime = "alive"
    BY <1>1 DEF SupervisionInv, ControlInv, Supervised
  <2>2. phase # "running"
    BY <1>0, <1>1, <2>1, SupervisionNumbers DEF SupervisionInv, GroupInv, Armed
  <2>3. \/ lease >= grace
        \/ lease + Grace >= grace + began
        \/ why = "outcome_reported" /\ lease + OutcomeGrace >= grace + Grace
    BY <2>1, <2>2 DEF SupervisionInv, GroupInv
  <2> QED BY <1>0, <1>1, <2>1, <2>2, <2>3, SupervisionNumbers
<1>2. RuntimeWithinLease
  BY <1>1 DEF RuntimeWithinLease
<1>3. CompletedAfterStop
  BY DEF SupervisionInv, EndInv, CompletedAfterStop
<1> QED BY <1>2, <1>3 DEF SupervisionInv, SupervisionSafe

\* At every moment of an attempt a supervised agent is alive past the end of its
\* lease only for what its group was given: the rest of the grace after a report,
\* or of one that began with less lease than that; and what is completed no longer
\* runs, a success not without its report (superviseRuntime, leaseStopDelay,
\* finishWithWorktree, CompleteAttempt).
THEOREM AgentAlwaysWithinLease == Spec => []SupervisionSafe
<1>1. Init => SupervisionInv
  BY SupervisionStart
<1>2. SupervisionInv /\ [Next]_vars => SupervisionInv'
  BY SupervisionStep
<1>3. SupervisionInv => SupervisionSafe
  BY InvImpliesSafe
<1> QED BY <1>1, <1>2, <1>3, PTL DEF Spec
=============================================================================
