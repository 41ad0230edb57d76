----------------------------- MODULE Schedules -----------------------------
(***************************************************************************)
(* The schedule of one Task.  A single scheduler goroutine moves the due   *)
(* instant aside, admits a Run for it and clears it, in three transactions *)
(* between which operators edit, archive, discard and pause, and the       *)
(* server may stop.  Instants of the cron expression are ticks.            *)
(***************************************************************************)
EXTENDS Integers

CONSTANTS
  Null,           \* an absent value
  MaxTime,        \* bound on the clock
  MaxGeneration   \* bound on edits of the Task

ScheduleConstants ==
  /\ MaxTime \in Nat \ {0} /\ MaxGeneration \in Nat \ {0}
  /\ Null \notin Nat

VARIABLES
  now,         \* the clock
  paused,      \* factory_settings.paused
  usable,      \* the repository of the Task is enabled
  enabled, archived, revision,  \* schedule_enabled, archived, generation
  next,        \* next_due_at
  pending,     \* pending_due_at
  frozen,      \* the generation in pending_snapshot_json
  retry,       \* schedule_retry_at
  status,      \* schedule_health_status
  coded,       \* schedule_health_code is not empty
  discarded,   \* last_discarded_due_at
  runs,        \* the scheduled rows of runs
  job          \* what the scheduler goroutine holds between its transactions

taskVars == <<enabled, archived, revision>>
dueVars == <<next, pending, frozen, retry, discarded>>
shownVars == <<status, coded>>
worldVars == <<now, paused, usable>>
vars == <<worldVars, taskVars, dueVars, shownVars, runs, job>>

Times == 0 .. MaxTime
Instants == 1 .. MaxTime + 1
Revisions == 1 .. MaxGeneration
Outcomes == {"none", "admitted", "paused", "permanent", "transient"}
NoJob == [due |-> Null, of |-> Null, outcome |-> "none"]

\* Instants a cron expression may name as its first one after t.
Later(t) == {i \in Instants : i > t}
Shown(on) == IF on THEN "healthy" ELSE "disabled"

TypeOK ==
  /\ now \in Times /\ paused \in BOOLEAN /\ usable \in BOOLEAN
  /\ enabled \in BOOLEAN /\ archived \in BOOLEAN /\ revision \in Revisions
  /\ archived => ~enabled
  /\ next \in Instants \union {Null} /\ pending \in Instants \union {Null}
  /\ frozen \in Revisions \union {Null} /\ (frozen = Null <=> pending = Null)
  /\ retry \in Nat \union {Null} /\ (pending = Null => retry = Null)
  /\ discarded \in Instants \union {Null}
  /\ status \in {"disabled", "healthy", "blocked", "error"} /\ coded \in BOOLEAN
  /\ \A run \in runs : run.key \in Revisions \X Instants /\ run.of \in Revisions /\ run.due \in Instants
  /\ job.outcome \in Outcomes
  /\ job # NoJob => job.due \in Instants /\ job.of \in Revisions

\* CreateTask, with or without a schedule.
Init ==
  /\ now = 0 /\ paused = FALSE /\ usable = TRUE
  /\ enabled \in BOOLEAN /\ archived = FALSE /\ revision = 1
  /\ next \in (IF enabled THEN Later(0) ELSE {Null})
  /\ pending = Null /\ frozen = Null /\ retry = Null /\ discarded = Null
  /\ status = Shown(enabled) /\ coded = FALSE
  /\ runs = {} /\ job = NoJob

-----------------------------------------------------------------------------
(* The scheduler.                                                           *)

\* claimDueTask: an occurrence already pending comes first.
ClaimDue ==
  /\ job = NoJob /\ enabled /\ ~archived
  /\ \/ /\ pending # Null /\ retry # Null /\ retry <= now
        /\ job' = [due |-> pending, of |-> frozen, outcome |-> "none"]
        /\ UNCHANGED dueVars
     \/ /\ pending = Null /\ next # Null /\ next <= now
        /\ pending' = next /\ frozen' = revision /\ retry' = now
        /\ job' = [due |-> next, of |-> revision, outcome |-> "none"]
        /\ UNCHANGED <<next, discarded>>
  /\ UNCHANGED <<worldVars, taskVars, shownVars, runs>>

\* The request key is made of the frozen generation and the due instant.
\* Mutant: of the generation the Task has by now.
KeyNow(due, of) == <<revision, due>>
Key(due, of) == <<of, due>>

Refusal ==
  CASE paused -> "paused"
    [] archived -> "permanent"
    [] ~enabled \/ pending # job.due -> "transient"
    [] ~usable -> "permanent"
    [] OTHER -> "none"

\* admitTask with a frozen snapshot; a known key answers with its Run.
Admit ==
  /\ job # NoJob /\ job.outcome = "none"
  /\ LET key == Key(job.due, job.of) IN
     \/ /\ \E run \in runs : run.key = key
        /\ job' = [job EXCEPT !.outcome = "admitted"] /\ UNCHANGED runs
     \/ /\ \A run \in runs : run.key # key
        /\ \/ /\ Refusal # "none"
              /\ job' = [job EXCEPT !.outcome = Refusal] /\ UNCHANGED runs
           \/ /\ Refusal = "none"
              /\ job' = [job EXCEPT !.outcome = "admitted"]
              /\ runs' = runs \union {[key |-> key, of |-> job.of, due |-> job.due]}
           \* a frozen snapshot that cannot run, or a busy database
           \/ /\ Refusal = "none" /\ UNCHANGED runs
              /\ \E outcome \in {"permanent", "transient"} : job' = [job EXCEPT !.outcome = outcome]
  /\ UNCHANGED <<worldVars, taskVars, dueVars, shownVars>>

\* Mutant: the retry and the snapshot stay behind.
ClearedPending == pending' = Null /\ UNCHANGED <<frozen, retry>>
Cleared == pending' = Null /\ frozen' = Null /\ retry' = Null

\* finishTaskOccurrence: nothing if the occurrence was discarded meanwhile, or
\* if it was refused and the schedule is off.
Finish ==
  /\ job.outcome # "none" /\ job' = NoJob
  /\ LET held == pending = job.due /\ (job.outcome = "admitted" \/ (enabled /\ ~archived)) IN
     \/ ~held /\ UNCHANGED <<dueVars, shownVars>>
     \/ /\ held /\ job.outcome = "admitted"
        /\ Cleared /\ next' \in Later(now) /\ UNCHANGED discarded
        /\ status' = "healthy" /\ coded' = FALSE
     \/ /\ held /\ job.outcome = "permanent"
        /\ retry' = Null /\ status' = "blocked" /\ coded' = TRUE
        /\ UNCHANGED <<next, pending, frozen, discarded>>
     \/ /\ held /\ job.outcome \in {"paused", "transient"}
        /\ retry' = now + 1 /\ coded' = TRUE
        /\ status' = IF job.outcome = "paused" THEN "blocked" ELSE "error"
        /\ UNCHANGED <<next, pending, frozen, discarded>>
  /\ UNCHANGED <<worldVars, taskVars, runs>>

\* The server stops between two transactions and is started again.
Crash ==
  /\ job # NoJob /\ job' = NoJob
  /\ UNCHANGED <<worldVars, taskVars, dueVars, shownVars, runs>>

-----------------------------------------------------------------------------
(* Operators, and time.                                                     *)

\* preserveBlockedOccurrence.  Mutant: not across a disabled schedule.
PreservedBlocked == pending # Null /\ retry = Null /\ status = "blocked"
Preserved == pending # Null /\ retry = Null /\ (status = "blocked" \/ coded)

\* UpdateTask; the next instant was computed when the request arrived, which
\* may be before the tick at which the transaction runs.
UpdateTask(on, read) ==
  /\ revision < MaxGeneration /\ revision' = revision + 1
  /\ usable /\ ~(archived /\ on) /\ read \in {now - 1, now}
  /\ enabled' = on
  /\ IF pending # Null THEN UNCHANGED next
     ELSE next' \in (IF on THEN Later(read) ELSE {Null})
  /\ status' = IF on /\ Preserved THEN "blocked" ELSE Shown(on)
  /\ coded' = (Preserved /\ coded)
  /\ UNCHANGED <<worldVars, archived, pending, frozen, retry, discarded, runs, job>>

\* Mutant: archiving drops the pending occurrence.
SetTaskArchivedDrops(to) ==
  /\ revision < MaxGeneration /\ revision' = revision + 1
  /\ archived' = to
  /\ enabled' = (enabled /\ ~to)
  /\ next' = IF to THEN Null ELSE next
  /\ status' = IF to THEN "disabled" ELSE status
  /\ Cleared
  /\ UNCHANGED <<worldVars, discarded, coded, runs, job>>

SetTaskArchived(to) ==
  /\ revision < MaxGeneration /\ revision' = revision + 1
  /\ archived' = to
  /\ enabled' = (enabled /\ ~to)
  /\ next' = IF to THEN Null ELSE next
  /\ status' = IF to THEN "disabled" ELSE status
  /\ UNCHANGED <<worldVars, pending, frozen, retry, discarded, coded, runs, job>>

DiscardTaskOccurrence ==
  /\ pending # Null /\ status \in {"blocked", "disabled"}
  /\ Cleared /\ discarded' = pending
  /\ next' \in (IF enabled THEN Later(now) ELSE {Null})
  /\ status' = Shown(enabled) /\ coded' = FALSE
  /\ UNCHANGED <<worldVars, taskVars, runs, job>>

\* SetManagedRepositoryEnabled, for the repository of the Task.
SetRepositoryEnabled(to) ==
  /\ usable # to /\ usable' = to
  /\ IF enabled /\ (~to \/ pending = Null)
     THEN status' = (IF to THEN "healthy" ELSE "blocked") /\ coded' = ~to
     ELSE UNCHANGED shownVars
  /\ UNCHANGED <<now, paused, taskVars, dueVars, runs, job>>

SetFactoryPause ==
  /\ paused' = ~paused
  /\ UNCHANGED <<now, usable, taskVars, dueVars, shownVars, runs, job>>

Tick ==
  /\ now < MaxTime /\ now' = now + 1
  /\ UNCHANGED <<paused, usable, taskVars, dueVars, shownVars, runs, job>>

Next ==
  \/ ClaimDue \/ Admit \/ Finish \/ Crash
  \/ \E on \in BOOLEAN, read \in Times : UpdateTask(on, read)
  \/ \E to \in BOOLEAN : SetTaskArchived(to) \/ SetRepositoryEnabled(to)
  \/ DiscardTaskOccurrence \/ SetFactoryPause \/ Tick

Spec == Init /\ [][Next]_vars

-----------------------------------------------------------------------------
\* INV-5 of docs/tasks/design.md: one generation and instant create one Run,
\* though the scheduler stops after an admission and the Task is edited.
OneRunPerInstant ==
  \A x, y \in runs : x.of = y.of /\ x.due = y.due => x = y

\* INV-13: a pending occurrence keeps its instant and its frozen Task until a
\* Run exists for it or an operator discards it (finishTaskOccurrence,
\* UpdateTask, SetTaskArchived).
PendingStep ==
  pending # Null /\ <<pending, frozen>>' # <<pending, frozen>> =>
    discarded' = pending \/ \E run \in runs : run.due = pending /\ run.of = frozen
PendingIsKept == [][PendingStep]_vars

\* An occurrence nobody retries any more is one an operator may discard, after
\* any sequence of edits, archiving and crashes (preserveBlockedOccurrence).
HeldCanBeMoved == pending # Null /\ retry = Null => status \in {"blocked", "disabled"}
=============================================================================
