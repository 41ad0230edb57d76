---------------------------- MODULE MCProtocols ----------------------------
(***************************************************************************)
(* Small components of the control plane, the worker and the command line  *)
(* side by side, for TLC: they share no state here, so a behaviour chooses *)
(* one of them and leaves the others as they began.                        *)
(***************************************************************************)
EXTENDS Naturals, TLC

CONSTANTS
  None, Foreign, Old,
  MaxTime, MaxGeneration,                             \* Schedules
  MaxAttempts, AtOnce,                                \* RecoveryPublication
  MaxTokens, MaxCredentials, MaxStops,                \* Enrollment
  Process, Scope, MaxKeys, MaxPending, MaxInterrupts, \* AdmissionJournal
  Procs, Keys, Entries,                               \* RepositoryLocks
  Repositories, MaxEntries, MaxRestarts,              \* RepositoryCache
  Capacity, Budget, MaxLines, MaxLost,                \* EventForwarding
  Work, RunLimit, Caps, MaxVersions                   \* FakeCloud

VARIABLES
  part,
  now, paused, usable, enabled, archived, revision, next, pending, frozen, retry,
  status, coded, discarded, runs, job,
  database, marker, staged, publishing, round, found,
  made, used, expired, stored, configured, file, held, trying, enrolling, answer,
  given, invented, stops,
  admissions, scopeLock, journalLock, posting, scope, key, copy, drawn, admitted,
  late, reported, interrupts,
  table, token, refs, poisoned, locking, wants, entry, waiters,
  installed, temporary, known, reserved, acquiring, restarts,
  line, queue, sent, sender, sending, log, lease, lost,
  versions, ready, halted, work, editor

Sched == INSTANCE Schedules WITH Null <- None
Recovery == INSTANCE RecoveryPublication WITH step <- publishing
Enroll == INSTANCE Enrollment WITH step <- enrolling, late <- given, crashes <- stops,
  MaxCrashes <- MaxStops
Journal == INSTANCE AdmissionJournal WITH step <- posting, journal <- admissions
Locks == INSTANCE RepositoryLocks WITH step <- locking
Cache == INSTANCE RepositoryCache
Events == INSTANCE EventForwarding WITH next <- sent, stored <- log
Cloud == INSTANCE FakeCloud WITH paused <- halted

ASSUME Constants ==
  /\ Sched!ScheduleConstants /\ Recovery!RecoveryConstants
  /\ Enroll!EnrollmentConstants /\ Journal!JournalConstants
  /\ Locks!LockConstants /\ Cache!CacheConstants /\ Events!EventConstants
  /\ Cloud!CloudConstants

schedulesVars == <<now, paused, usable, enabled, archived, revision, next, pending,
                   frozen, retry, status, coded, discarded, runs, job>>
recoveryVars == <<database, marker, staged, publishing, round, found>>
enrollmentVars == <<made, used, expired, stored, configured, file, held, trying,
                    enrolling, answer, given, invented, stops>>
journalVars == <<admissions, scopeLock, journalLock, posting, scope, key, copy,
                 drawn, admitted, late, reported, interrupts>>
locksVars == <<table, token, refs, poisoned, locking, wants, entry, waiters>>
cacheVars == <<installed, temporary, known, reserved, acquiring, restarts>>
eventsVars == <<line, queue, sent, sender, sending, log, lease, lost>>
cloudVars == <<versions, ready, halted, work, editor>>
vars == <<part, schedulesVars, recoveryVars, enrollmentVars, journalVars, locksVars,
          cacheVars, eventsVars, cloudVars>>

\* A part that rests is in one of its initial states.
Init ==
  /\ part \in {"schedules", "recovery", "enrollment", "journal", "locks", "cache",
               "events", "cloud"}
  /\ Sched!Init /\ Recovery!Init /\ Enroll!Init /\ Journal!Init
  /\ Locks!Init /\ Cache!Init /\ Events!Init /\ Cloud!Init
  /\ part = "schedules" \/ ~enabled
  /\ part = "recovery" \/ (database = None /\ marker = None)
  /\ part = "enrollment" \/ \A f \in Enroll!Files : file[f] = None
  /\ part = "cloud" \/ (ready /\ versions[1] = [cap |-> 1, outcome |-> "failed"])

Schedules(A) ==
  /\ part = "schedules" /\ A
  /\ UNCHANGED <<part, recoveryVars, enrollmentVars, journalVars, locksVars, cacheVars,
                  eventsVars, cloudVars>>
Publication(A) ==
  /\ part = "recovery" /\ A
  /\ UNCHANGED <<part, schedulesVars, enrollmentVars, journalVars, locksVars, cacheVars,
                  eventsVars, cloudVars>>
Enrollment(A) ==
  /\ part = "enrollment" /\ A
  /\ UNCHANGED <<part, schedulesVars, recoveryVars, journalVars, locksVars, cacheVars,
                  eventsVars, cloudVars>>
Admissions(A) ==
  /\ part = "journal" /\ A
  /\ UNCHANGED <<part, schedulesVars, recoveryVars, enrollmentVars, locksVars,
                  cacheVars, eventsVars, cloudVars>>
Locking(A) ==
  /\ part = "locks" /\ A
  /\ UNCHANGED <<part, schedulesVars, recoveryVars, enrollmentVars, journalVars,
                  cacheVars, eventsVars, cloudVars>>
Caching(A) ==
  /\ part = "cache" /\ A
  /\ UNCHANGED <<part, schedulesVars, recoveryVars, enrollmentVars, journalVars,
                  locksVars, eventsVars, cloudVars>>
Forwarding(A) ==
  /\ part = "events" /\ A
  /\ UNCHANGED <<part, schedulesVars, recoveryVars, enrollmentVars, journalVars,
                  locksVars, cacheVars, cloudVars>>
Dispatching(A) ==
  /\ part = "cloud" /\ A
  /\ UNCHANGED <<part, schedulesVars, recoveryVars, enrollmentVars, journalVars,
                  locksVars, cacheVars, eventsVars>>

Next ==
  \/ Schedules(Sched!Next) \/ Publication(Recovery!Next)
  \/ Enrollment(Enroll!Next) \/ Admissions(Journal!Next)
  \/ Locking(Locks!Next) \/ Caching(Cache!Next) \/ Forwarding(Events!Next)
  \/ Dispatching(Cloud!Next)

Spec == Init /\ [][Next]_vars

\* The fairness of each part, as its module states and explains it. A behaviour stays in
\* its part, so one weak fairness condition serves three of them.
FairSpec ==
  /\ Spec
  /\ SF_vars(Enrollment(Enroll!ExchangeAnswered))
  /\ SF_vars(Enrollment(Enroll!Receive))
  /\ \A p \in Procs : WF_vars(Locking(Locks!Proceeds(p)))
  /\ WF_vars(\/ Enrollment(Enroll!Local) \/ Forwarding(Events!Goroutine)
             \/ Dispatching(Cloud!Dispatch))

-----------------------------------------------------------------------------
\* Every part keeps its type invariant.
TypeOK ==
  /\ Sched!TypeOK /\ Recovery!TypeOK /\ Enroll!TypeOK /\ Journal!TypeOK
  /\ Locks!TypeOK /\ Cache!TypeOK /\ Events!TypeOK /\ Cloud!TypeOK
\* Schedules: one generation and instant create one Run, and an occurrence nobody
\* retries can be discarded (admitTask, UpdateTask).
OccurrencesRunOnce == Sched!OneRunPerInstant /\ Sched!HeldCanBeMoved
\* Schedules: a pending occurrence becomes a Run or is discarded (finishTaskOccurrence).
PendingIsKept == Sched!PendingIsKept
\* RecoveryPublication: a successful backup has both its files, and a half
\* publication is found again (publishSnapshot, recoverInterruptedRecoveryPublication).
PublicationSafe == Recovery!PublicationSafe
\* Enrollment: an accepted credential is on the worker's disk, a saved one is
\* accepted (enroll).
CredentialSafe == Enroll!CredentialSafe
\* Enrollment: a used token ends in a saved credential (ExchangeWorkerEnrollment).
UsedTokenEnrolls == Enroll!UsedTokenEnrolls
\* AdmissionJournal: an admitted Run is reported or its key kept, and no second
\* one is admitted before it is reported (loadOrCreatePendingAdmission, Complete).
AdmissionsKept == Journal!AdmissionsKept
\* RepositoryLocks implements RepositoryLock: one goroutine inside a repository, none
\* after a poison (acquire, removeReference).
LocksARepository == Locks!LocksARepository
\* RepositoryLocks: whoever waits is let in or refused (acquire).
WaitersAnswered == Locks!WaitersAnswered
\* RepositoryCache: the limit holds and nothing leaks (reserveManagedRepositoryCache).
CacheBounded == Cache!CacheBounded
\* EventForwarding: the stored log has no hole, and a sender gives up for a cause
\* (enqueue, run, AppendEvents).
LogSound == Events!LogHasNoHole /\ Events!GivesUpForCause
\* EventForwarding: what is queued is stored while the lease lasts (run).
OutputArrives == Events!OutputArrives
\* FakeCloud: the profile's and the Run's limits hold, and nothing starts on an unready
\* profile or while paused (dispatchOneFakeCloud).
CloudSound == Cloud!CloudSound
\* FakeCloud: a cancelled or overdue attempt ends (dispatchOneFakeCloud).
CancelledEnds == Cloud!CancelledEnds
=============================================================================
