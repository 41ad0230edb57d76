-------------------------- MODULE AdmissionJournal --------------------------
(***************************************************************************)
(* The CLI's journal of admissions whose outcome it does not know yet.     *)
(* Processes run "build" or "run" without a request key; each takes the    *)
(* lock of its scope (endpoint and inputs), finds or journals a key, posts *)
(* it once, prints the outcome and only then forgets the key.  Any process *)
(* may be interrupted between two steps, which releases its locks.         *)
(***************************************************************************)
EXTENDS Naturals, FiniteSets

CONSTANTS
  Process,
  Scope,
  None,           \* no process
  MaxKeys,        \* bound on the request keys drawn
  MaxPending,     \* maxPendingAdmissions
  MaxInterrupts   \* bound on interruptions

\* Request keys are random; they are numbered in the order they are drawn.
Key == 1 .. MaxKeys

JournalConstants ==
  /\ MaxKeys \in Nat \ {0} /\ MaxPending \in Nat \ {0} /\ MaxInterrupts \in Nat
  /\ None \notin Process /\ IsFiniteSet(Process) /\ IsFiniteSet(Scope)

VARIABLES
  journal,      \* pending.json: entries with a scope and a key
  scopeLock,    \* the process that holds the lock of a scope
  journalLock,  \* the process that holds journal.lock
  step, scope, key,  \* where a process is, and what it admits
  copy,         \* the journal as a process read it
  drawn,        \* request keys drawn
  admitted,     \* runs of the server: their keys and scopes
  late,         \* posts whose process is gone
  reported,     \* keys whose outcome was printed and flushed
  interrupts

lockVars == <<scopeLock, journalLock>>
processVars == <<step, scope, key, copy>>
serverVars == <<admitted, late>>
vars == <<journal, lockVars, processVars, drawn, serverVars, reported, interrupts>>

Entry == [scope : Scope, key : Key]
Preparing == {"locked", "reading", "drawing"}
Completing == {"printed", "rereading", "removing"}
Steps == Preparing \union Completing \union {"idle", "posting", "answered"}

TypeOK ==
  /\ journal \subseteq Entry /\ Cardinality(journal) <= MaxPending
  /\ scopeLock \in [Scope -> Process \union {None}] /\ journalLock \in Process \union {None}
  /\ step \in [Process -> Steps] /\ scope \in [Process -> Scope \union {None}]
  /\ key \in [Process -> Key \union {0}] /\ copy \in [Process -> SUBSET Entry]
  /\ drawn \in 0 .. MaxKeys /\ interrupts \in 0 .. MaxInterrupts
  /\ admitted \subseteq Entry /\ late \subseteq Entry /\ reported \subseteq Key
  /\ \A p \in Process : step[p] # "idle" => scopeLock[scope[p]] = p
  /\ \A p \in Process : step[p] \in Completing \union {"posting", "answered"} =>
       [scope |-> scope[p], key |-> key[p]] \in journal

Init ==
  /\ journal = {} /\ scopeLock = [s \in Scope |-> None] /\ journalLock = None
  /\ step = [p \in Process |-> "idle"] /\ scope = [p \in Process |-> None]
  /\ key = [p \in Process |-> 0] /\ copy = [p \in Process |-> {}]
  /\ drawn = 0 /\ admitted = {} /\ late = {} /\ reported = {} /\ interrupts = 0

-----------------------------------------------------------------------------
Mine(p) == [scope |-> scope[p], key |-> key[p]]

To(p, next) == step' = [step EXCEPT ![p] = next]

\* The process ends, its memory is gone and the system releases its locks.
End(p) ==
  /\ To(p, "idle")
  /\ scope' = [scope EXCEPT ![p] = None] /\ key' = [key EXCEPT ![p] = 0]
  /\ copy' = [copy EXCEPT ![p] = {}]
  /\ scopeLock' = [s \in Scope |-> IF scopeLock[s] = p THEN None ELSE scopeLock[s]]
  /\ journalLock' = IF journalLock = p THEN None ELSE journalLock

\* prepareImplicitAdmission; a busy scope is refused at once.
PrepareImplicitAdmission(p) ==
  /\ step[p] = "idle"
  /\ \E s \in Scope :
       /\ scopeLock[s] = None
       /\ scopeLock' = [scopeLock EXCEPT ![s] = p] /\ scope' = [scope EXCEPT ![p] = s]
  /\ To(p, "locked")
  /\ UNCHANGED <<journal, journalLock, key, copy, drawn, serverVars, reported, interrupts>>

\* withJournalLock waits for journal.lock.  Mutant: it does not.
LockJournalShared(p) ==
  /\ step[p] \in {"locked", "printed"} /\ UNCHANGED journalLock
  /\ To(p, IF step[p] = "locked" THEN "reading" ELSE "rereading")
  /\ UNCHANGED <<journal, scopeLock, scope, key, copy, drawn, serverVars, reported, interrupts>>

LockJournal(p) ==
  /\ step[p] \in {"locked", "printed"} /\ journalLock = None
  /\ journalLock' = p
  /\ To(p, IF step[p] = "locked" THEN "reading" ELSE "rereading")
  /\ UNCHANGED <<journal, scopeLock, scope, key, copy, drawn, serverVars, reported, interrupts>>

ReadAdmissionJournal(p) ==
  /\ step[p] \in {"reading", "rereading"}
  /\ copy' = [copy EXCEPT ![p] = journal]
  /\ To(p, IF step[p] = "reading" THEN "drawing" ELSE "removing")
  /\ UNCHANGED <<journal, lockVars, scope, key, drawn, serverVars, reported, interrupts>>

Found(p) == {e \in copy[p] : e.scope = scope[p]}

\* loadOrCreatePendingAdmission: an entry of the scope, a new one, or none when
\* the journal is full; the file is replaced by a rename.
UsePending(p) ==
  /\ step[p] = "drawing"
  /\ \E e \in Found(p) : key' = [key EXCEPT ![p] = e.key]
  /\ journalLock' = None /\ To(p, "posting") /\ copy' = [copy EXCEPT ![p] = {}]
  /\ UNCHANGED <<journal, scopeLock, scope, drawn, serverVars, reported, interrupts>>

CreatePending(p) ==
  /\ step[p] = "drawing" /\ Found(p) = {} /\ Cardinality(copy[p]) < MaxPending
  /\ drawn < MaxKeys /\ drawn' = drawn + 1 /\ key' = [key EXCEPT ![p] = drawn']
  /\ journal' = copy[p] \union {[scope |-> scope[p], key |-> drawn']}
  /\ journalLock' = None /\ To(p, "posting") /\ copy' = [copy EXCEPT ![p] = {}]
  /\ UNCHANGED <<scopeLock, scope, serverVars, reported, interrupts>>

JournalFull(p) ==
  /\ step[p] = "drawing" /\ Found(p) = {} /\ Cardinality(copy[p]) >= MaxPending
  /\ End(p)
  /\ UNCHANGED <<journal, drawn, serverVars, reported, interrupts>>

-----------------------------------------------------------------------------
\* The server runs a request to its end or not at all; a known key replays.
\* Requests of a key whose process is gone are over once a new one is answered:
\* the handler gives up with its connection.
Answered(p, admits) ==
  /\ admitted' = IF admits THEN admitted \union {Mine(p)} ELSE admitted
  /\ late' = late \ {Mine(p)}

\* admitted, replayed, or rejected before commit
PostAnswered(p) ==
  /\ step[p] = "posting" /\ To(p, "answered")
  /\ \E admits \in BOOLEAN : (Mine(p) \in admitted => admits) /\ Answered(p, admits)
  /\ UNCHANGED <<journal, lockVars, scope, key, copy, drawn, reported, interrupts>>

\* A transport error, a 5xx answer or a malformed one: the process ends.
PostUncertain(p) ==
  /\ step[p] = "posting" /\ End(p)
  /\ \/ \E admits \in BOOLEAN : Answered(p, admits)
     \/ late' = late \union {Mine(p)} /\ UNCHANGED admitted
  /\ UNCHANGED <<journal, drawn, reported, interrupts>>

PostLate ==
  /\ \E e \in late : late' = late \ {e} /\ admitted' \in {admitted, admitted \union {e}}
  /\ UNCHANGED <<journal, lockVars, processVars, drawn, reported, interrupts>>

\* The outcome is flushed; the journal is cleared after it.
Flush(p) ==
  /\ step[p] = "answered" /\ To(p, "printed") /\ reported' = reported \union {key[p]}
  /\ UNCHANGED <<journal, lockVars, scope, key, copy, drawn, serverVars, interrupts>>

\* Complete, then Release.
RemovePending(p) ==
  /\ step[p] = "removing" /\ journal' = copy[p] \ {Mine(p)} /\ End(p)
  /\ UNCHANGED <<drawn, serverVars, reported, interrupts>>

\* The output or a file fails, a poll of --wait fails, or the operator
\* interrupts the process.
Interrupt(p) ==
  /\ interrupts < MaxInterrupts /\ interrupts' = interrupts + 1
  /\ step[p] # "idle" /\ End(p)
  /\ late' \in {late} \union (IF step[p] = "posting" THEN {late \union {Mine(p)}} ELSE {})
  /\ UNCHANGED <<journal, drawn, admitted, reported>>

Next ==
  \/ \E p \in Process :
       \/ PrepareImplicitAdmission(p) \/ LockJournal(p) \/ ReadAdmissionJournal(p)
       \/ UsePending(p) \/ CreatePending(p) \/ JournalFull(p)
       \/ PostAnswered(p) \/ PostUncertain(p) \/ Flush(p) \/ RemovePending(p) \/ Interrupt(p)
  \/ PostLate

Spec == Init /\ [][Next]_vars

-----------------------------------------------------------------------------
\* A Run the server admitted was reported to the operator, or its key waits in
\* the journal for the next identical command; and an identical command admits
\* a second Run only after the first was reported, whatever was lost or
\* interrupted in between.
AdmissionsKept ==
  /\ \A e \in admitted : e.key \in reported \/ e \in journal
  /\ \A d, e \in admitted : d.scope = e.scope /\ d.key < e.key => d.key \in reported
=============================================================================
