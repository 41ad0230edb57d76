-------------------------- MODULE EventForwarding --------------------------
(***************************************************************************)
(* An attempt's output on its way to the server: the agent's lines enter a *)
(* bounded queue, one goroutine sends them one at a time and repeats a     *)
(* request until it is answered, and the server stores them under the      *)
(* attempt's lease (worker/events.go, AppendEvents in                      *)
(* controlplane/state.go).  An event's content is the number of its line,  *)
(* counting from 0 and counting the lines that were dropped.               *)
(***************************************************************************)
EXTENDS Naturals, Sequences, SequencesExt

CONSTANTS
  None,
  Capacity,     \* the queue's, 100 in the code
  Budget,       \* the events the server stores for one attempt, 10 MiB in the code
  MaxLines,     \* bound: lines the agent prints
  MaxLost       \* bound: answers lost, or refused with a server error

\* The event of the k-th line, when no line before it was dropped; none of them is None.
Event(k) == [sequence |-> k, content |-> k]

EventConstants ==
  /\ Capacity \in Nat /\ Budget \in Nat /\ MaxLines \in Nat /\ MaxLost \in Nat
  /\ \A k \in 0 .. MaxLines : None # Event(k)

VARIABLES
  line,       \* lines printed so far
  queue,      \* sender.input
  next,       \* sender.next, the sequence of the next event
  sender,     \* [disabled, closed, done] of the eventSender
  sending,    \* the event whose answer the goroutine waits for
  stored,     \* attempt_events, in the order of their sequences
  lease,      \* the attempt's lease is active
  lost        \* requests without an answer so far

vars == <<line, queue, next, sender, sending, stored, lease, lost>>

Init ==
  /\ line = 0 /\ queue = <<>> /\ next = 0
  /\ sender = [disabled |-> FALSE, closed |-> FALSE, done |-> FALSE]
  /\ sending = None /\ stored = <<>> /\ lease = TRUE /\ lost = 0

\* Mutant: a full queue drops one line, and the next one has its chance.
EnqueueDropping ==
  /\ line < MaxLines /\ line' = line + 1
  /\ IF sender.disabled \/ sender.closed \/ Len(queue) >= Capacity THEN UNCHANGED <<queue, next>>
     ELSE queue' = Append(queue, [sequence |-> next, content |-> line]) /\ next' = next + 1
  /\ UNCHANGED <<sender, sending, stored, lease, lost>>

\* enqueue: a full queue disables the sender for good.
Enqueue ==
  /\ line < MaxLines /\ line' = line + 1
  /\ \/ /\ sender.disabled \/ sender.closed
        /\ UNCHANGED <<queue, next, sender>>
     \/ /\ ~sender.disabled /\ ~sender.closed /\ Len(queue) < Capacity
        /\ queue' = Append(queue, [sequence |-> next, content |-> line])
        /\ next' = next + 1 /\ UNCHANGED sender
     \/ /\ ~sender.disabled /\ ~sender.closed /\ Len(queue) >= Capacity
        /\ sender' = [sender EXCEPT !.disabled = TRUE] /\ UNCHANGED <<queue, next>>
  /\ UNCHANGED <<sending, stored, lease, lost>>

\* run: the next event, or the end of a closed and empty queue.
TakeEvent ==
  /\ ~sender.done /\ sending = None /\ queue # <<>>
  /\ sending' = Head(queue) /\ queue' = Tail(queue)
  /\ UNCHANGED <<line, next, sender, stored, lease, lost>>
Drained ==
  /\ ~sender.done /\ sending = None /\ queue = <<>> /\ sender.closed
  /\ sender' = [sender EXCEPT !.done = TRUE]
  /\ UNCHANGED <<line, queue, next, sending, stored, lease, lost>>

\* AppendEvents: a replay must be identical, a new event must follow what is stored.
Replayed(e) == \E i \in DOMAIN stored : stored[i].sequence = e.sequence
\* Mutant: what is stored already is refused as out of order.
AcceptedNew(e) ==
  /\ lease /\ Len(stored) < Budget
  /\ \A i \in DOMAIN stored : stored[i].sequence < e.sequence
Accepted(e) ==
  /\ lease
  /\ \/ e \in Range(stored)
     \/ /\ ~Replayed(e) /\ \A i \in DOMAIN stored : stored[i].sequence < e.sequence
        /\ Len(stored) < Budget
After(e) == IF e \in Range(stored) THEN stored ELSE Append(stored, e)

Answered ==
  /\ ~sender.done /\ sending # None /\ Accepted(sending)
  /\ stored' = After(sending) /\ sending' = None
  /\ UNCHANGED <<line, queue, next, sender, lease, lost>>

\* The event is stored, or the request fails before that; no answer arrives and the
\* same event is sent again.
AnswerLost ==
  /\ ~sender.done /\ sending # None /\ lost < MaxLost /\ lost' = lost + 1
  /\ stored' \in {stored} \cup {After(e) : e \in {f \in {sending} : Accepted(f)}}
  /\ UNCHANGED <<line, queue, next, sender, sending, lease>>

\* Mutant: a refusal is sent again, like a lost answer.
RefusedRetried ==
  ~sender.done /\ sending # None /\ ~Accepted(sending) /\ UNCHANGED vars

\* A refusal (a status below 500) ends the goroutine.
Refused ==
  /\ ~sender.done /\ sending # None /\ ~Accepted(sending)
  /\ sender' = [sender EXCEPT !.disabled = TRUE, !.done = TRUE]
  /\ UNCHANGED <<line, queue, next, sending, stored, lease, lost>>

\* The attempt's context ends while a request is out or waits to be repeated.
Cancelled ==
  /\ ~sender.done /\ sending # None
  /\ sender' = [sender EXCEPT !.done = TRUE]
  /\ UNCHANGED <<line, queue, next, sending, stored, lease, lost>>

\* closeAndWait: the agent has exited.
Close ==
  /\ ~sender.closed /\ sender' = [sender EXCEPT !.closed = TRUE]
  /\ UNCHANGED <<line, queue, next, sending, stored, lease, lost>>

\* After it, when the goroutine is done or five seconds have passed, the attempt is
\* completed; or its lease expired or the Run was cancelled before.
LeaseEnds ==
  /\ lease /\ lease' = FALSE
  /\ UNCHANGED <<line, queue, next, sender, sending, stored, lost>>

Next ==
  \/ Enqueue \/ TakeEvent \/ Drained \/ Answered \/ AnswerLost \/ Refused
  \/ Cancelled \/ Close \/ LeaseEnds

Spec == Init /\ [][Next]_vars

\* The goroutine runs, and the server answers in the end.
Goroutine == TakeEvent \/ Drained \/ Answered \/ Refused
FairSpec == Spec /\ WF_vars(Goroutine)

-----------------------------------------------------------------------------
(* Properties.                                                             *)

\* Every variable stays in its type.
TypeOK ==
  /\ line \in 0 .. MaxLines /\ next \in 0 .. MaxLines /\ lost \in 0 .. MaxLost
  /\ Len(queue) <= Capacity /\ Len(stored) <= Budget
  /\ sender \in [disabled : BOOLEAN, closed : BOOLEAN, done : BOOLEAN]
  /\ lease \in BOOLEAN

\* The stored log is the beginning of the agent's output without a hole: an event
\* dropped, repeated or refused never lets a later one through (enqueue, run,
\* AppendEvents).
LogHasNoHole ==
  \A i \in DOMAIN stored : stored[i] = Event(i - 1)

\* The sender gives up for a cause: the agent outran the queue, the budget is spent or
\* the lease ended.  An answer that was lost is no cause, because sending the event
\* again is accepted (run, AppendEvents).
GivesUpForCause ==
  sender.disabled => \/ line > next
                     \/ Len(stored) = Budget \/ ~lease

\* While the lease lasts, the log catches up with what entered the queue, again and
\* again, unless the sender gave up or the attempt was stopped (run).
OutputArrives == []<>(Len(stored) = next \/ sender.done \/ ~lease)
=============================================================================
