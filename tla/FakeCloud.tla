------------------------------ MODULE FakeCloud ------------------------------
(***************************************************************************)
(* The fake cloud backend: a server loop that finishes, releases and       *)
(* starts the Work of one execution profile in the same tables as the      *)
(* Workers' Work (controlplane/fake_cloud.go), while operators edit the    *)
(* profile (execution_profiles.go), cancel Work and pause the factory.     *)
(* One pass of dispatchOneFakeCloud is one transaction and one action; its *)
(* earlier alternatives have priority over the later ones.  SweepExpired   *)
(* leaves this backend's leases alone, so only a pass ends a running       *)
(* attempt, and the leases are left out.                                   *)
(***************************************************************************)
EXTENDS Naturals, Sequences, FiniteSets

CONSTANTS
  Work,            \* the Work of one Run (sessions on the profile)
  RunLimit,        \* the Run's concurrency_limit
  Caps,            \* max_concurrent values an edit may choose
  MaxVersions      \* bound: versions of the profile

CloudConstants ==
  /\ IsFiniteSet(Work)
  /\ RunLimit \in Nat \ {0} /\ Caps \subseteq Nat \ {0} /\ MaxVersions \in Nat \ {0}

Outcomes == {"succeeded", "failed", "running"}   \* fake_outcome

VARIABLES
  versions,    \* execution_profile_versions: [cap, outcome], never changed
  ready,       \* the profile is enabled and healthy
  paused,      \* factory_settings.paused
  work,        \* w -> [state, version, cancel, late]
  editor       \* the version an operator's open edit form was read at

vars == <<versions, ready, paused, work, editor>>

Ended == {"succeeded", "failed", "cancelled"}
In(states) == {w \in Work : work[w].state \in states}
Moves(w, state) == work' = [work EXCEPT ![w].state = state]
Version(w) == versions[work[w].version]

Init ==
  /\ versions \in {<<[cap |-> c, outcome |-> o]>> : c \in Caps, o \in Outcomes}
  /\ ready \in BOOLEAN /\ paused = FALSE /\ editor = 1
  /\ work = [w \in Work |-> [state |-> "new", version |-> 1, cancel |-> FALSE, late |-> FALSE]]

\* admitTask freezes the current version; it queues up to the Run's limit when the
\* profile is ready, and blocks the rest.
Admit ==
  /\ ~paused /\ In({"new"}) = Work
  /\ \E queued \in SUBSET Work :
       /\ IF ready THEN Cardinality(queued) = RunLimit \/ (queued = Work /\ Cardinality(Work) < RunLimit)
          ELSE queued = {}
       /\ work' = [w \in Work |-> [state |-> IF w \in queued THEN "queued" ELSE "blocked",
                                   version |-> Len(versions), cancel |-> FALSE, late |-> FALSE]]
  /\ UNCHANGED <<versions, ready, paused, editor>>

\* UpdateExecutionProfile: a new version, refused when the form is stale.
OpenForm == editor # Len(versions) /\ editor' = Len(versions)
            /\ UNCHANGED <<versions, ready, paused, work>>
UpdateProfile(cap, outcome, on) ==
  /\ editor = Len(versions) /\ Len(versions) < MaxVersions
  /\ versions' = Append(versions, [cap |-> cap, outcome |-> outcome])
  /\ ready' = on
  /\ UNCHANGED <<paused, work, editor>>

\* CancelSession: only a running attempt has to be ended by the backend.
Cancel(w) ==
  /\ work[w].state \in {"blocked", "queued", "running"} /\ ~work[w].cancel
  /\ IF work[w].state = "running" THEN work' = [work EXCEPT ![w].cancel = TRUE]
     ELSE work' = [work EXCEPT ![w].cancel = TRUE, ![w].state = "cancelled"]
  /\ UNCHANGED <<versions, ready, paused, editor>>

\* started_at + timeout_seconds passes.
TimeoutPasses(w) ==
  /\ work[w].state = "running" /\ ~work[w].late
  /\ work' = [work EXCEPT ![w].late = TRUE]
  /\ UNCHANGED <<versions, ready, paused, editor>>

SetPaused ==
  /\ paused' = ~paused /\ UNCHANGED <<versions, ready, work, editor>>

-----------------------------------------------------------------------------
(* dispatchOneFakeCloud.                                                   *)

\* Mutant: a paused factory does not cancel either.
CancellingUnpaused == {w \in In({"running"}) : work[w].cancel /\ ~paused}
Cancelling == {w \in In({"running"}) : work[w].cancel}
Overdue == {w \in In({"running"}) : work[w].late}
\* Mutant: the room of the newest version, not of the one that was frozen.
RoomNow(w) == Cardinality(In({"running"})) < versions[Len(versions)].cap
\* Mutant: off by one.
RoomOffByOne(w) == Cardinality(In({"running"})) <= Version(w).cap
\* What a blocked and a queued Work need before they move.
Room(w) == Cardinality(In({"running"})) < Version(w).cap
Releasable == {w \in In({"blocked"}) : ready /\ Room(w)
                 /\ Cardinality(In({"queued", "running"})) < RunLimit}
Startable == {w \in In({"queued"}) : ready /\ Room(w)}

CompleteCancelled ==
  /\ \E w \in Cancelling : Moves(w, "cancelled")
  /\ UNCHANGED <<versions, ready, paused, editor>>
CompleteOverdue ==
  /\ Cancelling = {} /\ \E w \in Overdue : Moves(w, "failed")
  /\ UNCHANGED <<versions, ready, paused, editor>>
Release ==
  /\ Cancelling = {} /\ Overdue = {} /\ ~paused
  /\ \E w \in Releasable : Moves(w, "queued")
  /\ UNCHANGED <<versions, ready, paused, editor>>
\* A start whose version says how it ends is completed in the same transaction.
Start ==
  /\ Cancelling = {} /\ Overdue = {} /\ ~paused /\ Releasable = {}
  /\ \E w \in Startable : Moves(w, Version(w).outcome)
  /\ UNCHANGED <<versions, ready, paused, editor>>

Dispatch == CompleteCancelled \/ CompleteOverdue \/ Release \/ Start

Next ==
  \/ Admit \/ OpenForm \/ SetPaused \/ Dispatch
  \/ \E cap \in Caps, outcome \in Outcomes, on \in BOOLEAN : UpdateProfile(cap, outcome, on)
  \/ \E w \in Work : Cancel(w) \/ TimeoutPasses(w)

Spec == Init /\ [][Next]_vars
\* The loop passes every 100 ms, paused or not (RunFakeCloudDispatcher).
FairSpec == Spec /\ WF_vars(Dispatch)

-----------------------------------------------------------------------------
(* Properties.                                                             *)

\* Every variable stays in its type.
TypeOK ==
  /\ versions \in Seq([cap : Caps, outcome : Outcomes]) /\ Len(versions) <= MaxVersions
  /\ ready \in BOOLEAN /\ paused \in BOOLEAN /\ editor \in 1 .. Len(versions)
  /\ work \in [Work -> [state : {"new", "blocked", "queued", "running"} \cup Ended,
                        version : 1 .. Len(versions), cancel : BOOLEAN, late : BOOLEAN]]

\* Never more attempts than the version one of them froze allows, however the profile
\* was edited since, nor more Work of the Run than its limit (dispatchOneFakeCloud).
CloudWithinLimits ==
  /\ In({"running"}) # {} =>
       \E w \in In({"running"}) : Cardinality(In({"running"})) <= Version(w).cap
  /\ Cardinality(In({"queued", "running"})) <= RunLimit

\* Work of an unready profile or a paused factory is not started.
StartsReady ==
  \A w \in Work : work[w].state \in {"blocked", "queued"}
    /\ work'[w].state \in {"queued", "running", "succeeded", "failed"}
    /\ work'[w].state # work[w].state => ready /\ ~paused

CloudStep ==
  /\ CloudWithinLimits' /\ StartsReady
  /\ \A v \in DOMAIN versions : v \in DOMAIN versions' /\ versions'[v] = versions[v]
\* Every step keeps the limits, starts Work only where it may, and leaves a version that
\* was frozen as it is (UpdateExecutionProfile, dispatchOneFakeCloud).
CloudSound == [][CloudStep]_vars

\* A cancelled or overdue attempt ends, paused or not: again and again none is left
\* running (dispatchOneFakeCloud).
CancelledEnds == []<>(\A w \in In({"running"}) : ~work[w].cancel /\ ~work[w].late)
=============================================================================
