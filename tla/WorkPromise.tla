---------------------------- MODULE WorkPromise ----------------------------
(***************************************************************************)
(* What the control plane promises about Work, without runs, workers,      *)
(* executions, leases or checkpoints: a Work passes through a few phases,  *)
(* is held by one numbered holder at a time, is not started without the    *)
(* consent it needs, is never started again once it delivered or was       *)
(* superseded, and no phase is skipped.  Many Work may move in one step.   *)
(***************************************************************************)
EXTENDS Naturals

CONSTANTS Work, Gated   \* Gated: the Work that need a human's consent

VARIABLES
  phase,       \* where each Work stands
  turn,        \* how many holders it has had
  consent,     \* the Work a human agreed to
  superseded   \* the Work another Work took over from

vars == <<phase, turn, consent, superseded>>

\* open: ended without a delivery, may be started again; closed: delivered.
Phase == {"unknown", "proposed", "waiting", "held", "asking", "open", "closed"}

Moves == {<<"unknown", "proposed">>, <<"unknown", "waiting">>,
          <<"proposed", "waiting">>, <<"proposed", "open">>,
          <<"waiting", "held">>, <<"waiting", "open">>,
          <<"held", "asking">>, <<"held", "open">>, <<"held", "closed">>,
          <<"asking", "waiting">>, <<"asking", "open">>,
          <<"open", "waiting">>}

Init ==
  /\ phase = [w \in Work |-> "unknown"]
  /\ turn = [w \in Work |-> 0]
  /\ consent = {}
  /\ superseded = {}

\* A Work moves; taking hold of it is what starts a new turn.
Move(w) ==
  /\ <<phase[w], phase'[w]>> \in Moves
  /\ turn'[w] = IF phase'[w] = "held" THEN turn[w] + 1 ELSE turn[w]
  /\ phase'[w] = "waiting" => /\ w \in Gated => w \in consent'
                              /\ w \notin superseded'

Stay(w) == phase'[w] = phase[w] /\ turn'[w] = turn[w]

Next ==
  /\ phase' \in [Work -> Phase] /\ turn' \in [Work -> Nat]
  /\ \A w \in Work : Move(w) \/ Stay(w)
  /\ consent \subseteq consent' /\ consent' \subseteq Work
  /\ superseded \subseteq superseded'
  /\ superseded' \subseteq {w \in Work : w \in superseded \/ phase[w] \in {"open", "closed"}}

Spec == Init /\ [][Next]_vars
=============================================================================
