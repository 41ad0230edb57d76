--------------------------- MODULE RepositoryLock ---------------------------
(***************************************************************************)
(* What the worker's repository locks promise: one goroutine at a time     *)
(* changes the Git metadata of one repository, and nobody does once a      *)
(* holder has found that metadata inconsistent.  RepositoryLocks           *)
(* implements it with reference-counted entries and one-token channels.    *)
(***************************************************************************)
CONSTANTS Procs, Keys

VARIABLES
  holders,    \* key -> the goroutines inside
  broken      \* the keys whose repository was found inconsistent

lockVars == <<holders, broken>>

Init == holders = [k \in Keys |-> {}] /\ broken = {}

Enter(p, k) ==
  /\ holders[k] = {} /\ k \notin broken
  /\ holders' = [holders EXCEPT ![k] = {p}] /\ UNCHANGED broken
Exit(p, k) ==
  /\ p \in holders[k]
  /\ holders' = [holders EXCEPT ![k] = {}] /\ UNCHANGED broken
Break(p, k) ==
  /\ p \in holders[k]
  /\ broken' = broken \cup {k} /\ UNCHANGED holders

Next == \E p \in Procs, k \in Keys : Enter(p, k) \/ Exit(p, k) \/ Break(p, k)
Spec == Init /\ [][Next]_lockVars
=============================================================================
