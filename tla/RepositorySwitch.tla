-------------------------- MODULE RepositorySwitch --------------------------
(***************************************************************************)
(* The operator's switch of a repository over the ledger of Work, with the *)
(* answer a request to disable it gets (store.go,                          *)
(* SetManagedRepositoryEnabled, over the instances of MCWorkLifecycle).    *)
(***************************************************************************)
EXTENDS MCWorkLifecycle

VARIABLE answer   \* to the request to disable the repository, "none" before it

SwitchInit == Init /\ answer = "none"

\* The request takes back the queued Work of ws, all of it or none.
SetManagedRepositoryEnabled(ws) ==
  /\ answer = "none"
  /\ \/ DisableRepository(ws) /\ answer' = "disabled"
     \/ TakenBack(ws) = {} /\ answer' = "disabled" /\ UNCHANGED vars
     \/ Attempted(ws) # {} /\ answer' = "unavailable" /\ UNCHANGED vars

SwitchNext ==
  \/ Next /\ UNCHANGED answer
  \/ \E ws \in SUBSET Work : SetManagedRepositoryEnabled(ws)

SwitchSpec == SwitchInit /\ [][SwitchNext]_<<vars, answer>>

\* local.md: an operator stops new routed Work by disabling the repository, without
\* interrupting an execution whose assignment is frozen.
DisablingIsObeyed == answer # "unavailable"
=============================================================================
