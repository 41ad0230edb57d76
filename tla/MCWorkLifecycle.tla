-------------------------- MODULE MCWorkLifecycle --------------------------
(* Small instances of WorkLifecycle for TLC. *)
EXTENDS WorkLifecycle, TLC

CONSTANTS w1, w2, w3, r1, r2, r3, issue, k1, k2

\* One Work with a history of several attempts, on one of two workers.
SoloRunOf == w1 :> r1
SoloIssue == w1 :> NoIssue
SoloLimit == r1 :> 1
TwoWorkers == k1 :> 1 @@ k2 :> 1
WorkerSymmetry == Permutations({k1, k2})

\* Two Work of one run that may execute one at a time, and one of another run,
\* on a worker with a single slot.
GuestRunOf == w1 :> r1 @@ w2 :> r1 @@ w3 :> r2
GuestIssue == w1 :> NoIssue @@ w2 :> NoIssue @@ w3 :> NoIssue
GuestLimit == r1 :> 1 @@ r2 :> 1
OneSlot == k1 :> 1

\* Three runs of one Work each, over one work item.
ChainRunOf == w1 :> r1 @@ w2 :> r2 @@ w3 :> r3
ChainIssue == w1 :> issue @@ w2 :> issue @@ w3 :> issue
ChainLimit == r1 :> 1 @@ r2 :> 1 @@ r3 :> 1
OneWorker == k1 :> 2
\* A run and its only Work change places together.
ChainSymmetry == {[x \in {w1, w2, w3, r1, r2, r3} |->
                     IF x \in {w1, w2, w3} THEN p[x]
                     ELSE CHOOSE r \in {r1, r2, r3} :
                            \E w \in {w1, w2, w3} : ChainRunOf[w] = x /\ ChainRunOf[p[w]] = r]
                   : p \in Permutations({w1, w2, w3})}
=============================================================================
