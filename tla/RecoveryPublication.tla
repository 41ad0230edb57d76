------------------------ MODULE RecoveryPublication ------------------------
(***************************************************************************)
(* How a backup or a restore publishes a database and its marker.  Both    *)
(* are built in a private staging directory and linked one after the other *)
(* under the names of the destination, never over an existing file.  An    *)
(* attempt finds what an interrupted one left by the staging directory     *)
(* that still holds the same file.                                         *)
(***************************************************************************)
EXTENDS Naturals, FiniteSets

CONSTANTS
  MaxAttempts,  \* bound on backups to this destination
  AtOnce,       \* how many of them run at the same time
  None,         \* no file
  Foreign       \* a file this program did not write

\* Backups in the order they start; a file is named for the one that built it.
Attempt == 1 .. MaxAttempts

RecoveryConstants ==
  /\ MaxAttempts \in Nat \ {0} /\ AtOnce \in Nat \ {0}
  /\ None # Foreign /\ {None, Foreign} \cap Nat = {}

VARIABLES
  database, marker,  \* the two names of the destination
  staged,            \* attempts whose staging directory holds both files
  step,              \* where an attempt is
  round,             \* it checks the destination: 1 before staging, 2 before publishing
  found              \* the attempt whose interrupted publication it removes

nameVars == <<database, marker>>
vars == <<nameVars, staged, step, round, found>>

Running == {"inspect", "removeDatabase", "removeMarker", "unstage", "fresh", "stage",
            "linkDatabase", "linkMarker", "sync", "undoMarker", "undoDatabase",
            "failing", "succeeding"}
File == Attempt \union {None, Foreign}

TypeOK ==
  /\ database \in File /\ marker \in File /\ staged \subseteq Attempt
  /\ step \in [Attempt -> Running \union {"unused", "failed", "succeeded", "crashed"}]
  /\ round \in [Attempt -> {1, 2}] /\ found \in [Attempt -> Attempt \union {None}]
  /\ Cardinality({a \in Attempt : step[a] \in Running}) <= AtOnce
  /\ \A a \in Attempt : step[a] \in {"unused", "stage", "failed", "succeeded"} => a \notin staged

Init ==
  /\ database \in {None, Foreign} /\ marker \in {None, Foreign}
  /\ staged = {} /\ step = [a \in Attempt |-> "unused"]
  /\ round = [a \in Attempt |-> 1] /\ found = [a \in Attempt |-> None]

-----------------------------------------------------------------------------
To(a, next) == step' = [step EXCEPT ![a] = next]

\* An error is returned; what was staged is removed first.
Stop(a) == To(a, IF round[a] = 1 THEN "failed" ELSE "failing")

Start(a) ==
  /\ step[a] = "unused" /\ \A b \in 1 .. a - 1 : step[b] # "unused"
  /\ Cardinality({b \in Attempt : step[b] \in Running}) < AtOnce
  /\ To(a, "inspect") /\ UNCHANGED <<nameVars, staged, round, found>>

\* recoverInterruptedRecoveryPublication: one file without the other, which a
\* complete staging directory also holds, is an interrupted publication.
Inspect(a) ==
  /\ step[a] = "inspect"
  /\ \/ /\ marker = None /\ database \in staged
        /\ found' = [found EXCEPT ![a] = database] /\ To(a, "removeDatabase")
     \/ /\ database = None /\ marker \in staged
        /\ found' = [found EXCEPT ![a] = marker] /\ To(a, "removeMarker")
     \/ /\ ~(marker = None /\ database \in staged) /\ ~(database = None /\ marker \in staged)
        /\ To(a, "fresh") /\ UNCHANGED found
  /\ UNCHANGED <<nameVars, staged, round>>

\* The name is removed, whatever file it stands for by now.
RemovePartial(a) ==
  /\ \/ /\ step[a] = "removeDatabase" /\ database' = None /\ UNCHANGED marker
        /\ IF database # None THEN To(a, "unstage") ELSE Stop(a)
     \/ /\ step[a] = "removeMarker" /\ marker' = None /\ UNCHANGED database
        /\ IF marker # None THEN To(a, "unstage") ELSE Stop(a)
  /\ UNCHANGED <<staged, round, found>>

RemoveStaging(a) ==
  /\ step[a] = "unstage" /\ To(a, "fresh")
  /\ staged' = staged \ {found[a]}
  /\ UNCHANGED <<nameVars, round, found>>

\* ensureFreshRecoveryDestination, after the recovery
EnsureFresh(a) ==
  /\ step[a] = "fresh"
  /\ IF database = None /\ marker = None
     THEN To(a, IF round[a] = 1 THEN "stage" ELSE "linkDatabase")
     ELSE Stop(a)
  /\ UNCHANGED <<nameVars, staged, round, found>>

\* The snapshot and its marker are written, validated and synced, or not.
Stage(a) ==
  /\ step[a] = "stage"
  /\ \/ staged' = staged \union {a} /\ round' = [round EXCEPT ![a] = 2] /\ To(a, "inspect")
     \/ Stop(a) /\ UNCHANGED <<staged, round>>
  /\ UNCHANGED <<nameVars, found>>

\* A link neither replaces a file nor outlives its staged source.
LinkDatabase(a) ==
  /\ step[a] = "linkDatabase"
  /\ IF database = None /\ a \in staged
     THEN database' = a /\ To(a, "linkMarker")
     ELSE Stop(a) /\ UNCHANGED database
  /\ UNCHANGED <<marker, staged, round, found>>

\* Mutant: a failed link of the marker is ignored.
LinkMarkerIgnored(a) ==
  /\ step[a] = "linkMarker" /\ To(a, "sync")
  /\ marker' \in {marker} \union (IF marker = None /\ a \in staged THEN {a} ELSE {})
  /\ UNCHANGED <<database, staged, round, found>>

LinkMarker(a) ==
  /\ step[a] = "linkMarker"
  /\ \/ /\ marker = None /\ a \in staged
        /\ marker' = a /\ To(a, "sync")
     \/ To(a, "undoDatabase") /\ UNCHANGED marker
  /\ UNCHANGED <<database, staged, round, found>>

SyncDirectory(a) ==
  /\ step[a] = "sync"
  /\ To(a, "succeeding") \/ To(a, "undoMarker")
  /\ UNCHANGED <<nameVars, staged, round, found>>

Undo(a) ==
  /\ \/ step[a] = "undoMarker" /\ marker' = None /\ UNCHANGED database /\ To(a, "undoDatabase")
     \/ step[a] = "undoDatabase" /\ database' = None /\ UNCHANGED marker /\ Stop(a)
  /\ UNCHANGED <<staged, round, found>>

\* The deferred removal of the staging directory, and the exit.
Finish(a) ==
  /\ step[a] \in {"failing", "succeeding"}
  /\ To(a, IF step[a] = "failing" THEN "failed" ELSE "succeeded")
  /\ staged' = staged \ {a}
  /\ UNCHANGED <<nameVars, round, found>>

Crash(a) ==
  /\ step[a] \in Running /\ To(a, "crashed")
  /\ UNCHANGED <<nameVars, staged, round, found>>

Advance(a) ==
  \/ Inspect(a) \/ RemovePartial(a) \/ RemoveStaging(a) \/ EnsureFresh(a) \/ Stage(a)
  \/ LinkDatabase(a) \/ LinkMarker(a) \/ SyncDirectory(a) \/ Undo(a) \/ Finish(a)

Next == \E a \in Attempt : Start(a) \/ Advance(a) \/ Crash(a)

Spec == Init /\ [][Next]_vars

-----------------------------------------------------------------------------
\* docs/local.md: "a successful backup contains these two required files"; and
\* both come from one attempt, now and after any later one.
ReportedIsComplete ==
  \A a \in Attempt : step[a] = "succeeded" => database \in Attempt /\ marker = database

\* What an interrupted attempt left half published is found by the next one, so
\* that the destination is not refused for ever.
PartialIsRecoverable ==
  /\ \A a \in Attempt : step[a] \notin Running
  /\ {database, marker} \cap Attempt # {}
  => database = marker \/ {database, marker} \cap staged # {}

\* The publication is all or nothing, and can always be repeated.
PublicationSafe == ReportedIsComplete /\ PartialIsRecoverable
=============================================================================
