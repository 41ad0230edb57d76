------------------------------ MODULE Planning ------------------------------
(***************************************************************************)
(* One project's route and the Planning page: checkpoints, the stones and  *)
(* pebbles a frozen one is cut into, and the critique passes that name a   *)
(* checkpoint by its number (controlplane/planning.go, roadmap*.go).       *)
(*                                                                         *)
(* Every write is one transaction.  The page is not: the numbers, each     *)
(* checkpoint's row, stones and pebbles, and the passes are read one query *)
(* after another while other requests write and renumber, so the read is a *)
(* sequence of actions.  The cards of a page are read alike, and no card   *)
(* depends on another: reading follows the read of any one of them.        *)
(*                                                                         *)
(* Ghosts: a row's id (which checkpoint it is, whatever its number), a     *)
(* pebble's cites (the text it was cut from), a pass's of (the checkpoint  *)
(* its number named at admission), and a card's listed (the closed         *)
(* checkpoint that had its number when the numbers were listed).           *)
(* The answers and a pebble's Work are left out: no step here reads them.  *)
(***************************************************************************)
EXTENDS Naturals, Sequences, FiniteSets

CONSTANTS
  Null,             \* no text, no stone, no checkpoint
  Texts,            \* titles, summaries and PRD bodies, taken together
  Slugs, Stones,    \* the names a split may use
  Splits,           \* bound: the splits requested, out of those AllSplits describes
  MaxNumber,        \* planningMaxCheckpointNumber, 999 in the code
  MaxCheckpoints,   \* bound: checkpoints ever created
  MaxPasses         \* bound: passes ever admitted

PlanningConstants ==
  /\ MaxNumber \in Nat \ {0} /\ MaxCheckpoints \in Nat /\ MaxPasses \in Nat
  /\ Null \notin Texts \cup Stones

VARIABLES
  route,      \* planning_checkpoints: number -> row
  stones,     \* planning_stones: pairs of a number and a stone id
  pebbles,    \* planning_pebbles
  passes,     \* the sessions with a planning triple, in admission order
  reading     \* the request that reads the page

vars == <<route, stones, pebbles, passes, reading>>

Statuses == {"planned", "review", "fog", "frozen", "built"}
\* planningTransitions: every other move is refused, and there is no way back.
Transitions ==
  {<<"planned", "review">>, <<"review", "fog">>, <<"review", "frozen">>,
   <<"fog", "frozen">>, <<"frozen", "built">>}

Highest == IF DOMAIN route = {} THEN 0
           ELSE CHOOSE n \in DOMAIN route : \A m \in DOMAIN route : m <= n
ClosedStatuses == {"frozen", "built"}
Closed(n) == n \in DOMAIN route /\ route[n].status \in ClosedStatuses
Numbers == 1 .. MaxNumber           \* what validPlanningCheckpointKey lets through

\* The whole split of one request, as normalizePlanningSplit lets it through: no
\* slug and no stone twice, and a pebble names a stone of the same batch.
SplitsInto(P, S) ==
  [chosen : [P -> S \cup {Null}], kept : {S}]
AllSplits == UNION {SplitsInto(P, S) : P \in SUBSET Slugs, S \in SUBSET Stones}

SplitsAreValid == Splits \subseteq AllSplits

Idle == [step |-> "idle"]

Init ==
  /\ route = <<>> /\ stones = {} /\ pebbles = {} /\ passes = <<>>
  /\ reading = Idle

-----------------------------------------------------------------------------
(* The writes.                                                             *)

NewRow(text) == [id |-> Cardinality(DOMAIN route) + 1, text |-> text, status |-> "planned"]

\* Mutant: only a built checkpoint is closed to it.
UpsertUnbuilt(n, text) ==
  /\ n \in Numbers /\ ~(n \in DOMAIN route /\ route[n].status = "built")
  /\ n \in DOMAIN route \/ Cardinality(DOMAIN route) < MaxCheckpoints
  /\ route' = IF n \in DOMAIN route THEN [route EXCEPT ![n].text = text]
              ELSE [m \in DOMAIN route \cup {n} |-> IF m = n THEN NewRow(text) ELSE route[m]]
  /\ UNCHANGED <<stones, pebbles, passes, reading>>

\* A frozen or built checkpoint's plan is refused; a new one starts at planned.
UpsertCheckpoint(n, text) ==
  /\ n \in Numbers /\ ~Closed(n)
  /\ n \in DOMAIN route \/ Cardinality(DOMAIN route) < MaxCheckpoints
  /\ route' = IF n \in DOMAIN route THEN [route EXCEPT ![n].text = text]
              ELSE [m \in DOMAIN route \cup {n} |-> IF m = n THEN NewRow(text) ELSE route[m]]
  /\ UNCHANGED <<stones, pebbles, passes, reading>>

\* Mutant: the checkpoint that has the number keeps it.
ShiftedAfter(n, m) == IF m > n THEN m + 1 ELSE m
Shifted(n, m) == IF m >= n THEN m + 1 ELSE m
\* Mutant: only a built checkpoint keeps what follows it in place.
InsertBeforeFrozen(n) ==
  /\ n \in 1 .. Highest + 1
  /\ \A m \in DOMAIN route : m >= n => route[m].status # "built"
  /\ Cardinality(DOMAIN route) < MaxCheckpoints
  /\ route' = [m \in {n} \cup {Shifted(n, k) : k \in DOMAIN route} |->
                 IF m = n THEN NewRow(Null) ELSE IF m > n THEN route[m - 1] ELSE route[m]]
  /\ stones' = {<<Shifted(n, s[1]), s[2]>> : s \in stones}
  /\ pebbles' = {[p EXCEPT !.number = Shifted(n, @)] : p \in pebbles}
  /\ passes' = [i \in DOMAIN passes |-> [passes[i] EXCEPT !.number = Shifted(n, @)]]
  /\ UNCHANGED reading
\* The number's only bound is the top of the route, not MaxNumber.
InsertCheckpoint(n) ==
  /\ n \in 1 .. Highest + 1
  /\ \A m \in DOMAIN route : m >= n => ~Closed(m)
  /\ Cardinality(DOMAIN route) < MaxCheckpoints
  /\ route' = [m \in {n} \cup {Shifted(n, k) : k \in DOMAIN route} |->
                 IF m = n THEN NewRow(Null) ELSE IF m > n THEN route[m - 1] ELSE route[m]]
  /\ stones' = {<<Shifted(n, s[1]), s[2]>> : s \in stones}
  /\ pebbles' = {[p EXCEPT !.number = Shifted(n, @)] : p \in pebbles}
  /\ passes' = [i \in DOMAIN passes |-> [passes[i] EXCEPT !.number = Shifted(n, @)]]
  /\ UNCHANGED reading

TransitionCheckpoint(n, status) ==
  /\ n \in Numbers \cap DOMAIN route
  /\ <<route[n].status, status>> \in Transitions
  /\ route' = [route EXCEPT ![n].status = status]
  /\ UNCHANGED <<stones, pebbles, passes, reading>>

\* Replaces the whole split; built marks of the last one go with it.
ReplacePebbles(n, split) ==
  /\ n \in Numbers \cap DOMAIN route /\ route[n].status = "frozen"
  /\ stones' = {s \in stones : s[1] # n} \cup ({n} \X split.kept)
  /\ pebbles' = {p \in pebbles : p.number # n} \cup
       {[number |-> n, slug |-> slug, stone |-> split.chosen[slug],
         built |-> FALSE, cites |-> route[n].text] : slug \in DOMAIN split.chosen}
  /\ UNCHANGED <<route, passes, reading>>

\* Recorded by hand, at any status.
MarkPebbleBuilt(p) ==
  /\ p.number \in Numbers
  /\ pebbles' = (pebbles \ {p}) \cup {[p EXCEPT !.built = TRUE]}
  /\ UNCHANGED <<route, stones, passes, reading>>

\* admitTask stores the triple as it was sent: nothing looks the number up.
AdmitPass(n) ==
  /\ n \in Numbers /\ Len(passes) < MaxPasses
  /\ passes' = Append(passes, [number |-> n,
                               of |-> IF n \in DOMAIN route THEN route[n].id ELSE Null])
  /\ UNCHANGED <<route, stones, pebbles, reading>>

-----------------------------------------------------------------------------
(* The page.                                                               *)

\* planningCheckpointNumbers; n is the number of the card that is followed.
ListNumbers(n) ==
  /\ reading = Idle /\ n \in DOMAIN route
  /\ reading' = [step |-> "row", number |-> n,
                 listed |-> IF Closed(n) THEN route[n].id ELSE Null]
  /\ UNCHANGED <<route, stones, pebbles, passes>>

\* What a card says of its row; of the status, whether the plan is closed.
Seen(n) == [id |-> route[n].id, text |-> route[n].text,
            plan |-> IF Closed(n) THEN "closed" ELSE "open"]
\* planningCheckpointRow.  The row is not found when an insertion moved it up past a
\* gap, and is not looked for when its number is above the greatest one a key may have:
\* then the whole page is answered with an error.
ReadRow ==
  /\ reading.step = "row"
  /\ LET n == reading.number
     IN \/ /\ n \in Numbers \cap DOMAIN route
           /\ reading' = [step |-> "stones", number |-> n, listed |-> reading.listed,
                          row |-> Seen(n)]
        \/ n \notin Numbers \cap DOMAIN route /\ reading' = Idle
  /\ UNCHANGED <<route, stones, pebbles, passes>>

ReadStones ==
  /\ reading.step = "stones"
  /\ reading' = [step |-> "pebbles", number |-> reading.number, listed |-> reading.listed,
                 row |-> reading.row,
                 groups |-> {s[2] : s \in {t \in stones : t[1] = reading.number}}]
  /\ UNCHANGED <<route, stones, pebbles, passes>>

ReadPebbles ==
  /\ reading.step = "pebbles"
  /\ reading' = [step |-> "passes", number |-> reading.number, listed |-> reading.listed,
                 row |-> reading.row, groups |-> reading.groups,
                 pebbles |-> {p \in pebbles : p.number = reading.number}]
  /\ UNCHANGED <<route, stones, pebbles, passes>>

\* readRoadmapPasses, after the last card, and roadmapApplyPasses, by number.
ReadPasses ==
  /\ reading.step = "passes"
  /\ reading' = [step |-> "card", number |-> reading.number, listed |-> reading.listed,
                 row |-> reading.row, groups |-> reading.groups, pebbles |-> reading.pebbles,
                 passes |-> {passes[i].of : i \in {j \in DOMAIN passes :
                                                  passes[j].number = reading.number}}]
  /\ UNCHANGED <<route, stones, pebbles, passes>>

\* The page is sent.  What is written after the last query no longer shows, so Next
\* lets nothing else happen first.
SendPage ==
  /\ reading.step = "card" /\ reading' = Idle
  /\ UNCHANGED <<route, stones, pebbles, passes>>

\* roadmapStones: one box per stone that holds something, and a last one for the
\* pebbles that name none.
Boxes(card) ==
  {{p \in card.pebbles : p.stone = g} :
   g \in {s \in card.groups \cup {Null} : \E p \in card.pebbles : p.stone = s}}

Writes ==
  \/ \E n \in Numbers : \E text \in Texts : UpsertCheckpoint(n, text)
  \/ \E n \in 1 .. Highest + 1 : InsertCheckpoint(n)
  \/ \E n \in DOMAIN route : \E status \in Statuses : TransitionCheckpoint(n, status)
  \/ \E n \in DOMAIN route : \E split \in Splits : ReplacePebbles(n, split)
  \/ \E p \in pebbles : MarkPebbleBuilt(p)
  \/ \E n \in Numbers : AdmitPass(n)
Next ==
  \/ reading.step # "card" /\ Writes
  \/ \E n \in DOMAIN route : ListNumbers(n)
  \/ ReadRow \/ ReadStones \/ ReadPebbles \/ ReadPasses \/ SendPage

Spec == Init /\ [][Next]_vars

-----------------------------------------------------------------------------
(* Properties.                                                             *)

Rows == [id : Nat, text : Texts \cup {Null}, status : Statuses]
\* Every variable stays in its type.
TypeOK ==
  /\ DOMAIN route \subseteq 1 .. MaxNumber + MaxCheckpoints
  /\ \A n \in DOMAIN route : route[n] \in Rows
  /\ stones \subseteq (DOMAIN route) \X Stones
  /\ \A p \in pebbles : p.number \in DOMAIN route /\ p.slug \in Slugs
  /\ \A i \in DOMAIN passes : passes[i].number \in Nat /\ passes[i].of \in Nat \cup {Null}
  /\ reading.step \in {"idle", "row", "stones", "pebbles", "passes", "card"}

\* A frozen or built checkpoint keeps its number and its text whatever is written
\* around it, and only goes on to built (UpsertPlanningCheckpoint,
\* InsertPlanningCheckpoint, TransitionPlanningCheckpoint).
FrozenTextStands ==
  \A n \in DOMAIN route : Closed(n) =>
    /\ n \in DOMAIN route' /\ route'[n].id = route[n].id
    /\ route'[n].text = route[n].text
    /\ route'[n].status \in {route[n].status, "built"}

\* What cites a checkpoint by its number still cites the same one after any
\* renumbering: a pebble the text it was cut from, in a plan that is closed, and a
\* pass the checkpoint it criticised (InsertPlanningCheckpoint).
CitationsFollow ==
  /\ \A p \in pebbles : Closed(p.number) /\ route[p.number].text = p.cites
  /\ \A i \in DOMAIN passes : passes[i].of # Null =>
       passes[i].number \in DOMAIN route /\ route[passes[i].number].id = passes[i].of

\* No step rewrites a closed checkpoint or makes a citation mean another one
\* (UpsertPlanningCheckpoint, InsertPlanningCheckpoint).
RouteStands == [][FrozenTextStands /\ CitationsFollow']_vars

\* A page read while the route is written and renumbered tells the truth of what is
\* closed.  The card of a checkpoint that was closed when the numbers were listed shows
\* that checkpoint; and a card whose row was read closed shows pebbles cut from the text
\* it shows and passes that criticised the checkpoint it shows, though each comes by its
\* number from a later query (readRoadmap, PlanningCheckpoint, readRoadmapPasses,
\* InsertPlanningCheckpoint).
PageTellsTruth ==
  reading.step = "card" =>
  /\ reading.listed # Null =>
       reading.row.id = reading.listed /\ reading.row.plan = "closed"
  /\ reading.row.plan = "closed" =>
       /\ \A p \in reading.pebbles : p.cites = reading.row.text
       /\ reading.passes \subseteq {reading.row.id, Null}

\* "Every pebble reaches the page exactly once" (roadmap.go:294): the code reads the
\* stones and the pebbles in two queries, and a split replaced between them leaves
\* pebbles that name a stone the page has not read (roadmapStones).
EveryPebbleShown ==
  reading.step = "card" =>
    \A p \in reading.pebbles : \E box \in Boxes(reading) : p \in box
=============================================================================
