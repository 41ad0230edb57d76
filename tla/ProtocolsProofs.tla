--------------------------- MODULE ProtocolsProofs ---------------------------
(***************************************************************************)
(* What TLAPS proves of the small components that MCProtocols puts side by *)
(* side, for every value of their constants.  A step of the whole is a     *)
(* step of one part and leaves the others alone, so each part's invariant  *)
(* is proved over that part's own actions.                                 *)
(***************************************************************************)
EXTENDS MCProtocols, FiniteSets, Sequences, FiniteSetTheorems, TLAPS

-----------------------------------------------------------------------------
(* Finite sets of entries.                                                 *)

LEMMA Grown ==
  ASSUME NEW S, NEW x, IsFiniteSet(S), x \notin S
  PROVE  /\ IsFiniteSet(S \cup {x})
         /\ Cardinality(S \cup {x}) = Cardinality(S) + 1
         /\ Cardinality(S) \in Nat
BY FS_AddElement, FS_CardinalityType

LEMMA Shrunk ==
  ASSUME NEW S, NEW x, IsFiniteSet(S), x \in S
  PROVE  /\ IsFiniteSet(S \ {x})
         /\ Cardinality(S \ {x}) = Cardinality(S) - 1
         /\ Cardinality(S) \in Nat
BY FS_RemoveElement, FS_CardinalityType

\* The instance's Cardinality is the one the library's theorems are about.
LEMMA CacheCardinality == ASSUME NEW S PROVE Cache!Cardinality(S) = Cardinality(S)
BY DEF Cache!Cardinality, Cardinality

-----------------------------------------------------------------------------
(* RepositoryCache.                                                        *)

\* A step of the whole is a step of the cache or leaves it alone.
LEMMA CacheStep == [Next]_vars => [Cache!Next]_cacheVars
BY DEF Next, vars, Schedules, Publication, Enrollment, Admissions, Locking, Caching,
       Forwarding, Dispatching, cacheVars

\* Every entry and every clone under way has its place, and the places are counted.
CachePlaces ==
  /\ known \cap reserved = {}
  /\ IsFiniteSet(known) /\ IsFiniteSet(reserved)
  /\ Cardinality(known) + Cardinality(reserved) <= MaxEntries
  /\ \A id \in Repositories :
       acquiring[id] \in {"cloning", "installed", "resolving"} => id \in known \cup reserved

\* What a stopped worker leaves behind, and what a running one knows of it.
CacheDisk ==
  /\ \A id \in Repositories : acquiring[id] = "cloning" => id \notin installed
  /\ Cache!Up \/ /\ known = {} /\ reserved = {}
                 /\ \A id \in Repositories : acquiring[id] = "down"
  /\ IsFiniteSet(installed)

\* What CacheBounded says, with the library's Cardinality.
CacheFits ==
  /\ Cardinality(installed) <= MaxEntries
  /\ Cache!Up => /\ installed \subseteq known \cup reserved
                 /\ \A id \in temporary \cup reserved :
                      acquiring[id] \in {"cloning", "installed"}

CacheInv == Cache!TypeOK /\ CachePlaces /\ CacheDisk /\ CacheFits

LEMMA CacheFitsBounds == CacheFits => CacheBounded
BY CacheCardinality DEF CacheFits, CacheBounded, Cache!CacheBounded

LEMMA CacheInit == Init => CacheInv
<1> SUFFICES ASSUME Init PROVE CacheInv
  OBVIOUS
<1>1. Cache!Init
  BY DEF Init
<1>2. MaxEntries \in Nat /\ MaxRestarts \in Nat
  BY Constants DEF Cache!CacheConstants
<1>3. IsFiniteSet({}) /\ Cardinality({}) = 0
  BY FS_EmptySet
<1> QED
  BY <1>1, <1>2, <1>3 DEF CacheInv, CachePlaces, CacheDisk, CacheFits, Cache!TypeOK, Cache!Init, Cache!Free, Cache!Up

\* Only the acquisition of one repository moves, and it is running afterwards.
LEMMA CacheGoes ==
  ASSUME CacheInv, NEW id \in Repositories,
         NEW at \in {"free", "cloning", "installed", "resolving"},
         Cache!Goes(id, at), acquiring[id] # "down"
  PROVE  /\ acquiring' \in [Repositories ->
                              {"free", "cloning", "installed", "resolving", "down"}]
         /\ \A r \in Repositories : acquiring'[r] = IF r = id THEN at ELSE acquiring[r]
         /\ Cache!Up /\ Cache!Up'
<1>1. acquiring \in [Repositories -> {"free", "cloning", "installed", "resolving", "down"}]
  BY DEF CacheInv, Cache!TypeOK
<1>2. /\ acquiring' \in [Repositories ->
                              {"free", "cloning", "installed", "resolving", "down"}]
      /\ \A r \in Repositories : acquiring'[r] = IF r = id THEN at ELSE acquiring[r]
  BY <1>1 DEF Cache!Goes
<1>3. Cache!Up
  BY DEF CacheInv, CacheDisk
<1> QED
  BY <1>2, <1>3 DEF Cache!Up

\* Entries on disk that all have a place are no more than the limit.
LEMMA PlacesBound ==
  ASSUME CacheInv, NEW S, S \subseteq known \cup reserved
  PROVE  IsFiniteSet(S) /\ Cardinality(S) <= MaxEntries
<1>1. IsFiniteSet(known \cup reserved)
      /\ Cardinality(known \cup reserved)
           = Cardinality(known) + Cardinality(reserved) - Cardinality(known \cap reserved)
  BY FS_Union DEF CacheInv, CachePlaces
<1>2. Cardinality(known \cap reserved) = 0
  BY FS_EmptySet DEF CacheInv, CachePlaces
<1>3. IsFiniteSet(S) /\ Cardinality(S) <= Cardinality(known \cup reserved)
  BY <1>1, FS_Subset
<1>4. Cardinality(known) \in Nat /\ Cardinality(reserved) \in Nat /\ Cardinality(S) \in Nat
  BY <1>3, FS_CardinalityType DEF CacheInv, CachePlaces
<1>5. MaxEntries \in Nat
  BY Constants DEF Cache!CacheConstants
<1> QED
  BY <1>1, <1>2, <1>3, <1>4, <1>5 DEF CacheInv, CachePlaces

\* A reserved entry becomes a known one: the places stay as they were.
LEMMA PlacesMove ==
  ASSUME CacheInv, NEW id \in known \cup reserved,
         known' = known \cup {id}, reserved' = reserved \ {id}
  PROVE  /\ known' \cap reserved' = {}
         /\ IsFiniteSet(known') /\ IsFiniteSet(reserved')
         /\ Cardinality(known') + Cardinality(reserved') <= MaxEntries
         /\ known' \cup reserved' = known \cup reserved
<1> USE DEF CacheInv, CachePlaces
<1>0. known' \cap reserved' = {} /\ known' \cup reserved' = known \cup reserved
  OBVIOUS
<1>1. CASE id \in known
  <2>1. known' = known /\ reserved' = reserved
    BY <1>1
  <2> QED
    BY <2>1
<1>2. CASE id \in reserved /\ id \notin known
  <2>1. IsFiniteSet(known') /\ Cardinality(known') = Cardinality(known) + 1
        /\ Cardinality(known) \in Nat
    BY <1>2, Grown
  <2>2. IsFiniteSet(reserved') /\ Cardinality(reserved') = Cardinality(reserved) - 1
        /\ Cardinality(reserved) \in Nat
    BY <1>2, Shrunk
  <2>3. MaxEntries \in Nat
    BY Constants DEF Cache!CacheConstants
  <2> QED
    BY <1>0, <2>1, <2>2, <2>3
<1> QED
  BY <1>1, <1>2

\* A reservation that ends leaves a place.
LEMMA PlacesLess ==
  ASSUME CacheInv, NEW id, known' = known, reserved' = reserved \ {id}
  PROVE  /\ known' \cap reserved' = {}
         /\ IsFiniteSet(known') /\ IsFiniteSet(reserved')
         /\ Cardinality(known') + Cardinality(reserved') <= MaxEntries
<1> USE DEF CacheInv, CachePlaces
<1>1. CASE id \notin reserved
  BY <1>1
<1>2. CASE id \in reserved
  <2>1. IsFiniteSet(reserved') /\ Cardinality(reserved') = Cardinality(reserved) - 1
        /\ Cardinality(reserved) \in Nat
    BY <1>2, Shrunk
  <2>2. Cardinality(known) \in Nat /\ MaxEntries \in Nat
    BY Constants, FS_CardinalityType DEF Cache!CacheConstants
  <2> QED
    BY <2>1, <2>2
<1> QED
  BY <1>1, <1>2

\* One acquisition's step keeps the invariant.
LEMMA AcquisitionKept ==
  ASSUME CacheInv, NEW id \in Repositories,
         \/ Cache!FindEntry(id) \/ Cache!Reserve(id) \/ Cache!CloneFails(id)
         \/ Cache!Install(id) \/ Cache!Finish(id) \/ Cache!Resolve(id)
         \/ Cache!DeleteByHand(id)
  PROVE  CacheInv'
<1>0. MaxEntries \in Nat /\ MaxRestarts \in Nat
  BY Constants DEF Cache!CacheConstants
<1> USE DEF CacheInv, CacheFits
<1>1. CASE Cache!FindEntry(id)
  <2>1. /\ Cache!Goes(id, "resolving") /\ acquiring[id] = "free" /\ id \in installed
        /\ UNCHANGED <<installed, temporary, known, reserved, restarts>>
    BY <1>1 DEF Cache!FindEntry
  <2>3. /\ acquiring' \in [Repositories ->
                              {"free", "cloning", "installed", "resolving", "down"}]
        /\ \A r \in Repositories :
             acquiring'[r] = IF r = id THEN "resolving" ELSE acquiring[r]
        /\ Cache!Up /\ Cache!Up'
    BY <2>1, CacheGoes
  <2>4. Cache!TypeOK'
    BY <2>1, <2>3 DEF Cache!TypeOK
  <2>5. CachePlaces'
    BY <2>1, <2>3 DEF CachePlaces
  <2>6. CacheDisk'
    BY <2>1, <2>3 DEF CacheDisk
  <2>7. CacheFits'
    BY <2>1, <2>3 DEF Cache!TypeOK
  <2> QED
    BY <2>4, <2>5, <2>6, <2>7
<1>2. CASE Cache!Reserve(id)
  <2>1. /\ Cache!Goes(id, "cloning") /\ acquiring[id] = "free" /\ id \notin installed
        /\ temporary' = temporary \cup {id}
        /\ UNCHANGED <<installed, known, restarts>>
    BY <1>2 DEF Cache!Reserve
  <2>3. /\ acquiring' \in [Repositories ->
                              {"free", "cloning", "installed", "resolving", "down"}]
        /\ \A r \in Repositories :
             acquiring'[r] = IF r = id THEN "cloning" ELSE acquiring[r]
        /\ Cache!Up /\ Cache!Up'
    BY <2>1, CacheGoes
  <2>4. /\ known' \cap reserved' = {}
        /\ IsFiniteSet(known') /\ IsFiniteSet(reserved')
        /\ Cardinality(known') + Cardinality(reserved') <= MaxEntries
        /\ reserved' \subseteq reserved \cup {id} /\ reserved \subseteq reserved'
        /\ id \in known' \cup reserved'
    <3>1. CASE id \in known \cup reserved /\ UNCHANGED reserved
      BY <2>1, <3>1 DEF CachePlaces
    <3>2. CASE /\ id \notin known \cup reserved
               /\ Cardinality(known) + Cardinality(reserved) < MaxEntries
               /\ reserved' = reserved \cup {id}
      <4>1. IsFiniteSet(reserved') /\ Cardinality(reserved') = Cardinality(reserved) + 1
            /\ Cardinality(reserved) \in Nat
        BY <3>2, Grown DEF CachePlaces
      <4>2. Cardinality(known) \in Nat
        BY FS_CardinalityType DEF CachePlaces
      <4>3. Cardinality(known') + Cardinality(reserved') <= MaxEntries
        BY <1>0, <2>1, <3>2, <4>1, <4>2
      <4> QED
        BY <2>1, <3>2, <4>1, <4>3 DEF CachePlaces
    <3> QED
      BY <1>2, <3>1, <3>2, CacheCardinality DEF Cache!Reserve
  <2>5. Cache!TypeOK'
    BY <2>1, <2>3, <2>4 DEF Cache!TypeOK
  <2>6. CachePlaces'
    BY <2>1, <2>3, <2>4 DEF CachePlaces
  <2>7. CacheDisk'
    BY <2>1, <2>3 DEF CacheDisk
  <2>8. CacheFits'
    BY <2>1, <2>3, <2>4 DEF Cache!TypeOK
  <2> QED
    BY <2>5, <2>6, <2>7, <2>8
<1>3. CASE Cache!CloneFails(id)
  <2>1. /\ Cache!Goes(id, "free") /\ acquiring[id] = "cloning" /\ id \notin installed
        /\ temporary' = temporary \ {id} /\ reserved' = reserved \ {id}
        /\ UNCHANGED <<installed, known, restarts>>
    BY <1>3 DEF Cache!CloneFails, CacheDisk
  <2>3. /\ acquiring' \in [Repositories ->
                              {"free", "cloning", "installed", "resolving", "down"}]
        /\ \A r \in Repositories : acquiring'[r] = IF r = id THEN "free" ELSE acquiring[r]
        /\ Cache!Up /\ Cache!Up'
    BY <2>1, CacheGoes
  <2>4. Cache!TypeOK'
    BY <2>1, <2>3 DEF Cache!TypeOK
  <2>5. CachePlaces'
    BY <2>1, <2>3, PlacesLess DEF CachePlaces
  <2>6. CacheDisk'
    BY <2>1, <2>3 DEF CacheDisk
  <2>7. CacheFits'
    BY <2>1, <2>3 DEF Cache!TypeOK
  <2> QED
    BY <2>4, <2>5, <2>6, <2>7
<1>4. CASE Cache!Install(id)
  <2>1. /\ Cache!Goes(id, "installed") /\ acquiring[id] = "cloning"
        /\ installed' = installed \cup {id}
        /\ UNCHANGED <<temporary, known, reserved, restarts>>
    BY <1>4 DEF Cache!Install
  <2>3. /\ acquiring' \in [Repositories ->
                              {"free", "cloning", "installed", "resolving", "down"}]
        /\ \A r \in Repositories :
             acquiring'[r] = IF r = id THEN "installed" ELSE acquiring[r]
        /\ Cache!Up /\ Cache!Up'
    BY <2>1, CacheGoes
  <2>4. Cache!TypeOK'
    BY <2>1, <2>3 DEF Cache!TypeOK
  <2>5. CachePlaces'
    BY <2>1, <2>3 DEF CachePlaces
  <2>6. installed' \subseteq known \cup reserved
    BY <2>1, <2>3 DEF CachePlaces
  <2>7. IsFiniteSet(installed') /\ Cardinality(installed') <= MaxEntries
    BY <2>6, PlacesBound
  <2>8. CacheDisk'
    BY <2>1, <2>3, <2>7 DEF CacheDisk
  <2>9. CacheFits'
    BY <2>1, <2>3, <2>6, <2>7 DEF Cache!TypeOK
  <2> QED
    BY <2>4, <2>5, <2>8, <2>9
<1>5. CASE Cache!Finish(id)
  <2>1. /\ acquiring[id] = "installed" /\ temporary' = temporary \ {id}
        /\ known' = known \cup {id} /\ reserved' = reserved \ {id}
        /\ UNCHANGED <<installed, restarts>>
    BY <1>5 DEF Cache!Finish
  <2>2. PICK at \in {"resolving", "free"} : Cache!Goes(id, at)
    BY <1>5 DEF Cache!Finish
  <2>3. /\ acquiring' \in [Repositories ->
                              {"free", "cloning", "installed", "resolving", "down"}]
        /\ \A r \in Repositories : acquiring'[r] = IF r = id THEN at ELSE acquiring[r]
        /\ Cache!Up /\ Cache!Up'
    BY <2>1, <2>2, CacheGoes
  <2>4. Cache!TypeOK'
    BY <2>1, <2>3 DEF Cache!TypeOK
  <2>5. id \in known \cup reserved
    BY <2>1 DEF CachePlaces
  <2>6. CachePlaces' /\ known' \cup reserved' = known \cup reserved
    BY <2>1, <2>3, <2>5, PlacesMove DEF CachePlaces
  <2>7. CacheDisk'
    BY <2>1, <2>2, <2>3 DEF CacheDisk
  <2>8. CacheFits'
    BY <2>1, <2>2, <2>3, <2>6 DEF Cache!TypeOK
  <2> QED
    BY <2>4, <2>6, <2>7, <2>8
<1>6. CASE Cache!Resolve(id)
  <2>1. /\ acquiring[id] = "resolving" /\ Cache!Goes(id, "free")
        /\ UNCHANGED <<installed, temporary, restarts>>
    BY <1>6 DEF Cache!Resolve
  <2>3. /\ acquiring' \in [Repositories ->
                              {"free", "cloning", "installed", "resolving", "down"}]
        /\ \A r \in Repositories : acquiring'[r] = IF r = id THEN "free" ELSE acquiring[r]
        /\ Cache!Up /\ Cache!Up'
    BY <2>1, CacheGoes
  <2>4. id \in known \cup reserved
    BY <2>1 DEF CachePlaces
  <2>5. \/ known' = known \cup {id} /\ reserved' = reserved \ {id}
        \/ UNCHANGED <<known, reserved>>
    BY <1>6 DEF Cache!Resolve
  <2>6. Cache!TypeOK'
    BY <2>1, <2>3, <2>5 DEF Cache!TypeOK
  <2>7. CachePlaces' /\ known' \cup reserved' = known \cup reserved
    BY <2>1, <2>3, <2>4, <2>5, PlacesMove DEF CachePlaces
  <2>8. CacheDisk'
    BY <2>1, <2>3 DEF CacheDisk
  <2>9. CacheFits'
    BY <2>1, <2>3, <2>5, <2>7 DEF Cache!TypeOK
  <2> QED
    BY <2>6, <2>7, <2>8, <2>9
<1>7. CASE Cache!DeleteByHand(id)
  <2>1. /\ acquiring[id] = "free" /\ id \in installed /\ installed' = installed \ {id}
        /\ UNCHANGED <<temporary, known, reserved, acquiring, restarts>>
    BY <1>7 DEF Cache!DeleteByHand
  <2>2. IsFiniteSet(installed') /\ Cardinality(installed') <= Cardinality(installed)
        /\ Cardinality(installed) \in Nat /\ Cardinality(installed') \in Nat
    BY <2>1, FS_Subset, FS_CardinalityType DEF CacheDisk
  <2>3. Cache!TypeOK' /\ CachePlaces'
    BY <2>1 DEF Cache!TypeOK, CachePlaces
  <2>4. Cache!Up /\ Cache!Up'
    BY <2>1 DEF CacheDisk, Cache!Up
  <2>5. CacheDisk'
    BY <2>1, <2>2, <2>4 DEF CacheDisk
  <2>6. CacheFits'
    BY <1>0, <2>1, <2>2, <2>4
  <2> QED
    BY <2>3, <2>5, <2>6
<1> QED
  BY <1>1, <1>2, <1>3, <1>4, <1>5, <1>6, <1>7

LEMMA CacheKept == ASSUME CacheInv, [Cache!Next]_cacheVars PROVE CacheInv'
<1>0. MaxEntries \in Nat /\ MaxRestarts \in Nat
  BY Constants DEF Cache!CacheConstants
<1>1. CASE \E id \in Repositories :
             \/ Cache!FindEntry(id) \/ Cache!Reserve(id) \/ Cache!CloneFails(id)
             \/ Cache!Install(id) \/ Cache!Finish(id) \/ Cache!Resolve(id)
             \/ Cache!DeleteByHand(id)
  BY <1>1, AcquisitionKept
<1>2. CASE Cache!Crash
  <2>1. /\ Cache!Up /\ restarts < MaxRestarts /\ restarts' = restarts + 1
        /\ known' = {} /\ reserved' = {}
        /\ acquiring' = [id \in Repositories |-> "down"]
        /\ UNCHANGED <<installed, temporary>>
    BY <1>2 DEF Cache!Crash
  <2>2. IsFiniteSet({}) /\ Cardinality({}) = 0
    BY FS_EmptySet
  <2>3. Cache!TypeOK'
    BY <1>0, <2>1 DEF CacheInv, Cache!TypeOK
  <2>4. CachePlaces'
    BY <1>0, <2>1, <2>2 DEF CachePlaces
  <2>5. CacheDisk'
    BY <2>1 DEF CacheInv, CacheDisk
  <2>6. Repositories = {} => installed' = {}
    BY <2>1 DEF CacheInv, Cache!TypeOK
  <2>7. CacheFits'
    BY <2>1, <2>6 DEF CacheInv, CacheFits, Cache!Up, Cache!TypeOK
  <2> QED
    BY <2>3, <2>4, <2>5, <2>7 DEF CacheInv
<1>3. CASE Cache!Start
  <2>1. /\ ~Cache!Up /\ temporary' = {} /\ known' = installed
        /\ acquiring' = [id \in Repositories |-> "free"]
        /\ UNCHANGED <<installed, reserved, restarts>>
    BY <1>3 DEF Cache!Start, Cache!Free
  <2>2. reserved = {} /\ IsFiniteSet(installed) /\ Cardinality(installed) <= MaxEntries
    BY <2>1 DEF CacheInv, CacheDisk, CacheFits
  <2>3. IsFiniteSet({}) /\ Cardinality({}) = 0 /\ Cardinality(installed) \in Nat
    BY <2>2, FS_EmptySet, FS_CardinalityType
  <2>4. Cache!TypeOK'
    BY <2>1, <2>2 DEF CacheInv, Cache!TypeOK
  <2>5. CachePlaces'
    BY <1>0, <2>1, <2>2, <2>3 DEF CachePlaces
  <2>6. CacheDisk'
    BY <2>1, <2>2 DEF CacheDisk, Cache!Up
  <2>7. CacheFits'
    BY <2>1, <2>2 DEF CacheFits, Cache!TypeOK
  <2> QED
    BY <2>4, <2>5, <2>6, <2>7 DEF CacheInv
<1>4. CASE UNCHANGED cacheVars
  BY <1>4 DEF cacheVars, CacheInv, CachePlaces, CacheDisk, CacheFits, Cache!TypeOK, Cache!Up
<1> QED
  BY <1>1, <1>2, <1>3, <1>4 DEF Cache!Next

\* The worker's cache of repositories never outgrows its limit, whoever clones at the
\* same time and wherever the worker stops, and neither a reservation nor a temporary
\* directory outlives its clone by more than a restart.
THEOREM CacheAlwaysBounded == Spec => []CacheBounded
<1>1. CacheInv /\ [Next]_vars => CacheInv'
  BY CacheStep, CacheKept
<1>2. CacheInv => CacheBounded
  BY CacheFitsBounds DEF CacheInv
<1> QED
  BY CacheInit, <1>1, <1>2, PTL DEF Spec

-----------------------------------------------------------------------------
(* EventForwarding.                                                        *)

\* A step of the whole is a step of the forwarding or leaves it alone.
LEMMA EventsStep == [Next]_vars => [Events!Next]_eventsVars
BY DEF Next, vars, Schedules, Publication, Enrollment, Admissions, Locking, Caching,
       Forwarding, Dispatching, eventsVars

\* The events that left the queue.
Taken == sent - Len(queue)

\* What the agent printed stands in three places, one after the other and without a gap:
\* in the log, at the sender, in the queue.
EventsInOrder ==
  /\ queue \in Seq([sequence : Nat, content : Nat]) /\ Len(queue) <= sent
  /\ \A i \in 1 .. Len(queue) : queue[i] = Events!Event(Taken + i - 1)
  /\ log \in Seq([sequence : Nat, content : Nat])
  /\ \A i \in 1 .. Len(log) : log[i] = Events!Event(i - 1)
  /\ sending = None => Len(log) = Taken
  /\ sending # None => /\ Taken > 0 /\ sending = Events!Event(Taken - 1)
                       /\ Len(log) \in {Taken - 1, Taken}

\* While the sender takes events none was dropped.
EventsCounted ==
  /\ sent <= line
  /\ ~sender.disabled /\ ~sender.closed => line = sent

EventsInv == Events!TypeOK /\ EventsInOrder /\ EventsCounted /\ Events!GivesUpForCause

LEMMA EventsInit == Init => EventsInv
<1> SUFFICES ASSUME Init PROVE EventsInv
  OBVIOUS
<1>1. Events!Init
  BY DEF Init
<1>2. Capacity \in Nat /\ Budget \in Nat /\ MaxLines \in Nat /\ MaxLost \in Nat
  BY Constants DEF Events!EventConstants
<1>3. /\ line = 0 /\ queue = <<>> /\ sent = 0 /\ sending = None /\ log = <<>>
      /\ lease = TRUE /\ lost = 0
      /\ sender = [disabled |-> FALSE, closed |-> FALSE, done |-> FALSE]
  BY <1>1 DEF Events!Init
<1>4. Len(<<>>) = 0 /\ <<>> \in Seq([sequence : Nat, content : Nat])
  OBVIOUS
<1>5. Events!TypeOK
  BY <1>2, <1>3, <1>4 DEF Events!TypeOK
<1>6. Len(queue) = 0 /\ Len(log) = 0 /\ Taken = 0
  <2>1. Len(queue) = 0 /\ Len(log) = 0
    BY <1>3
  <2>2. 0 - 0 = 0
    OBVIOUS
  <2> QED
    BY <1>3, <2>1, <2>2 DEF Taken
<1>7. EventsInOrder
  <2>1. /\ queue \in Seq([sequence : Nat, content : Nat])
        /\ log \in Seq([sequence : Nat, content : Nat])
    BY <1>3, <1>4
  <2>2. /\ \A i \in 1 .. Len(queue) : queue[i] = Events!Event(Taken + i - 1)
        /\ \A i \in 1 .. Len(log) : log[i] = Events!Event(i - 1)
    <3>1. 1 .. 0 = {}
      OBVIOUS
    <3> QED
      BY <1>6, <3>1
  <2> QED
    BY <1>3, <1>6, <2>1, <2>2 DEF EventsInOrder
<1> QED
  BY <1>3, <1>5, <1>7 DEF EventsInv, EventsCounted, Events!GivesUpForCause

\* The server takes the event the sender holds exactly once, and refuses it for a cause.
LEMMA EventAccepted ==
  ASSUME EventsInv, sending # None
  PROVE  /\ Events!Accepted(sending) =>
              \/ Len(log) = Taken /\ Events!After(sending) = log
              \/ /\ Len(log) = Taken - 1 /\ Len(log) < Budget
                 /\ Events!After(sending) = Append(log, sending)
         /\ ~Events!Accepted(sending) => ~lease \/ Len(log) = Budget
<1>1. /\ log \in Seq([sequence : Nat, content : Nat])
      /\ \A i \in 1 .. Len(log) : log[i] = [sequence |-> i - 1, content |-> i - 1]
      /\ Taken \in Nat /\ Taken > 0
      /\ sending = [sequence |-> Taken - 1, content |-> Taken - 1]
      /\ Len(log) \in {Taken - 1, Taken}
  <2>1. Taken \in Nat
    BY Constants DEF EventsInv, EventsInOrder, Events!TypeOK, Taken, Events!EventConstants
  <2> QED
    BY <2>1 DEF EventsInv, EventsInOrder, Events!Event
<1>2. Len(log) \in Nat /\ DOMAIN log = 1 .. Len(log) /\ Len(log) <= Budget
      /\ Budget \in Nat
  BY <1>1, Constants DEF EventsInv, Events!TypeOK, Events!EventConstants
<1>3. CASE Len(log) = Taken
  <2>1. log[Taken] = sending /\ Taken \in DOMAIN log
    BY <1>1, <1>2, <1>3
  <2>2. sending \in Events!Range(log)
    BY <2>1 DEF Events!Range
  <2> QED
    BY <1>3, <2>2 DEF Events!Accepted, Events!After
<1>4. CASE Len(log) = Taken - 1
  <2>1. \A i \in DOMAIN log : log[i].sequence < sending.sequence
    BY <1>1, <1>2, <1>4
  <2>2. sending \notin Events!Range(log) /\ ~Events!Replayed(sending)
    <3>1. \A i \in DOMAIN log : log[i] # sending /\ log[i].sequence # sending.sequence
      <4> SUFFICES ASSUME NEW i \in DOMAIN log
                   PROVE  log[i].sequence # sending.sequence
        OBVIOUS
      <4>1. log[i].sequence = i - 1 /\ sending.sequence = Taken - 1 /\ i \in 1 .. Taken - 1
        BY <1>1, <1>2, <1>4
      <4> QED
        BY <1>1, <4>1
    <3> QED
      BY <3>1 DEF Events!Range, Events!Replayed
  <2>3. Events!After(sending) = Append(log, sending)
    BY <2>2 DEF Events!After
  <2> QED
    BY <1>2, <1>4, <2>1, <2>2, <2>3 DEF Events!Accepted
<1> QED
  BY <1>1, <1>3, <1>4

\* The log keeps its order and its bound when the server stores the sender's event.
LEMMA LogGrows ==
  ASSUME EventsInv, sending # None, Events!Accepted(sending),
         log' = Events!After(sending)
  PROVE  /\ log' \in Seq([sequence : Nat, content : Nat])
         /\ \A i \in 1 .. Len(log') : log'[i] = Events!Event(i - 1)
         /\ Len(log') = Taken /\ Len(log') <= Budget
         /\ Len(log) = Budget => Len(log') = Budget
<1>1. /\ log \in Seq([sequence : Nat, content : Nat]) /\ Len(log) \in Nat
      /\ \A i \in 1 .. Len(log) : log[i] = Events!Event(i - 1)
      /\ Taken \in Nat /\ Taken > 0 /\ sending = Events!Event(Taken - 1)
  <2>1. Taken \in Nat
    BY Constants DEF EventsInv, EventsInOrder, Events!TypeOK, Taken, Events!EventConstants
  <2> QED
    BY <2>1 DEF EventsInv, EventsInOrder
<1>2. Budget \in Nat /\ Len(log) <= Budget
  BY Constants DEF EventsInv, Events!TypeOK, Events!EventConstants
<1>3. CASE Len(log) = Taken /\ log' = log
  BY <1>1, <1>2, <1>3
<1>4. CASE Len(log) = Taken - 1 /\ Len(log) < Budget /\ log' = Append(log, sending)
  <2>1. sending \in [sequence : Nat, content : Nat]
    BY <1>1 DEF Events!Event
  <2>2. /\ log' \in Seq([sequence : Nat, content : Nat]) /\ Len(log') = Taken
        /\ \A i \in 1 .. Len(log) : log'[i] = log[i]
        /\ log'[Taken] = sending
    <3> DEFINE E == [sequence : Nat, content : Nat]
    <3>1. log \in Seq(E) /\ sending \in E /\ log' = Append(log, sending)
      BY <1>1, <1>4, <2>1
    <3> HIDE DEF E
    <3>2. /\ log' \in Seq(E) /\ Len(log') = Len(log) + 1
          /\ \A i \in 1 .. Len(log) : log'[i] = log[i]
          /\ log'[Len(log) + 1] = sending
      BY <3>1
    <3> QED
      BY <1>1, <1>4, <3>2 DEF E
  <2>3. \A i \in 1 .. Len(log') : log'[i] = Events!Event(i - 1)
    <3> SUFFICES ASSUME NEW i \in 1 .. Len(log') PROVE log'[i] = Events!Event(i - 1)
      OBVIOUS
    <3>1. i \in 1 .. Len(log) \/ i = Taken
      BY <1>1, <1>4, <2>2
    <3> QED
      BY <1>1, <2>2, <3>1
  <2> QED
    BY <1>1, <1>2, <1>4, <2>2, <2>3
<1> QED
  BY <1>3, <1>4, EventAccepted

LEMMA EventsKept == ASSUME EventsInv, [Events!Next]_eventsVars PROVE EventsInv'
<1>0. /\ Capacity \in Nat /\ Budget \in Nat /\ MaxLines \in Nat /\ MaxLost \in Nat
      /\ \A k \in 0 .. MaxLines : None # Events!Event(k)
  BY Constants DEF Events!EventConstants
<1>t. /\ line \in 0 .. MaxLines /\ sent \in 0 .. MaxLines /\ lost \in 0 .. MaxLost
      /\ Len(queue) <= Capacity /\ Len(log) <= Budget
      /\ sender \in [disabled : BOOLEAN, closed : BOOLEAN, done : BOOLEAN]
      /\ lease \in BOOLEAN /\ sent <= line
      /\ queue \in Seq([sequence : Nat, content : Nat]) /\ Len(queue) <= sent
      /\ log \in Seq([sequence : Nat, content : Nat])
      /\ Len(queue) \in Nat /\ Len(log) \in Nat /\ Taken \in Nat
  <2>1. /\ line \in 0 .. MaxLines /\ sent \in 0 .. MaxLines /\ lost \in 0 .. MaxLost
        /\ Len(queue) <= Capacity /\ Len(log) <= Budget
        /\ sender \in [disabled : BOOLEAN, closed : BOOLEAN, done : BOOLEAN]
        /\ lease \in BOOLEAN /\ sent <= line
        /\ queue \in Seq([sequence : Nat, content : Nat]) /\ Len(queue) <= sent
        /\ log \in Seq([sequence : Nat, content : Nat])
    BY DEF EventsInv, Events!TypeOK, EventsInOrder, EventsCounted
  <2>2. Len(queue) \in Nat /\ Len(log) \in Nat
    BY <2>1
  <2> QED
    BY <1>0, <2>1, <2>2 DEF Taken
<1>1. CASE Events!Enqueue
  <2>0. line < MaxLines /\ line' = line + 1 /\ UNCHANGED <<sending, log, lease, lost>>
    BY <1>1 DEF Events!Enqueue
  <2>1. CASE sender.disabled \/ sender.closed
    <3>1. UNCHANGED <<queue, sent, sender>>
      BY <1>1, <2>1 DEF Events!Enqueue
    <3>2. Taken' = Taken
      BY <3>1 DEF Taken
    <3>3. Events!TypeOK' /\ EventsCounted'
      BY <1>0, <1>t, <2>0, <2>1, <3>1 DEF Events!TypeOK, EventsCounted
    <3>4. EventsInOrder'
      BY <2>0, <3>1, <3>2 DEF EventsInv, EventsInOrder
    <3>5. Events!GivesUpForCause'
      BY <1>t, <2>0, <3>1 DEF EventsInv, Events!GivesUpForCause
    <3> QED
      BY <3>3, <3>4, <3>5 DEF EventsInv
  <2>2. CASE ~sender.disabled /\ ~sender.closed /\ Len(queue) < Capacity
    <3>1. /\ queue' = Append(queue, [sequence |-> sent, content |-> line])
          /\ sent' = sent + 1 /\ UNCHANGED sender
      BY <1>0, <1>1, <1>t, <2>2 DEF Events!Enqueue
    <3>2. line = sent
      BY <2>2 DEF EventsInv, EventsCounted
    <3>3. /\ queue' = Append(queue, Events!Event(sent))
          /\ Events!Event(sent) \in [sequence : Nat, content : Nat]
      BY <1>0, <1>t, <3>1, <3>2 DEF Events!Event
    <3>4. /\ queue' \in Seq([sequence : Nat, content : Nat])
          /\ Len(queue') = Len(queue) + 1
          /\ \A i \in 1 .. Len(queue) : queue'[i] = queue[i]
          /\ queue'[Len(queue) + 1] = Events!Event(sent)
      BY <1>t, <3>3
    <3>5. Taken' = Taken
      BY <1>0, <1>t, <3>1, <3>4 DEF Taken
    <3>6. \A i \in 1 .. Len(queue') : queue'[i] = Events!Event(Taken + i - 1)
      <4> SUFFICES ASSUME NEW i \in 1 .. Len(queue')
                   PROVE  queue'[i] = Events!Event(Taken + i - 1)
        OBVIOUS
      <4>1. CASE i \in 1 .. Len(queue)
        BY <3>4, <4>1 DEF EventsInv, EventsInOrder
      <4>2. CASE i = Len(queue) + 1
        <5>1. Taken + i - 1 = sent
          BY <1>0, <1>t, <4>2 DEF Taken
        <5> QED
          BY <3>4, <4>2, <5>1
      <4> QED
        BY <1>t, <3>4, <4>1, <4>2
    <3>7. Events!TypeOK' /\ EventsCounted'
      BY <1>0, <1>t, <2>0, <2>2, <3>1, <3>2, <3>4 DEF Events!TypeOK, EventsCounted
    <3>8. Len(queue') <= sent'
      BY <1>0, <1>t, <3>1, <3>4
    <3>9. EventsInOrder'
      BY <2>0, <3>4, <3>5, <3>6, <3>8 DEF EventsInv, EventsInOrder
    <3>10. Events!GivesUpForCause'
      BY <2>2, <3>1 DEF Events!GivesUpForCause
    <3> QED
      BY <3>7, <3>9, <3>10 DEF EventsInv
  <2>3. CASE ~sender.disabled /\ ~sender.closed /\ Len(queue) >= Capacity
    <3>1. sender' = [sender EXCEPT !.disabled = TRUE] /\ UNCHANGED <<queue, sent>>
      BY <1>0, <1>1, <1>t, <2>3 DEF Events!Enqueue
    <3>2. Taken' = Taken
      BY <3>1 DEF Taken
    <3>3. sender' \in [disabled : BOOLEAN, closed : BOOLEAN, done : BOOLEAN]
          /\ sender'.disabled
      BY <1>t, <3>1
    <3>4. Events!TypeOK' /\ EventsCounted'
      BY <1>0, <1>t, <2>0, <3>1, <3>3 DEF Events!TypeOK, EventsCounted
    <3>5. EventsInOrder'
      BY <2>0, <3>1, <3>2 DEF EventsInv, EventsInOrder
    <3>6. Events!GivesUpForCause'
      BY <1>0, <1>t, <2>0, <3>1 DEF Events!GivesUpForCause
    <3> QED
      BY <3>4, <3>5, <3>6 DEF EventsInv
  <2> QED
    BY <1>1, <2>1, <2>2, <2>3 DEF Events!Enqueue
<1>2. CASE Events!TakeEvent
  <2>1. /\ sending = None /\ queue # <<>> /\ sending' = Head(queue) /\ queue' = Tail(queue)
        /\ UNCHANGED <<line, sent, sender, log, lease, lost>>
    BY <1>2 DEF Events!TakeEvent
  <2>2. /\ queue' \in Seq([sequence : Nat, content : Nat])
        /\ Len(queue) > 0 /\ Len(queue') = Len(queue) - 1 /\ Head(queue) = queue[1]
        /\ \A i \in 1 .. Len(queue') : queue'[i] = queue[i + 1]
    BY <1>t, <2>1
  <2>3. Taken' = Taken + 1 /\ Taken' \in Nat /\ Taken \in 0 .. MaxLines
    BY <1>0, <1>t, <2>1, <2>2 DEF Taken
  <2>4. \A i \in 1 .. Len(queue') : queue'[i] = Events!Event(Taken' + i - 1)
    <3> SUFFICES ASSUME NEW i \in 1 .. Len(queue')
                 PROVE  queue'[i] = Events!Event(Taken' + i - 1)
      OBVIOUS
    <3>1. i + 1 \in 1 .. Len(queue) /\ Taken + (i + 1) - 1 = Taken' + i - 1
      BY <1>t, <2>2, <2>3
    <3> QED
      BY <2>2, <3>1 DEF EventsInv, EventsInOrder
  <2>5. sending' = Events!Event(Taken' - 1) /\ sending' # None
    <3>1. 1 \in 1 .. Len(queue) /\ Taken + 1 - 1 = Taken /\ Taken' - 1 = Taken
      BY <1>t, <2>2, <2>3
    <3>2. queue[1] = Events!Event(Taken)
      BY <3>1 DEF EventsInv, EventsInOrder
    <3> QED
      BY <1>0, <2>1, <2>2, <2>3, <3>1, <3>2
  <2>6. Len(log') \in {Taken' - 1, Taken'} /\ Taken' > 0
    BY <1>t, <2>1, <2>3 DEF EventsInv, EventsInOrder
  <2>7. Len(queue') <= sent' /\ Len(queue') <= Capacity
    BY <1>0, <1>t, <2>1, <2>2
  <2>8. EventsInOrder'
    BY <2>1, <2>2, <2>4, <2>5, <2>6, <2>7 DEF EventsInv, EventsInOrder
  <2>9. Events!TypeOK' /\ EventsCounted' /\ Events!GivesUpForCause'
    BY <2>1, <2>7 DEF EventsInv, Events!TypeOK, EventsCounted, Events!GivesUpForCause
  <2> QED
    BY <2>8, <2>9 DEF EventsInv
<1>3. CASE Events!Answered
  <2>1. /\ sending # None /\ Events!Accepted(sending) /\ log' = Events!After(sending)
        /\ sending' = None /\ UNCHANGED <<line, queue, sent, sender, lease, lost>>
    BY <1>3 DEF Events!Answered
  <2>2. /\ log' \in Seq([sequence : Nat, content : Nat])
        /\ \A i \in 1 .. Len(log') : log'[i] = Events!Event(i - 1)
        /\ Len(log') = Taken /\ Len(log') <= Budget
        /\ Len(log) = Budget => Len(log') = Budget
    BY <2>1, LogGrows
  <2>3. Taken' = Taken
    BY <2>1 DEF Taken
  <2>4. EventsInOrder'
    BY <2>1, <2>2, <2>3 DEF EventsInv, EventsInOrder
  <2>5. Events!TypeOK' /\ EventsCounted' /\ Events!GivesUpForCause'
    BY <2>1, <2>2 DEF EventsInv, Events!TypeOK, EventsCounted, Events!GivesUpForCause
  <2> QED
    BY <2>4, <2>5 DEF EventsInv
<1>4. CASE Events!AnswerLost
  <2>1. /\ sending # None /\ lost < MaxLost /\ lost' = lost + 1
        /\ log' = log \/ (Events!Accepted(sending) /\ log' = Events!After(sending))
        /\ UNCHANGED <<line, queue, sent, sender, sending, lease>>
    <3>1. /\ sending # None /\ lost < MaxLost /\ lost' = lost + 1
          /\ UNCHANGED <<line, queue, sent, sender, sending, lease>>
          /\ log' \in {log} \cup {Events!After(e) :
                                  e \in {f \in {sending} : Events!Accepted(f)}}
      BY <1>4 DEF Events!AnswerLost
    <3> HIDE <1>4
    <3>2. ASSUME log' # log
          PROVE  Events!Accepted(sending) /\ log' = Events!After(sending)
      <4>1. PICK e \in {f \in {sending} : Events!Accepted(f)} : log' = Events!After(e)
        BY <3>1, <3>2
      <4>2. e = sending /\ Events!Accepted(e)
        BY <4>1
      <4> QED
        BY <4>1, <4>2
    <3> QED
      BY <3>1, <3>2
  <2>2. /\ log' \in Seq([sequence : Nat, content : Nat])
        /\ \A i \in 1 .. Len(log') : log'[i] = Events!Event(i - 1)
        /\ Len(log') \in {Taken - 1, Taken} /\ Len(log') <= Budget
        /\ Len(log) = Budget => Len(log') = Budget
    <3>1. CASE log' = log
      BY <2>1, <3>1 DEF EventsInv, EventsInOrder, Events!TypeOK
    <3>2. CASE Events!Accepted(sending) /\ log' = Events!After(sending)
      BY <2>1, <3>2, LogGrows
    <3> QED
      BY <2>1, <3>1, <3>2
  <2>3. Taken' = Taken
    BY <2>1 DEF Taken
  <2>4. EventsInOrder'
    BY <2>1, <2>2, <2>3 DEF EventsInv, EventsInOrder
  <2>5. lost' \in 0 .. MaxLost
    BY <1>0, <1>t, <2>1
  <2>6. Events!TypeOK' /\ EventsCounted' /\ Events!GivesUpForCause'
    BY <2>1, <2>2, <2>5 DEF EventsInv, Events!TypeOK, EventsCounted, Events!GivesUpForCause
  <2> QED
    BY <2>4, <2>6 DEF EventsInv
<1>5. CASE Events!Refused
  <2>1. /\ sending # None /\ ~Events!Accepted(sending)
        /\ sender' = [sender EXCEPT !.disabled = TRUE, !.done = TRUE]
        /\ UNCHANGED <<line, queue, sent, sending, log, lease, lost>>
    BY <1>5 DEF Events!Refused
  <2>2. sender' \in [disabled : BOOLEAN, closed : BOOLEAN, done : BOOLEAN]
        /\ sender'.disabled
    BY <1>t, <2>1
  <2>3. ~lease \/ Len(log) = Budget
    BY <2>1, EventAccepted
  <2>4. EventsInOrder'
    BY <2>1 DEF EventsInv, EventsInOrder, Taken
  <2>5. Events!TypeOK' /\ EventsCounted' /\ Events!GivesUpForCause'
    BY <2>1, <2>2, <2>3 DEF EventsInv, Events!TypeOK, EventsCounted, Events!GivesUpForCause
  <2> QED
    BY <2>4, <2>5 DEF EventsInv
<1>6. CASE Events!Drained \/ Events!Cancelled \/ Events!Close
  <2>1. UNCHANGED <<line, queue, sent, sending, log, lease, lost>>
    BY <1>6 DEF Events!Drained, Events!Cancelled, Events!Close
  <2>2. \/ sender' = [sender EXCEPT !.done = TRUE]
        \/ sender' = [sender EXCEPT !.closed = TRUE]
    BY <1>6 DEF Events!Drained, Events!Cancelled, Events!Close
  <2>3. /\ sender' \in [disabled : BOOLEAN, closed : BOOLEAN, done : BOOLEAN]
        /\ sender'.disabled = sender.disabled
        /\ sender.closed => sender'.closed
    BY <1>t, <2>2
  <2>4. EventsInOrder'
    BY <2>1 DEF EventsInv, EventsInOrder, Taken
  <2>5. Events!TypeOK' /\ EventsCounted' /\ Events!GivesUpForCause'
    BY <2>1, <2>3 DEF EventsInv, Events!TypeOK, EventsCounted, Events!GivesUpForCause
  <2> QED
    BY <2>4, <2>5 DEF EventsInv
<1>7. CASE Events!LeaseEnds
  <2>1. lease' = FALSE /\ UNCHANGED <<line, queue, sent, sender, sending, log, lost>>
    BY <1>7 DEF Events!LeaseEnds
  <2>2. EventsInOrder'
    BY <2>1 DEF EventsInv, EventsInOrder, Taken
  <2> QED
    BY <2>1, <2>2 DEF EventsInv, Events!TypeOK, EventsCounted, Events!GivesUpForCause
<1>8. CASE UNCHANGED eventsVars
  BY <1>8 DEF eventsVars, EventsInv, EventsInOrder, Taken, Events!TypeOK, EventsCounted,
     Events!GivesUpForCause
<1> QED
  BY <1>1, <1>2, <1>3, <1>4, <1>5, <1>6, <1>7, <1>8 DEF Events!Next

\* The server's log of an attempt is the beginning of the agent's output without a hole,
\* and the sender gives up for a cause only, whatever requests fail or answers are lost.
THEOREM LogAlwaysSound == Spec => []LogSound
<1>1. EventsInv /\ [Next]_vars => EventsInv'
  BY EventsStep, EventsKept
<1>2. EventsInv => LogSound
  <2> SUFFICES ASSUME EventsInv PROVE LogSound
    OBVIOUS
  <2>1. DOMAIN log = 1 .. Len(log)
    BY DEF EventsInv, EventsInOrder
  <2> QED
    BY <2>1 DEF EventsInv, EventsInOrder, LogSound, Events!LogHasNoHole
<1> QED
  BY EventsInit, <1>1, <1>2, PTL DEF Spec

-----------------------------------------------------------------------------
(* AdmissionJournal.                                                       *)

\* A step of the whole is a step of the journal's processes or leaves them alone.
LEMMA JournalStep == [Next]_vars => [Journal!Next]_journalVars
BY DEF Next, vars, Schedules, Publication, Enrollment, Admissions, Locking, Caching,
       Forwarding, Dispatching, journalVars

\* The steps between LockJournal and its release.
AtFile == {"reading", "drawing", "rereading", "removing"}

JournalTypes ==
  /\ admissions \subseteq Journal!Entry
  /\ scopeLock \in [Scope -> Process \cup {None}] /\ journalLock \in Process \cup {None}
  /\ posting \in [Process -> Journal!Steps] /\ scope \in [Process -> Scope \cup {None}]
  /\ key \in [Process -> Journal!Key \cup {0}] /\ copy \in [Process -> SUBSET Journal!Entry]
  /\ drawn \in 0 .. MaxKeys /\ interrupts \in 0 .. MaxInterrupts
  /\ admitted \subseteq Journal!Entry /\ late \subseteq Journal!Entry
  /\ reported \subseteq Journal!Key

\* A process holds the lock of its scope, and of that scope only; who reads or writes
\* the file holds journal.lock, and what it read is what the file says.
JournalHeld ==
  /\ \A p \in Process : posting[p] # "idle" => scope[p] \in Scope /\ scopeLock[scope[p]] = p
  /\ \A s \in Scope : scopeLock[s] # None =>
       posting[scopeLock[s]] # "idle" /\ scope[scopeLock[s]] = s
  /\ \A p \in Process : posting[p] \in AtFile <=> journalLock = p
  /\ \A p \in Process : posting[p] \in {"drawing", "removing"} => copy[p] = admissions

\* A scope has one entry at a time; it is newer than every Run of the scope that the
\* server admitted, and a request without a process waits for an entry still there.
JournalEntries ==
  /\ IsFiniteSet(admissions) /\ Cardinality(admissions) <= MaxPending
  /\ \A e \in admissions \cup admitted : e.key <= drawn
  /\ \A d, e \in admissions : d.scope = e.scope => d = e
  /\ \A d \in admitted, e \in admissions : d.scope = e.scope => d.key <= e.key
  /\ \A e \in admitted : e.key \in reported \/ e \in admissions
  /\ late \subseteq admissions

\* What a process admits is in the file until it removed it, and it has reported it
\* by then.
JournalMine ==
  \A p \in Process :
    /\ posting[p] \in Journal!Completing \cup {"posting", "answered"} =>
         Journal!Mine(p) \in admissions
    /\ posting[p] \in Journal!Completing \cup {"answered"} => Journal!Mine(p) \notin late
    /\ posting[p] \in Journal!Completing => key[p] \in reported

JournalInv == JournalTypes /\ JournalHeld /\ JournalEntries /\ JournalMine

LEMMA JournalConstantsHold ==
  /\ MaxKeys \in Nat \ {0} /\ MaxPending \in Nat \ {0} /\ MaxInterrupts \in Nat
  /\ None \notin Process
BY Constants DEF Journal!JournalConstants

LEMMA JournalCardinality == ASSUME NEW S PROVE Journal!Cardinality(S) = Cardinality(S)
BY DEF Journal!Cardinality, Cardinality

LEMMA JournalInit == Init => JournalInv
<1> SUFFICES ASSUME Init PROVE JournalInv
  OBVIOUS
<1>1. Journal!Init
  BY DEF Init
<1>2. IsFiniteSet({}) /\ Cardinality({}) = 0
  BY FS_EmptySet
<1>3. JournalTypes
  BY <1>1, JournalConstantsHold DEF JournalTypes, Journal!Init, Journal!Steps
<1>4. JournalHeld
  BY <1>1, JournalConstantsHold DEF JournalHeld, Journal!Init, AtFile
<1>5. JournalEntries
  BY <1>1, <1>2, JournalConstantsHold DEF JournalEntries, Journal!Init
<1>6. JournalMine
  BY <1>1 DEF JournalMine, Journal!Init, Journal!Completing
<1> QED
  BY <1>3, <1>4, <1>5, <1>6 DEF JournalInv

\* Two processes at work have two scopes.
LEMMA ScopesDiffer ==
  ASSUME JournalInv, NEW p \in Process, NEW q \in Process,
         posting[p] # "idle", posting[q] # "idle", scope[p] = scope[q]
  PROVE  p = q
BY DEF JournalInv, JournalHeld

\* One process moves on.
LEMMA JournalTo ==
  ASSUME JournalInv, NEW p \in Process, NEW x \in Journal!Steps, Journal!To(p, x)
  PROVE  /\ posting' \in [Process -> Journal!Steps]
         /\ \A q \in Process : posting'[q] = IF q = p THEN x ELSE posting[q]
BY DEF JournalInv, JournalTypes, Journal!To

\* A process ends and its locks are free.
LEMMA JournalEnds ==
  ASSUME JournalInv, NEW p \in Process, posting[p] # "idle", Journal!End(p),
         \A q \in Process \ {p} : posting[q] \in AtFile => admissions' = admissions
  PROVE  /\ posting' \in [Process -> Journal!Steps] /\ scope' \in [Process -> Scope \cup {None}]
         /\ key' \in [Process -> Journal!Key \cup {0}]
         /\ copy' \in [Process -> SUBSET Journal!Entry]
         /\ scopeLock' \in [Scope -> Process \cup {None}]
         /\ journalLock' \in Process \cup {None}
         /\ posting'[p] = "idle"
         /\ \A q \in Process \ {p} : /\ posting'[q] = posting[q] /\ scope'[q] = scope[q]
                                     /\ key'[q] = key[q] /\ copy'[q] = copy[q]
         /\ JournalHeld'
<1>t. JournalTypes /\ JournalHeld
  BY DEF JournalInv
<1>1. /\ posting' = [posting EXCEPT ![p] = "idle"] /\ scope' = [scope EXCEPT ![p] = None]
      /\ key' = [key EXCEPT ![p] = 0] /\ copy' = [copy EXCEPT ![p] = {}]
      /\ scopeLock' = [s \in Scope |-> IF scopeLock[s] = p THEN None ELSE scopeLock[s]]
      /\ journalLock' = IF journalLock = p THEN None ELSE journalLock
  BY DEF Journal!End, Journal!To
<1>2. posting' \in [Process -> Journal!Steps] /\ posting'[p] = "idle"
  BY <1>1, <1>t DEF JournalTypes, Journal!Steps
<1>3. scope' \in [Process -> Scope \cup {None}] /\ key' \in [Process -> Journal!Key \cup {0}]
  BY <1>1, <1>t DEF JournalTypes
<1>4. copy' \in [Process -> SUBSET Journal!Entry]
  BY <1>1, <1>t DEF JournalTypes
<1>5. scopeLock' \in [Scope -> Process \cup {None}] /\ journalLock' \in Process \cup {None}
  BY <1>1, <1>t DEF JournalTypes
<1>6. \A q \in Process \ {p} : /\ posting'[q] = posting[q] /\ scope'[q] = scope[q]
                               /\ key'[q] = key[q] /\ copy'[q] = copy[q]
  BY <1>1, <1>t DEF JournalTypes
<1>7. JournalHeld'
  <2>1. \A q \in Process : posting'[q] # "idle" =>
          scope'[q] \in Scope /\ scopeLock'[scope'[q]] = q
    BY <1>1, <1>2, <1>6, <1>t DEF JournalHeld
  <2>2. \A s \in Scope : scopeLock'[s] # None =>
          posting'[scopeLock'[s]] # "idle" /\ scope'[scopeLock'[s]] = s
    <3> SUFFICES ASSUME NEW s \in Scope, scopeLock'[s] # None
                 PROVE  posting'[scopeLock'[s]] # "idle" /\ scope'[scopeLock'[s]] = s
      OBVIOUS
    <3>1. scopeLock[s] = scopeLock'[s] /\ scopeLock[s] \in Process \ {p}
      BY <1>1, <1>t DEF JournalTypes
    <3> QED
      BY <1>6, <1>t, <3>1 DEF JournalHeld
  <2>3. \A q \in Process : posting'[q] \in AtFile <=> journalLock' = q
    BY <1>1, <1>2, <1>6, <1>t, JournalConstantsHold DEF JournalHeld, AtFile
  <2>4. \A q \in Process : posting'[q] \in {"drawing", "removing"} =>
          copy'[q] = admissions'
    BY <1>2, <1>6, <1>t DEF JournalHeld, AtFile
  <2> QED
    BY <2>1, <2>2, <2>3, <2>4 DEF JournalHeld
<1> QED
  BY <1>2, <1>3, <1>4, <1>5, <1>6, <1>7

\* The steps before the post: a process takes the locks and finds or makes its entry.
LEMMA PreparingKept ==
  ASSUME JournalInv, NEW p \in Process,
         \/ Journal!PrepareImplicitAdmission(p) \/ Journal!LockJournal(p)
         \/ Journal!ReadAdmissionJournal(p) \/ Journal!UsePending(p)
         \/ Journal!CreatePending(p)
  PROVE  JournalInv'
<1>t. JournalTypes /\ JournalHeld /\ JournalEntries /\ JournalMine
  BY DEF JournalInv
<1>c. {"locked", "reading", "drawing", "rereading", "removing", "posting"} \subseteq Journal!Steps
  BY DEF Journal!Steps, Journal!Preparing, Journal!Completing
<1>1. CASE Journal!PrepareImplicitAdmission(p)
  <2>1. PICK s \in Scope : /\ scopeLock[s] = None /\ scopeLock' = [scopeLock EXCEPT ![s] = p]
                           /\ scope' = [scope EXCEPT ![p] = s]
    BY <1>1 DEF Journal!PrepareImplicitAdmission
  <2>2. /\ posting[p] = "idle" /\ Journal!To(p, "locked")
        /\ UNCHANGED <<admissions, journalLock, key, copy, drawn, admitted, late, reported,
                       interrupts>>
    BY <1>1 DEF Journal!PrepareImplicitAdmission, Journal!serverVars
  <2>3. /\ posting' \in [Process -> Journal!Steps]
        /\ \A q \in Process : posting'[q] = IF q = p THEN "locked" ELSE posting[q]
    BY <1>c, <2>2, JournalTo
  <2>4. /\ scope' \in [Process -> Scope \cup {None}] /\ scope'[p] = s
        /\ \A q \in Process \ {p} : scope'[q] = scope[q]
        /\ scopeLock' \in [Scope -> Process \cup {None}] /\ scopeLock'[s] = p
        /\ \A r \in Scope \ {s} : scopeLock'[r] = scopeLock[r]
    BY <1>t, <2>1 DEF JournalTypes
  <2>5. JournalTypes'
    BY <1>t, <2>2, <2>3, <2>4 DEF JournalTypes
  <2>6. JournalHeld'
    <3>1. \A q \in Process : posting'[q] # "idle" =>
            scope'[q] \in Scope /\ scopeLock'[scope'[q]] = q
      BY <1>t, <2>1, <2>3, <2>4, JournalConstantsHold DEF JournalHeld
    <3>2. \A r \in Scope : scopeLock'[r] # None =>
            posting'[scopeLock'[r]] # "idle" /\ scope'[scopeLock'[r]] = r
      BY <1>t, <2>2, <2>3, <2>4 DEF JournalHeld, JournalTypes
    <3>3. /\ \A q \in Process : posting'[q] \in AtFile <=> journalLock' = q
          /\ \A q \in Process : posting'[q] \in {"drawing", "removing"} =>
               copy'[q] = admissions'
      BY <1>t, <2>2, <2>3 DEF JournalHeld, AtFile
    <3> QED
      BY <3>1, <3>2, <3>3 DEF JournalHeld
  <2>7. JournalEntries'
    BY <1>t, <2>2 DEF JournalEntries
  <2>8. JournalMine'
    BY <1>t, <2>2, <2>3, <2>4 DEF JournalMine, Journal!Mine, Journal!Completing
  <2> QED
    BY <2>5, <2>6, <2>7, <2>8 DEF JournalInv
<1>2. CASE Journal!LockJournal(p)
  <2>1. /\ posting[p] \in {"locked", "printed"} /\ journalLock = None /\ journalLock' = p
        /\ UNCHANGED <<admissions, scopeLock, scope, key, copy, drawn, admitted, late,
                       reported, interrupts>>
    BY <1>2 DEF Journal!LockJournal, Journal!serverVars
  <2>2. PICK x \in {"reading", "rereading"} :
          Journal!To(p, x) /\ (x = "rereading" => posting[p] = "printed")
    BY <1>2 DEF Journal!LockJournal
  <2>3. /\ posting' \in [Process -> Journal!Steps]
        /\ \A q \in Process : posting'[q] = IF q = p THEN x ELSE posting[q]
    BY <1>c, <2>2, JournalTo
  <2>4. JournalTypes'
    BY <1>t, <2>1, <2>3 DEF JournalTypes
  <2>5. JournalHeld'
    BY <1>t, <2>1, <2>2, <2>3, JournalConstantsHold DEF JournalHeld, AtFile, JournalTypes
  <2>6. JournalEntries'
    BY <1>t, <2>1 DEF JournalEntries
  <2>7. JournalMine'
    BY <1>t, <2>1, <2>2, <2>3 DEF JournalMine, Journal!Mine, Journal!Completing
  <2> QED
    BY <2>4, <2>5, <2>6, <2>7 DEF JournalInv
<1>3. CASE Journal!ReadAdmissionJournal(p)
  <2>1. /\ posting[p] \in {"reading", "rereading"}
        /\ copy' = [copy EXCEPT ![p] = admissions]
        /\ UNCHANGED <<admissions, scopeLock, journalLock, scope, key, drawn, admitted, late,
                       reported, interrupts>>
    BY <1>3 DEF Journal!ReadAdmissionJournal, Journal!serverVars, Journal!lockVars
  <2>2. PICK x \in {"drawing", "removing"} :
          Journal!To(p, x) /\ (x = "removing" => posting[p] = "rereading")
    BY <1>3 DEF Journal!ReadAdmissionJournal
  <2>3. /\ posting' \in [Process -> Journal!Steps]
        /\ \A q \in Process : posting'[q] = IF q = p THEN x ELSE posting[q]
    BY <1>c, <2>2, JournalTo
  <2>4. /\ copy' \in [Process -> SUBSET Journal!Entry] /\ copy'[p] = admissions
        /\ \A q \in Process \ {p} : copy'[q] = copy[q]
    BY <1>t, <2>1 DEF JournalTypes
  <2>5. JournalTypes'
    BY <1>t, <2>1, <2>3, <2>4 DEF JournalTypes
  <2>6. JournalHeld'
    BY <1>t, <2>1, <2>2, <2>3, <2>4 DEF JournalHeld, AtFile, JournalTypes
  <2>7. JournalEntries'
    BY <1>t, <2>1 DEF JournalEntries
  <2>8. JournalMine'
    BY <1>t, <2>1, <2>2, <2>3 DEF JournalMine, Journal!Mine, Journal!Completing
  <2> QED
    BY <2>5, <2>6, <2>7, <2>8 DEF JournalInv
<1>4. CASE Journal!UsePending(p)
  <2>1. /\ posting[p] = "drawing" /\ journalLock' = None /\ Journal!To(p, "posting")
        /\ copy' = [copy EXCEPT ![p] = {}]
        /\ UNCHANGED <<admissions, scopeLock, scope, drawn, admitted, late, reported,
                       interrupts>>
    BY <1>4 DEF Journal!UsePending, Journal!serverVars
  <2>2. PICK e \in copy[p] : e.scope = scope[p] /\ key' = [key EXCEPT ![p] = e.key]
    BY <1>4 DEF Journal!UsePending, Journal!Found
  <2>3. /\ posting' \in [Process -> Journal!Steps]
        /\ \A q \in Process : posting'[q] = IF q = p THEN "posting" ELSE posting[q]
    BY <1>c, <2>1, JournalTo
  <2>4. e \in admissions /\ e \in Journal!Entry /\ journalLock = p
    BY <1>t, <2>1, <2>2 DEF JournalHeld, JournalTypes, AtFile
  <2>5. /\ key' \in [Process -> Journal!Key \cup {0}] /\ key'[p] = e.key
        /\ \A q \in Process \ {p} : key'[q] = key[q]
    BY <1>t, <2>2, <2>4 DEF JournalTypes, Journal!Entry
  <2>6. /\ copy' \in [Process -> SUBSET Journal!Entry]
        /\ \A q \in Process \ {p} : copy'[q] = copy[q]
    BY <1>t, <2>1 DEF JournalTypes
  <2>7. [scope |-> scope[p], key |-> key'[p]] = e
    BY <2>2, <2>4, <2>5 DEF Journal!Entry
  <2>8. JournalTypes'
    BY <1>t, <2>1, <2>3, <2>5, <2>6 DEF JournalTypes
  <2>9. JournalHeld'
    BY <1>t, <2>1, <2>3, <2>4, <2>6, JournalConstantsHold DEF JournalHeld, AtFile, JournalTypes
  <2>10. JournalEntries'
    BY <1>t, <2>1 DEF JournalEntries
  <2>11. JournalMine'
    BY <1>t, <2>1, <2>3, <2>4, <2>5, <2>7
       DEF JournalMine, Journal!Mine, Journal!Completing
  <2> QED
    BY <2>8, <2>9, <2>10, <2>11 DEF JournalInv
<1>5. CASE Journal!CreatePending(p)
  <2> DEFINE e == [scope |-> scope[p], key |-> drawn + 1]
  <2>1. /\ posting[p] = "drawing" /\ journalLock' = None /\ Journal!To(p, "posting")
        /\ Journal!Found(p) = {} /\ Cardinality(copy[p]) < MaxPending
        /\ drawn < MaxKeys /\ drawn' = drawn + 1
        /\ key' = [key EXCEPT ![p] = drawn + 1] /\ copy' = [copy EXCEPT ![p] = {}]
        /\ admissions' = copy[p] \cup {e}
        /\ UNCHANGED <<scopeLock, scope, admitted, late, reported, interrupts>>
    BY <1>5, JournalCardinality DEF Journal!CreatePending, Journal!serverVars
  <2>2. /\ posting' \in [Process -> Journal!Steps]
        /\ \A q \in Process : posting'[q] = IF q = p THEN "posting" ELSE posting[q]
    BY <1>c, <2>1, JournalTo
  <2>3. copy[p] = admissions /\ journalLock = p /\ scope[p] \in Scope
    BY <1>t, <2>1 DEF JournalHeld, AtFile
  <2>4. drawn \in Nat /\ drawn + 1 \in Journal!Key /\ drawn + 1 \in 0 .. MaxKeys
    BY <1>t, <2>1, JournalConstantsHold DEF JournalTypes, Journal!Key
  <2>5. /\ e \in Journal!Entry /\ e.scope = scope[p] /\ e.key = drawn + 1
        /\ admissions' = admissions \cup {e}
    BY <2>1, <2>3, <2>4 DEF Journal!Entry
  <2>6. \A d \in admissions : d.scope # scope[p]
    BY <2>1, <2>3 DEF Journal!Found
  <2>7. /\ key' \in [Process -> Journal!Key \cup {0}] /\ key'[p] = drawn + 1
        /\ \A q \in Process \ {p} : key'[q] = key[q]
    BY <1>t, <2>1, <2>4 DEF JournalTypes
  <2>8. /\ copy' \in [Process -> SUBSET Journal!Entry]
        /\ \A q \in Process \ {p} : copy'[q] = copy[q]
    BY <1>t, <2>1 DEF JournalTypes
  <2> HIDE DEF e
  <2>9. JournalTypes'
    BY <1>t, <2>1, <2>2, <2>4, <2>5, <2>7, <2>8 DEF JournalTypes
  <2>10. JournalHeld'
    BY <1>t, <2>1, <2>2, <2>3, <2>8, JournalConstantsHold DEF JournalHeld, AtFile, JournalTypes
  <2>11. JournalEntries'
    <3>1. e \notin admissions
      BY <2>5, <2>6
    <3>2. /\ IsFiniteSet(admissions') /\ Cardinality(admissions') = Cardinality(admissions) + 1
          /\ Cardinality(admissions) \in Nat
      BY <1>t, <2>5, <3>1, Grown DEF JournalEntries
    <3>3. Cardinality(admissions') <= MaxPending
      BY <2>1, <2>3, <3>2, JournalConstantsHold
    <3>4. \A d \in admissions \cup admitted : d.key \in Nat /\ d.key <= drawn
      BY <1>t, JournalConstantsHold DEF JournalEntries, JournalTypes, Journal!Entry, Journal!Key
    <3>5. \A d \in admissions' \cup admitted' : d.key <= drawn'
      BY <2>1, <2>4, <2>5, <3>4
    <3>6. \A c, d \in admissions' : c.scope = d.scope => c = d
      BY <1>t, <2>5, <2>6 DEF JournalEntries
    <3>7. \A c \in admitted', d \in admissions' : c.scope = d.scope => c.key <= d.key
      BY <1>t, <2>1, <2>4, <2>5, <3>4 DEF JournalEntries
    <3>8. (\A d \in admitted' : d.key \in reported' \/ d \in admissions')
          /\ late' \subseteq admissions'
      BY <1>t, <2>1, <2>5 DEF JournalEntries
    <3> QED
      BY <3>2, <3>3, <3>5, <3>6, <3>7, <3>8 DEF JournalEntries
  <2>12. JournalMine'
    <3>1. Journal!Mine(p)' = e
      BY <2>1, <2>7 DEF Journal!Mine, e
    <3>2. \A q \in Process \ {p} : Journal!Mine(q)' = Journal!Mine(q)
      BY <2>1, <2>7 DEF Journal!Mine
    <3> SUFFICES ASSUME NEW q \in Process
                 PROVE  /\ posting'[q] \in Journal!Completing \cup {"posting", "answered"} =>
                             Journal!Mine(q)' \in admissions'
                        /\ posting'[q] \in Journal!Completing \cup {"answered"} =>
                             Journal!Mine(q)' \notin late'
                        /\ posting'[q] \in Journal!Completing => key'[q] \in reported'
      BY DEF JournalMine
    <3>3. CASE q = p
      BY <2>2, <2>5, <3>1, <3>3 DEF Journal!Completing
    <3>4. CASE q # p
      BY <1>t, <2>1, <2>2, <2>5, <2>7, <3>2, <3>4 DEF JournalMine
    <3> QED
      BY <3>3, <3>4
  <2> QED
    BY <2>9, <2>10, <2>11, <2>12 DEF JournalInv
<1> QED
  BY <1>1, <1>2, <1>3, <1>4, <1>5

\* The answer, and what follows it: the outcome is flushed before the entry is removed.
LEMMA AnsweredKept ==
  ASSUME JournalInv, NEW p \in Process,
         \/ Journal!PostAnswered(p) \/ Journal!PostUncertain(p) \/ Journal!Flush(p)
         \/ Journal!RemovePending(p) \/ Journal!JournalFull(p) \/ Journal!Interrupt(p)
  PROVE  JournalInv'
<1>t. JournalTypes /\ JournalHeld /\ JournalEntries /\ JournalMine
  BY DEF JournalInv
<1>c. {"answered", "printed"} \subseteq Journal!Steps
  BY DEF Journal!Steps, Journal!Completing
<1>0. posting[p] # "idle"
  BY DEF Journal!PostAnswered, Journal!PostUncertain, Journal!Flush, Journal!RemovePending,
         Journal!JournalFull, Journal!Interrupt
<1>m. ASSUME posting[p] \in Journal!Completing \cup {"posting", "answered"}
      PROVE  /\ Journal!Mine(p) \in admissions /\ Journal!Mine(p) \in Journal!Entry
             /\ key[p] = Journal!Mine(p).key
  <2>1. Journal!Mine(p) \in admissions
    BY <1>t, <1>m DEF JournalMine
  <2>2. Journal!Mine(p).key = key[p]
    BY DEF Journal!Mine
  <2> QED
    BY <1>t, <2>1, <2>2 DEF JournalTypes
<1>o. \A q \in Process \ {p} : posting[q] # "idle" => Journal!Mine(q) # Journal!Mine(p)
  <2> SUFFICES ASSUME NEW q \in Process \ {p}, posting[q] # "idle",
                      Journal!Mine(q) = Journal!Mine(p)
               PROVE  FALSE
    OBVIOUS
  <2>1. Journal!Mine(q).scope = scope[q] /\ Journal!Mine(p).scope = scope[p]
    BY DEF Journal!Mine
  <2> QED
    BY <1>0, <2>1, ScopesDiffer
<1>a. ASSUME posting[p] \in Journal!Completing \cup {"posting", "answered"},
             admitted' \in {admitted, admitted \cup {Journal!Mine(p)}},
             late' \in {late, late \ {Journal!Mine(p)}, late \cup {Journal!Mine(p)}},
             admissions' = admissions, drawn' = drawn, reported' = reported
      PROVE  JournalEntries' /\ admitted' \subseteq Journal!Entry /\ late' \subseteq Journal!Entry
  <2>1. Journal!Mine(p) \in admissions /\ Journal!Mine(p) \in Journal!Entry
    BY <1>a, <1>m
  <2>2. late' \subseteq admissions' /\ late' \subseteq Journal!Entry
        /\ admitted' \subseteq Journal!Entry
    BY <1>a, <1>t, <2>1 DEF JournalEntries, JournalTypes
  <2>3. \A e \in admissions' \cup admitted' : e.key <= drawn'
    BY <1>a, <1>t, <2>1 DEF JournalEntries
  <2>4. \A e \in admissions' : e.key \in Nat
    BY <1>a, <1>t, JournalConstantsHold
       DEF JournalTypes, Journal!Entry, Journal!Key
  <2>5. \A d \in admitted', e \in admissions' : d.scope = e.scope => d.key <= e.key
    <3> SUFFICES ASSUME NEW d \in admitted', NEW e \in admissions', d.scope = e.scope
                 PROVE  d.key <= e.key
      OBVIOUS
    <3>1. CASE d \in admitted
      BY <1>a, <1>t, <3>1 DEF JournalEntries
    <3>2. CASE d = Journal!Mine(p)
      <4>1. d = e
        BY <1>a, <1>t, <2>1, <3>2 DEF JournalEntries
      <4> QED
        BY <2>4, <4>1
    <3> QED
      BY <1>a, <3>1, <3>2
  <2>6. \A e \in admitted' : e.key \in reported' \/ e \in admissions'
    BY <1>a, <1>t, <2>1 DEF JournalEntries
  <2> QED
    BY <1>a, <1>t, <2>2, <2>3, <2>5, <2>6 DEF JournalEntries
<1>1. CASE Journal!PostAnswered(p)
  <2>1. /\ posting[p] = "posting" /\ Journal!To(p, "answered")
        /\ UNCHANGED <<admissions, scopeLock, journalLock, scope, key, copy, drawn, reported,
                       interrupts>>
        /\ late' = late \ {Journal!Mine(p)}
        /\ admitted' \in {admitted, admitted \cup {Journal!Mine(p)}}
    BY <1>1 DEF Journal!PostAnswered, Journal!Answered, Journal!lockVars
  <2>2. /\ posting' \in [Process -> Journal!Steps]
        /\ \A q \in Process : posting'[q] = IF q = p THEN "answered" ELSE posting[q]
    BY <1>c, <2>1, JournalTo
  <2>3. JournalEntries' /\ admitted' \subseteq Journal!Entry /\ late' \subseteq Journal!Entry
    BY <1>a, <2>1
  <2>4. JournalTypes'
    BY <1>t, <2>1, <2>2, <2>3 DEF JournalTypes
  <2>5. JournalHeld'
    BY <1>t, <2>1, <2>2 DEF JournalHeld, AtFile, JournalTypes
  <2>6. JournalMine'
    BY <1>t, <2>1, <2>2 DEF JournalMine, Journal!Mine, Journal!Completing
  <2> QED
    BY <2>3, <2>4, <2>5, <2>6 DEF JournalInv
<1>2. CASE Journal!Flush(p)
  <2>1. /\ posting[p] = "answered" /\ Journal!To(p, "printed")
        /\ reported' = reported \cup {key[p]}
        /\ UNCHANGED <<admissions, scopeLock, journalLock, scope, key, copy, drawn, admitted,
                       late, interrupts>>
    BY <1>2 DEF Journal!Flush, Journal!lockVars, Journal!serverVars
  <2>2. /\ posting' \in [Process -> Journal!Steps]
        /\ \A q \in Process : posting'[q] = IF q = p THEN "printed" ELSE posting[q]
    BY <1>c, <2>1, JournalTo
  <2>3. key[p] \in Journal!Key
    BY <1>m, <2>1 DEF Journal!Entry
  <2>4. JournalTypes'
    BY <1>t, <2>1, <2>2, <2>3 DEF JournalTypes
  <2>5. JournalHeld'
    BY <1>t, <2>1, <2>2 DEF JournalHeld, AtFile, JournalTypes
  <2>6. JournalEntries'
    BY <1>t, <2>1 DEF JournalEntries
  <2>7. JournalMine'
    BY <1>t, <2>1, <2>2 DEF JournalMine, Journal!Mine, Journal!Completing
  <2> QED
    BY <2>4, <2>5, <2>6, <2>7 DEF JournalInv
<1>3. CASE Journal!PostUncertain(p) \/ Journal!JournalFull(p) \/ Journal!Interrupt(p)
  <2>1. Journal!End(p) /\ UNCHANGED <<admissions, drawn, reported>>
    BY <1>3 DEF Journal!PostUncertain, Journal!JournalFull, Journal!Interrupt
  <2>2. interrupts' \in 0 .. MaxInterrupts
    BY <1>3, <1>t, JournalConstantsHold
       DEF JournalTypes, Journal!PostUncertain, Journal!JournalFull, Journal!Interrupt
  <2>3. /\ posting' \in [Process -> Journal!Steps] /\ scope' \in [Process -> Scope \cup {None}]
        /\ key' \in [Process -> Journal!Key \cup {0}]
        /\ copy' \in [Process -> SUBSET Journal!Entry]
        /\ scopeLock' \in [Scope -> Process \cup {None}]
        /\ journalLock' \in Process \cup {None}
        /\ posting'[p] = "idle"
        /\ \A q \in Process \ {p} : /\ posting'[q] = posting[q] /\ scope'[q] = scope[q]
                                    /\ key'[q] = key[q] /\ copy'[q] = copy[q]
        /\ JournalHeld'
    BY <1>0, <2>1, JournalEnds
  <2>4. \/ UNCHANGED <<admitted, late>>
        \/ /\ posting[p] = "posting"
           /\ admitted' \in {admitted, admitted \cup {Journal!Mine(p)}}
           /\ late' \in {late, late \ {Journal!Mine(p)}, late \cup {Journal!Mine(p)}}
    <3>1. CASE Journal!PostUncertain(p)
      BY <3>1 DEF Journal!PostUncertain, Journal!Answered
    <3>2. CASE Journal!JournalFull(p)
      BY <3>2 DEF Journal!JournalFull, Journal!serverVars
    <3>3. CASE Journal!Interrupt(p)
      BY <3>3 DEF Journal!Interrupt
    <3> QED
      BY <1>3, <3>1, <3>2, <3>3
  <2>5. JournalEntries' /\ admitted' \subseteq Journal!Entry /\ late' \subseteq Journal!Entry
    <3>1. CASE UNCHANGED <<admitted, late>>
      BY <1>t, <2>1, <3>1 DEF JournalEntries, JournalTypes
    <3> QED
      BY <1>a, <2>1, <2>4, <3>1
  <2>6. JournalTypes'
    BY <1>t, <2>1, <2>2, <2>3, <2>5 DEF JournalTypes
  <2>7. JournalMine'
    <3> SUFFICES ASSUME NEW q \in Process \ {p}
                 PROVE  /\ posting'[q] \in Journal!Completing \cup {"posting", "answered"} =>
                             Journal!Mine(q)' \in admissions'
                        /\ posting'[q] \in Journal!Completing \cup {"answered"} =>
                             Journal!Mine(q)' \notin late'
                        /\ posting'[q] \in Journal!Completing => key'[q] \in reported'
      BY <2>3 DEF JournalMine, Journal!Completing
    <3>1. Journal!Mine(q)' = Journal!Mine(q) /\ posting'[q] = posting[q] /\ key'[q] = key[q]
      BY <2>3 DEF Journal!Mine
    <3>2. "idle" \notin Journal!Completing \cup {"posting", "answered"}
      BY DEF Journal!Completing
    <3> QED
      BY <1>o, <1>t, <2>1, <2>4, <3>1, <3>2 DEF JournalMine
  <2> QED
    BY <2>3, <2>5, <2>6, <2>7 DEF JournalInv
<1>4. CASE Journal!RemovePending(p)
  <2>1. /\ posting[p] = "removing" /\ admissions' = copy[p] \ {Journal!Mine(p)} /\ Journal!End(p)
        /\ UNCHANGED <<drawn, admitted, late, reported, interrupts>>
    BY <1>4 DEF Journal!RemovePending, Journal!serverVars
  <2>2. /\ copy[p] = admissions /\ journalLock = p
        /\ \A q \in Process \ {p} : posting[q] \notin AtFile
    BY <1>t, <2>1 DEF JournalHeld, AtFile
  <2>3. /\ posting' \in [Process -> Journal!Steps] /\ scope' \in [Process -> Scope \cup {None}]
        /\ key' \in [Process -> Journal!Key \cup {0}]
        /\ copy' \in [Process -> SUBSET Journal!Entry]
        /\ scopeLock' \in [Scope -> Process \cup {None}]
        /\ journalLock' \in Process \cup {None}
        /\ posting'[p] = "idle"
        /\ \A q \in Process \ {p} : /\ posting'[q] = posting[q] /\ scope'[q] = scope[q]
                                    /\ key'[q] = key[q] /\ copy'[q] = copy[q]
        /\ JournalHeld'
    BY <1>0, <2>1, <2>2, JournalEnds
  <2>4. admissions' = admissions \ {Journal!Mine(p)}
    BY <2>1, <2>2
  <2>5. /\ Journal!Mine(p) \in admissions /\ Journal!Mine(p).key \in reported
        /\ Journal!Mine(p) \notin late
    <3>1. posting[p] \in Journal!Completing
      BY <2>1 DEF Journal!Completing
    <3> QED
      BY <1>m, <1>t, <3>1 DEF JournalMine
  <2>6. JournalTypes'
    BY <1>t, <2>1, <2>3, <2>4 DEF JournalTypes
  <2>7. JournalEntries'
    <3>1. IsFiniteSet(admissions') /\ Cardinality(admissions') <= MaxPending
      <4>1. /\ IsFiniteSet(admissions')
            /\ Cardinality(admissions') = Cardinality(admissions) - 1
            /\ Cardinality(admissions) \in Nat
        BY <1>t, <2>4, <2>5, Shrunk DEF JournalEntries
      <4> QED
        BY <1>t, <4>1, JournalConstantsHold DEF JournalEntries
    <3> QED
      BY <1>t, <2>1, <2>4, <2>5, <3>1 DEF JournalEntries
  <2>8. JournalMine'
    <3> SUFFICES ASSUME NEW q \in Process \ {p}
                 PROVE  /\ posting'[q] \in Journal!Completing \cup {"posting", "answered"} =>
                             Journal!Mine(q)' \in admissions'
                        /\ posting'[q] \in Journal!Completing \cup {"answered"} =>
                             Journal!Mine(q)' \notin late'
                        /\ posting'[q] \in Journal!Completing => key'[q] \in reported'
      BY <2>3 DEF JournalMine, Journal!Completing
    <3>1. Journal!Mine(q)' = Journal!Mine(q) /\ posting'[q] = posting[q] /\ key'[q] = key[q]
      BY <2>3 DEF Journal!Mine
    <3>2. "idle" \notin Journal!Completing \cup {"posting", "answered"}
      BY DEF Journal!Completing
    <3> QED
      BY <1>o, <1>t, <2>1, <2>4, <3>1, <3>2 DEF JournalMine
  <2> QED
    BY <2>3, <2>6, <2>7, <2>8 DEF JournalInv
<1> QED
  BY <1>1, <1>2, <1>3, <1>4

\* A request whose process is gone is admitted late, or never.
LEMMA PostLateKept == ASSUME JournalInv, Journal!PostLate PROVE JournalInv'
<1>t. JournalTypes /\ JournalHeld /\ JournalEntries /\ JournalMine
  BY DEF JournalInv
<1>1. PICK e \in late : late' = late \ {e} /\ admitted' \in {admitted, admitted \cup {e}}
  BY DEF Journal!PostLate
<1>2. UNCHANGED <<admissions, scopeLock, journalLock, posting, scope, key, copy, drawn,
                  reported, interrupts>>
  BY DEF Journal!PostLate, Journal!lockVars, Journal!processVars
<1>3. e \in admissions /\ e \in Journal!Entry
  BY <1>t DEF JournalEntries, JournalTypes
<1>4. \A d \in admissions : d.scope = e.scope => d = e
  BY <1>t, <1>3 DEF JournalEntries
<1>5. e.key \in Nat
  BY <1>3, JournalConstantsHold DEF Journal!Entry, Journal!Key
<1>6. JournalTypes'
  BY <1>1, <1>2, <1>3, <1>t DEF JournalTypes
<1>7. JournalHeld'
  BY <1>2, <1>t DEF JournalHeld
<1>8. JournalEntries'
  <2>1. \A d \in admitted', c \in admissions' : d.scope = c.scope => d.key <= c.key
    BY <1>1, <1>2, <1>4, <1>5, <1>t DEF JournalEntries
  <2> QED
    BY <1>1, <1>2, <1>3, <1>t, <2>1 DEF JournalEntries
<1>9. JournalMine'
  BY <1>1, <1>2, <1>t DEF JournalMine, Journal!Mine
<1> QED
  BY <1>6, <1>7, <1>8, <1>9 DEF JournalInv

LEMMA JournalKept == ASSUME JournalInv, [Journal!Next]_journalVars PROVE JournalInv'
<1>1. CASE UNCHANGED journalVars
  BY <1>1 DEF journalVars, JournalInv, JournalTypes, JournalHeld, JournalEntries,
     JournalMine, Journal!Mine
<1> QED
  BY <1>1, PreparingKept, AnsweredKept, PostLateKept DEF Journal!Next

\* A Run the server admitted was reported or its key waits in the journal, and an
\* identical command admits a second one only after the first was reported.
THEOREM AdmissionsAlwaysKept == Spec => []AdmissionsKept
<1>1. JournalInv /\ [Next]_vars => JournalInv'
  BY JournalStep, JournalKept
<1>2. JournalInv => AdmissionsKept
  <2> SUFFICES ASSUME JournalInv PROVE AdmissionsKept
    OBVIOUS
  <2>1. \A e \in admitted : e.key \in reported \/ e \in admissions
    BY DEF JournalInv, JournalEntries
  <2>2. ASSUME NEW d \in admitted, NEW e \in admitted, d.scope = e.scope, d.key < e.key
        PROVE  d.key \in reported
    <3>1. d.key \in Nat /\ e.key \in Nat
      BY JournalConstantsHold DEF JournalInv, JournalTypes, Journal!Entry, Journal!Key
    <3>2. d \in admissions => e.key <= d.key
      BY <2>2 DEF JournalInv, JournalEntries
    <3> QED
      BY <2>1, <2>2, <3>1, <3>2
  <2> QED
    BY <2>1, <2>2 DEF AdmissionsKept, Journal!AdmissionsKept
<1> QED
  BY JournalInit, <1>1, <1>2, PTL DEF Spec

-----------------------------------------------------------------------------
(* Enrollment.                                                             *)

\* A step of the whole is a step of the enrollment or leaves it alone.
LEMMA EnrollStep == [Next]_vars => [Enroll!Next]_enrollmentVars
BY DEF Next, vars, Schedules, Publication, Enrollment, Admissions, Locking, Caching,
       Forwarding, Dispatching, enrollmentVars

\* The credentials the worker invented: none or one.
Drawn == 1 .. invented

EnrollTypes ==
  /\ Enroll!TypeOK
  /\ invented \in {0, 1}
  /\ file \in [Enroll!Files -> Drawn \cup {Old, None}]
  /\ stored \in Drawn \cup {Old, None} /\ trying \in Drawn \cup {Old, None}
  /\ given \subseteq made \X (Drawn \cup {Old})

\* The invented credential stays on the disk, and the final file names the one the
\* server knows; who passed the first adoption without a final file has none to adopt.
EnrollDisk ==
  /\ invented = 1 => /\ 1 \in {file["final"], file["pending"]}
                     /\ file["oldFinal"] = None /\ file["final"] # Old
  /\ file["oldFinal"] # None => stored = file["oldFinal"]
  /\ file["final"] # None => file["final"] = stored
  /\ enrolling = "dropFinal" => file["final"] # None
  /\ enrolling \notin {"down", "linkFinal"} /\ file["final"] = None => file["oldFinal"] = None

\* A worker asks with the pending credential, and only while it has no final one; what
\* was accepted is what the server stores.
EnrollAsks ==
  /\ enrolling \in {"exchange", "regenerate", "create", "save"} =>
       held = None /\ file["final"] = None
  /\ enrolling = "enroll" => held = file["final"]
  /\ enrolling \in {"exchange", "regenerate", "save"} =>
       trying = file["pending"] /\ trying # None
  /\ enrolling = "create" => file["pending"] = None
  /\ enrolling = "clear" => held # None
  /\ enrolling \in {"exchange", "regenerate", "create"} => configured # None
  /\ answer = "accepted" \/ enrolling = "save" => stored = trying
  /\ answer = "regenerate" \/ enrolling = "regenerate" => trying = Old

EnrollInv == EnrollTypes /\ EnrollDisk /\ EnrollAsks

LEMMA EnrollConstantsHold ==
  /\ MaxTokens \in Nat \ {0} /\ MaxCredentials \in Nat \ {0} /\ MaxStops \in Nat
  /\ None # Old /\ None \notin Nat /\ Old \notin Nat
BY Constants DEF Enroll!EnrollmentConstants

LEMMA DrawnIs ==
  ASSUME invented \in {0, 1}
  PROVE  /\ invented = 0 => Drawn = {}
         /\ invented = 1 => Drawn = {1}
         /\ Drawn \subseteq {1} /\ Old \notin Drawn /\ None \notin Drawn
BY EnrollConstantsHold DEF Drawn

LEMMA EnrollInit == Init => EnrollInv
<1> SUFFICES ASSUME Init PROVE EnrollInv
  OBVIOUS
<1>1. Enroll!Init
  BY DEF Init
<1>2. Drawn = {}
  BY <1>1, DrawnIs DEF Enroll!Init
<1>3. /\ made = {1} /\ expired = {} /\ configured = 1 /\ used \in {{}, {1}}
      /\ held = None /\ trying = None /\ enrolling = "down" /\ answer = "none"
      /\ given = {} /\ invented = 0 /\ stops = 0
      /\ stored = IF used = {} THEN None ELSE Old
      /\ file \in [Enroll!Files -> {Old, None}] /\ file["final"] = None
      /\ file["oldFinal"] = Old => used # {}
  BY <1>1 DEF Enroll!Init
<1>4. 1 \in Enroll!Token
  BY EnrollConstantsHold DEF Enroll!Token
<1>5. file \in [Enroll!Files -> Enroll!Credential \cup {None}]
  BY <1>3 DEF Enroll!Credential, Enroll!Files
<1>6. Enroll!TypeOK
  BY <1>3, <1>4, <1>5, EnrollConstantsHold DEF Enroll!TypeOK, Enroll!Credential, Enroll!Steps
<1>7. EnrollTypes
  BY <1>2, <1>3, <1>6 DEF EnrollTypes, Enroll!Files
<1>8. EnrollDisk
  BY <1>3 DEF EnrollDisk, Enroll!Files
<1>9. EnrollAsks
  BY <1>3 DEF EnrollAsks
<1> QED
  BY <1>7, <1>8, <1>9 DEF EnrollInv

\* What one exchange does, whoever waits for it: it stores the invented credential or
\* nothing new, and says so.
LEMMA ExchangeMeans ==
  ASSUME EnrollInv, NEW t \in made, NEW c \in Drawn \cup {Old}, NEW reply \in Enroll!Answers,
         Enroll!Exchange(t, c, reply)
  PROVE  /\ used' \subseteq made /\ stored' \in Drawn \cup {Old, None}
         /\ stored' \in Enroll!Credential \cup {None} /\ (stored' = None <=> used' = {})
         /\ stored' = stored \/ (c \in Drawn /\ stored' = c)
         /\ reply = "accepted" => stored' = c
         /\ reply = "regenerate" => c = Old
<1>1. /\ used \subseteq made /\ stored \in Drawn \cup {Old, None}
      /\ stored \in Enroll!Credential \cup {None} /\ (stored = None <=> used = {})
      /\ invented \in {0, 1}
  BY DEF EnrollInv, EnrollTypes, Enroll!TypeOK
<1>2. Old \notin Drawn /\ None \notin Drawn /\ None # Old
  BY <1>1, DrawnIs, EnrollConstantsHold
<1>3. Drawn \subseteq Enroll!Credential
  BY <1>1, DrawnIs, EnrollConstantsHold DEF Enroll!Credential, Enroll!New
<1>4. CASE UNCHANGED <<used, stored>> /\ (reply = "accepted" => t \in used /\ stored = c)
           /\ (reply = "regenerate" => c = Old)
  BY <1>1, <1>4
<1>5. CASE c # Old /\ reply = "accepted" /\ used' = used \cup {t} /\ stored' = c
  BY <1>1, <1>2, <1>3, <1>5
<1>6. CASE t \in used
  <2>1. /\ reply = IF stored = c THEN "accepted" ELSE "unauthorized"
        /\ UNCHANGED <<used, stored>>
    BY <1>6 DEF Enroll!Exchange
  <2> QED
    BY <1>4, <1>6, <2>1
<1>7. CASE t \notin used /\ c = Old
  <2>1. reply = "regenerate" /\ UNCHANGED <<used, stored>>
    BY <1>7 DEF Enroll!Exchange
  <2> QED
    BY <1>4, <1>7, <2>1
<1>8. CASE t \notin used /\ c # Old /\ t \in expired
  <2>1. reply = "unauthorized" /\ UNCHANGED <<used, stored>>
    BY <1>8 DEF Enroll!Exchange
  <2> QED
    BY <1>4, <2>1
<1>9. CASE t \notin used /\ c # Old /\ t \notin expired
  <2>1. reply = "accepted" /\ used' = used \cup {t} /\ stored' = c
    BY <1>9 DEF Enroll!Exchange, Enroll!Accept
  <2> QED
    BY <1>5, <1>9, <2>1
<1> QED
  BY <1>6, <1>7, <1>8, <1>9

\* An exchange keeps what the disk says of the server: what it may store is the invented
\* credential, and that one is there.
LEMMA StoredKept ==
  ASSUME EnrollInv, NEW c \in Drawn, stored' = stored \/ stored' = c,
         file' = file, invented' = invented, trying' = trying
  PROVE  /\ file["oldFinal"] # None => stored' = file["oldFinal"]
         /\ file["final"] # None => file["final"] = stored'
         /\ stored = trying /\ (answer = "accepted" \/ enrolling = "save") => stored' = trying
<1>1. invented = 1 /\ c = 1
  BY DrawnIs DEF EnrollInv, EnrollTypes
<1>2. /\ 1 \in {file["final"], file["pending"]} /\ file["oldFinal"] = None
      /\ file["final"] # Old
  BY <1>1 DEF EnrollInv, EnrollDisk
<1>3. file["final"] \in {1, None, Old} /\ file["pending"] \in {1, None, Old}
  BY <1>1, DrawnIs DEF EnrollInv, EnrollTypes, Enroll!Files
<1>4. answer = "accepted" \/ enrolling = "save" =>
        enrolling \in {"exchange", "save"}
  BY DEF EnrollInv, EnrollTypes, Enroll!TypeOK
<1>5. enrolling \in {"exchange", "save"} =>
        file["final"] = None /\ trying = file["pending"]
  BY DEF EnrollInv, EnrollAsks
<1>6. None # 1
  BY EnrollConstantsHold
<1> QED
  BY <1>1, <1>2, <1>3, <1>4, <1>5, <1>6 DEF EnrollInv, EnrollDisk

\* The server's and the operator's steps.
LEMMA ServerKept ==
  ASSUME EnrollInv,
         \/ Enroll!ExchangeAnswered \/ Enroll!ExchangeLate \/ Enroll!CreateWorkerEnrollment
         \/ Enroll!Expire \/ Enroll!Configure
  PROVE  EnrollInv'
<1>t. EnrollTypes /\ EnrollDisk /\ EnrollAsks /\ Enroll!TypeOK
  BY DEF EnrollInv, EnrollTypes
<1>d. /\ Drawn \subseteq {1} /\ Old \notin Drawn /\ None \notin Drawn
      /\ Drawn \subseteq Enroll!Credential
  BY <1>t, DrawnIs, EnrollConstantsHold DEF EnrollTypes, Enroll!Credential, Enroll!New
<1>1. CASE Enroll!ExchangeAnswered
  <2>1. /\ answer = "sent"
        /\ UNCHANGED <<made, expired, configured, held, trying, enrolling, invented, file,
                       given, stops>>
    BY <1>1 DEF Enroll!ExchangeAnswered
  <2>2. PICK reply \in Enroll!Answers :
          Enroll!Exchange(configured, trying, reply) /\ answer' = reply
    BY <1>1 DEF Enroll!ExchangeAnswered
  <2>3. enrolling = "exchange" /\ configured \in made /\ trying \in Drawn \cup {Old}
    BY <1>t, <2>1 DEF EnrollTypes, Enroll!TypeOK
  <2>4. /\ used' \subseteq made /\ stored' \in Drawn \cup {Old, None}
        /\ stored' \in Enroll!Credential \cup {None} /\ (stored' = None <=> used' = {})
        /\ stored' = stored \/ (trying \in Drawn /\ stored' = trying)
        /\ reply = "accepted" => stored' = trying
        /\ reply = "regenerate" => trying = Old
    BY <2>2, <2>3, ExchangeMeans
  <2>5. /\ file["oldFinal"] # None => stored' = file["oldFinal"]
        /\ file["final"] # None => file["final"] = stored'
    <3>1. CASE stored' = stored
      BY <1>t, <3>1 DEF EnrollDisk
    <3>2. CASE trying \in Drawn /\ stored' = trying
      BY <2>1, <3>2, StoredKept
    <3> QED
      BY <2>4, <3>1, <3>2
  <2>6. Drawn' = Drawn
    BY <2>1 DEF Drawn
  <2>7. Enroll!TypeOK'
    BY <1>t, <2>1, <2>2, <2>3, <2>4 DEF EnrollTypes, Enroll!TypeOK
  <2>8. EnrollTypes'
    BY <1>t, <2>1, <2>4, <2>6, <2>7 DEF EnrollTypes
  <2>9. EnrollDisk'
    BY <1>t, <2>1, <2>5 DEF EnrollDisk
  <2>10. EnrollAsks'
    BY <1>t, <2>1, <2>2, <2>3, <2>4 DEF EnrollAsks
  <2> QED
    BY <2>8, <2>9, <2>10 DEF EnrollInv
<1>2. CASE Enroll!ExchangeLate
  <2>1. UNCHANGED <<made, expired, configured, held, trying, enrolling, answer, invented,
                    file, stops>>
    BY <1>2 DEF Enroll!ExchangeLate, Enroll!workerVars
  <2>2. PICK sentCopy \in given, reply \in Enroll!Answers :
          given' = given \ {sentCopy} /\ Enroll!Exchange(sentCopy[1], sentCopy[2], reply)
    BY <1>2 DEF Enroll!ExchangeLate
  <2>3. sentCopy[1] \in made /\ sentCopy[2] \in Drawn \cup {Old}
    BY <1>t DEF EnrollTypes
  <2>4. /\ used' \subseteq made /\ stored' \in Drawn \cup {Old, None}
        /\ stored' \in Enroll!Credential \cup {None} /\ (stored' = None <=> used' = {})
        /\ stored' = stored \/ (sentCopy[2] \in Drawn /\ stored' = sentCopy[2])
    BY <2>2, <2>3, ExchangeMeans
  <2>5. /\ file["oldFinal"] # None => stored' = file["oldFinal"]
        /\ file["final"] # None => file["final"] = stored'
        /\ answer = "accepted" \/ enrolling = "save" => stored' = trying
    <3>1. CASE stored' = stored
      BY <1>t, <3>1 DEF EnrollDisk, EnrollAsks
    <3>2. CASE sentCopy[2] \in Drawn /\ stored' = sentCopy[2]
      BY <1>t, <2>1, <3>2, StoredKept DEF EnrollAsks
    <3> QED
      BY <2>4, <3>1, <3>2
  <2>6. Drawn' = Drawn
    BY <2>1 DEF Drawn
  <2>6a. given' \subseteq given
    BY <2>2
  <2>7. Enroll!TypeOK'
    BY <1>t, <2>1, <2>4, <2>6a DEF EnrollTypes, Enroll!TypeOK
  <2>8. EnrollTypes'
    BY <1>t, <2>1, <2>4, <2>6, <2>6a, <2>7 DEF EnrollTypes
  <2>9. EnrollDisk'
    BY <1>t, <2>1, <2>5 DEF EnrollDisk
  <2>10. EnrollAsks'
    BY <1>t, <2>1, <2>5 DEF EnrollAsks
  <2> QED
    BY <2>8, <2>9, <2>10 DEF EnrollInv
<1>3. CASE Enroll!CreateWorkerEnrollment \/ Enroll!Expire
  <2>1. /\ UNCHANGED <<used, stored, configured, held, trying, enrolling, answer, invented,
                       file, given, stops>>
        /\ made \subseteq made' /\ made' \subseteq Enroll!Token /\ expired' \subseteq made'
    BY <1>3, <1>t DEF Enroll!CreateWorkerEnrollment, Enroll!Expire, Enroll!workerVars,
       Enroll!TypeOK
  <2>2. Drawn' = Drawn
    BY <2>1 DEF Drawn
  <2>3. given' \subseteq made' \X (Drawn' \cup {Old})
    BY <1>t, <2>1, <2>2 DEF EnrollTypes
  <2>4. Enroll!TypeOK'
    BY <1>t, <2>1 DEF Enroll!TypeOK
  <2>5. EnrollTypes'
    BY <1>t, <2>1, <2>2, <2>3, <2>4 DEF EnrollTypes
  <2> QED
    BY <1>t, <2>1, <2>5 DEF EnrollInv, EnrollDisk, EnrollAsks
<1>4. CASE Enroll!Configure
  <2>1. /\ UNCHANGED <<made, used, expired, stored, held, trying, enrolling, answer, invented,
                       file, given, stops>>
        /\ enrolling = "down" /\ configured' \in made \cup {None}
    BY <1>4 DEF Enroll!Configure, Enroll!serverVars
  <2>2. Drawn' = Drawn
    BY <2>1 DEF Drawn
  <2>3. Enroll!TypeOK'
    BY <1>t, <2>1 DEF Enroll!TypeOK
  <2>4. EnrollTypes'
    BY <1>t, <2>1, <2>2, <2>3 DEF EnrollTypes
  <2> QED
    BY <1>t, <2>1, <2>4 DEF EnrollInv, EnrollDisk, EnrollAsks
<1> QED
  BY <1>1, <1>2, <1>3, <1>4

\* The worker's steps that leave its files alone.
LEMMA WorkerKept ==
  ASSUME EnrollInv,
         \/ Enroll!Start \/ Enroll!LoadCredential \/ Enroll!LoadPending \/ Enroll!Timeout
         \/ Enroll!Receive \/ Enroll!Crash
  PROVE  EnrollInv'
<1>t. EnrollTypes /\ EnrollDisk /\ EnrollAsks /\ Enroll!TypeOK
  BY DEF EnrollInv, EnrollTypes
<1>1. UNCHANGED <<made, used, expired, stored, configured, file, invented>>
  BY DEF Enroll!Start, Enroll!LoadCredential, Enroll!LoadPending, Enroll!Timeout,
     Enroll!Receive, Enroll!Crash, Enroll!serverVars
<1>2. Drawn' = Drawn
  BY <1>1 DEF Drawn
<1>f. /\ file["final"] \in Drawn \cup {Old, None} /\ file["pending"] \in Drawn \cup {Old, None}
      /\ file["final"] \in Enroll!Credential \cup {None}
      /\ file["pending"] \in Enroll!Credential \cup {None}
  BY <1>t DEF EnrollTypes, Enroll!TypeOK, Enroll!Files
<1>g. given' \subseteq given \cup Enroll!Copies
  BY DEF Enroll!Start, Enroll!LoadCredential, Enroll!LoadPending, Enroll!Timeout,
     Enroll!Receive, Enroll!Crash
<1>h. given' \subseteq made' \X (Drawn' \cup {Old}) /\ given' \subseteq Enroll!Token \X Enroll!Credential
  <2>1. answer = "sent" => /\ configured \in made /\ trying \in Drawn \cup {Old}
                           /\ configured \in Enroll!Token /\ trying \in Enroll!Credential
    BY <1>t DEF EnrollTypes, Enroll!TypeOK
  <2>2. Enroll!Copies \subseteq made \X (Drawn \cup {Old})
        /\ Enroll!Copies \subseteq Enroll!Token \X Enroll!Credential
    BY <2>1 DEF Enroll!Copies
  <2> QED
    BY <1>1, <1>2, <1>g, <1>t, <2>2 DEF EnrollTypes, Enroll!TypeOK
<1>n. None # Old
  BY EnrollConstantsHold
<1>3. CASE Enroll!Start
  <2>1. /\ enrolling = "down" /\ enrolling' = "linkFinal"
        /\ UNCHANGED <<held, trying, answer, given, stops>>
    BY <1>3 DEF Enroll!Start, Enroll!Go
  <2>2. Enroll!TypeOK'
    BY <1>1, <1>t, <2>1 DEF Enroll!TypeOK, Enroll!Steps
  <2>3. EnrollTypes'
    BY <1>1, <1>2, <1>t, <2>1, <2>2 DEF EnrollTypes
  <2> QED
    BY <1>1, <1>t, <2>1, <2>3 DEF EnrollInv, EnrollDisk, EnrollAsks, Enroll!TypeOK
<1>4. CASE Enroll!LoadCredential
  <2>1. /\ enrolling = "load" /\ enrolling' = "enroll" /\ held' = file["final"]
        /\ UNCHANGED <<trying, answer, given, stops>>
    BY <1>4 DEF Enroll!LoadCredential, Enroll!Go
  <2>2. Enroll!TypeOK'
    BY <1>1, <1>f, <1>t, <2>1 DEF Enroll!TypeOK, Enroll!Steps
  <2>3. EnrollTypes'
    BY <1>1, <1>2, <1>t, <2>1, <2>2 DEF EnrollTypes
  <2> QED
    BY <1>1, <1>t, <2>1, <2>3 DEF EnrollInv, EnrollDisk, EnrollAsks, Enroll!TypeOK
<1>5. CASE Enroll!LoadPending
  <2>1. /\ enrolling = "enroll" /\ held = None /\ trying' = file["pending"]
        /\ UNCHANGED <<held, given, stops>>
        /\ \/ enrolling' = "down" /\ answer' = answer
           \/ /\ configured # None /\ file["pending"] = None
              /\ enrolling' = "create" /\ answer' = answer
           \/ /\ configured # None /\ file["pending"] # None
              /\ enrolling' = "exchange" /\ answer' = "sent"
    BY <1>5 DEF Enroll!LoadPending
  <2>2. answer = "none"
    BY <1>t, <2>1 DEF Enroll!TypeOK
  <2>3. Enroll!TypeOK'
    BY <1>1, <1>f, <1>t, <2>1, <2>2 DEF Enroll!TypeOK, Enroll!Steps
  <2>4. EnrollTypes'
    BY <1>1, <1>2, <1>f, <1>t, <2>1, <2>3 DEF EnrollTypes
  <2>5. EnrollDisk'
    BY <1>1, <1>t, <2>1 DEF EnrollDisk
  <2>6. EnrollAsks'
    BY <1>1, <1>t, <2>1, <2>2 DEF EnrollAsks
  <2> QED
    BY <2>4, <2>5, <2>6 DEF EnrollInv
<1>6. CASE Enroll!Timeout
  <2>1. /\ enrolling = "exchange" /\ enrolling' = "enroll" /\ answer' = "none"
        /\ UNCHANGED <<held, trying, stops>>
    BY <1>6 DEF Enroll!Timeout, Enroll!Go
  <2>2. Enroll!TypeOK'
    BY <1>1, <1>h, <1>t, <2>1 DEF Enroll!TypeOK, Enroll!Steps
  <2>3. EnrollTypes'
    BY <1>1, <1>2, <1>h, <1>t, <2>1, <2>2 DEF EnrollTypes
  <2> QED
    BY <1>1, <1>t, <2>1, <2>3 DEF EnrollInv, EnrollDisk, EnrollAsks
<1>7. CASE Enroll!Receive
  <2>1. /\ enrolling = "exchange" /\ answer \in Enroll!Answers /\ answer' = "none"
        /\ UNCHANGED <<held, trying, given, stops>>
        /\ \/ answer = "accepted" /\ enrolling' = "save"
           \/ answer = "regenerate" /\ enrolling' = "regenerate"
           \/ answer = "unauthorized" /\ enrolling' = "down"
    BY <1>7 DEF Enroll!Receive, Enroll!Answers
  <2>2. Enroll!TypeOK'
    BY <1>1, <1>t, <2>1 DEF Enroll!TypeOK, Enroll!Steps
  <2>3. EnrollTypes'
    BY <1>1, <1>2, <1>t, <2>1, <2>2 DEF EnrollTypes
  <2> QED
    BY <1>1, <1>t, <2>1, <2>3 DEF EnrollInv, EnrollDisk, EnrollAsks
<1>8. CASE Enroll!Crash
  <2>1. /\ stops < MaxStops /\ stops' = stops + 1 /\ enrolling' = "down" /\ answer' = "none"
        /\ held' = None /\ trying' = None
    BY <1>8 DEF Enroll!Crash
  <2>2. stops' \in 0 .. MaxStops
    BY <1>t, <2>1, EnrollConstantsHold DEF Enroll!TypeOK
  <2>3. Enroll!TypeOK'
    BY <1>1, <1>h, <1>t, <2>1, <2>2 DEF Enroll!TypeOK, Enroll!Steps
  <2>4. EnrollTypes'
    BY <1>1, <1>2, <1>h, <1>t, <2>1, <2>3 DEF EnrollTypes
  <2> QED
    BY <1>1, <1>t, <2>1, <2>4 DEF EnrollInv, EnrollDisk, EnrollAsks
<1> QED
  BY <1>3, <1>4, <1>5, <1>6, <1>7, <1>8

\* The worker's steps that change a file.
LEMMA FilesKept ==
  ASSUME EnrollInv,
         \/ Enroll!AdoptLegacy \/ Enroll!RemoveStale \/ Enroll!CreatePending
         \/ Enroll!RemoveLegacyPending \/ Enroll!SaveCredential \/ Enroll!RemovePending
  PROVE  EnrollInv'
<1>t. EnrollTypes /\ EnrollDisk /\ EnrollAsks /\ Enroll!TypeOK
  BY DEF EnrollInv, EnrollTypes
<1>n. None # Old /\ None # 1 /\ Old # 1
  BY EnrollConstantsHold
<1>f. /\ \A f \in Enroll!Files : file[f] \in Drawn \cup {Old, None}
      /\ Drawn \subseteq {1} /\ invented \in {0, 1}
      /\ invented = 0 => Drawn = {}
      /\ invented = 1 => Drawn = {1}
      /\ Enroll!Files = {"final", "pending", "oldFinal", "oldPending"}
  BY <1>t, DrawnIs DEF EnrollTypes, Enroll!Files
<1>c. ASSUME NEW g, g \in [Enroll!Files -> Drawn' \cup {Old, None}], invented' \in {0, 1}
      PROVE  g \in [Enroll!Files -> Enroll!Credential \cup {None}]
  <2>1. Drawn' \subseteq Enroll!Credential
    BY <1>c, EnrollConstantsHold DEF Drawn, Enroll!Credential, Enroll!New
  <2> QED
    BY <1>c, <2>1 DEF Enroll!Credential
<1>1. CASE Enroll!AdoptLegacy
  <2>1. /\ UNCHANGED <<made, used, expired, stored, configured, held, trying, answer, invented,
                       given, stops>>
        /\ enrolling \in {"linkFinal", "dropFinal", "linkPending", "dropPending"}
        /\ enrolling' \in {"dropFinal", "linkPending", "dropPending", "load"}
    BY <1>1 DEF Enroll!AdoptLegacy, Enroll!Adopt, Enroll!Go, Enroll!serverVars
  <2>2. Drawn' = Drawn
    BY <2>1 DEF Drawn
  <2>3. \/ /\ file' = file /\ enrolling = "linkFinal" /\ enrolling' = "linkPending"
           /\ file["final"] # None \/ file["oldFinal"] = None
        \/ /\ file' = [file EXCEPT !["final"] = file["oldFinal"]]
           /\ enrolling = "linkFinal" /\ enrolling' = "dropFinal"
           /\ file["final"] = None /\ file["oldFinal"] # None
        \/ /\ file' = [file EXCEPT !["oldFinal"] = None]
           /\ enrolling = "dropFinal" /\ enrolling' = "linkPending"
        \/ file' = file /\ enrolling = "linkPending" /\ enrolling' = "load"
        \/ /\ file' = [file EXCEPT !["pending"] = file["oldPending"]]
           /\ enrolling = "linkPending" /\ enrolling' = "dropPending"
           /\ file["pending"] = None /\ file["oldPending"] # None
        \/ /\ file' = [file EXCEPT !["oldPending"] = None]
           /\ enrolling = "dropPending" /\ enrolling' = "load"
    BY <1>1 DEF Enroll!AdoptLegacy, Enroll!Adopt, Enroll!Go
  <2>4. /\ file' \in [Enroll!Files -> Drawn' \cup {Old, None}]
        /\ file'["final"] = file["final"] \/ (/\ file["final"] = None
                                              /\ file'["final"] = file["oldFinal"]
                                              /\ file["oldFinal"] # None)
        /\ file'["pending"] = file["pending"] \/ file["pending"] = None
        /\ file'["oldFinal"] = file["oldFinal"] \/ file'["oldFinal"] = None
        /\ enrolling' = "dropFinal" => file'["final"] # None
        /\ file'["final"] = None => file'["oldFinal"] = None
    <3>1. file \in [Enroll!Files -> Drawn \cup {Old, None}]
      BY <1>t DEF EnrollTypes
    <3>2. enrolling # "linkFinal" /\ file["final"] = None => file["oldFinal"] = None
      BY <1>t, <2>1 DEF EnrollDisk
    <3>3. enrolling = "dropFinal" => file["final"] # None
      BY <1>t DEF EnrollDisk
    <3>4. CASE /\ file' = file /\ enrolling' # "dropFinal"
               /\ file["final"] # None \/ file["oldFinal"] = None
      BY <2>2, <3>1, <3>4
    <3>5. CASE /\ file' = [file EXCEPT !["final"] = file["oldFinal"]]
               /\ enrolling' = "dropFinal" /\ file["final"] = None /\ file["oldFinal"] # None
      BY <1>f, <2>2, <3>1, <3>5
    <3>6. CASE /\ file' = [file EXCEPT !["oldFinal"] = None]
               /\ enrolling = "dropFinal" /\ enrolling' = "linkPending"
      BY <1>f, <2>2, <3>1, <3>3, <3>6
    <3>7. CASE /\ file' = [file EXCEPT !["pending"] = file["oldPending"]]
               /\ enrolling = "linkPending" /\ enrolling' = "dropPending"
               /\ file["pending"] = None
      BY <1>f, <2>2, <3>1, <3>2, <3>7
    <3>8. CASE /\ file' = [file EXCEPT !["oldPending"] = None]
               /\ enrolling = "dropPending" /\ enrolling' = "load"
      BY <1>f, <2>2, <3>1, <3>2, <3>8
    <3> QED
      BY <2>3, <3>2, <3>4, <3>5, <3>6, <3>7, <3>8
  <2>5. answer = "none" /\ (held # None => file'["final"] = held)
    BY <1>t, <2>1, <2>4 DEF Enroll!TypeOK
  <2>6. file' \in [Enroll!Files -> Enroll!Credential \cup {None}]
    BY <1>c, <1>f, <2>1, <2>4
  <2>7. Enroll!TypeOK'
    BY <1>t, <2>1, <2>5, <2>6 DEF Enroll!TypeOK, Enroll!Steps
  <2>8. EnrollTypes'
    BY <1>t, <2>1, <2>2, <2>4, <2>7 DEF EnrollTypes
  <2>9. EnrollDisk'
    BY <1>f, <1>n, <1>t, <2>1, <2>4 DEF EnrollDisk
  <2>10. EnrollAsks'
    BY <2>1, <2>5 DEF EnrollAsks
  <2> QED
    BY <2>8, <2>9, <2>10 DEF EnrollInv
<1>2. CASE Enroll!RemoveStale \/ Enroll!RemovePending
  <2>1. /\ UNCHANGED <<made, used, expired, stored, configured, held, trying, answer, invented,
                       given, stops>>
        /\ enrolling \in {"enroll", "clear"} /\ enrolling' = "enrolled"
        /\ enrolling = "enroll" => held # None
        /\ file' = [file EXCEPT !["pending"] = None]
    BY <1>2 DEF Enroll!RemoveStale, Enroll!RemovePending, Enroll!Go, Enroll!serverVars
  <2>2. Drawn' = Drawn
    BY <2>1 DEF Drawn
  <2>3. /\ file' \in [Enroll!Files -> Drawn' \cup {Old, None}]
        /\ file'["final"] = file["final"] /\ file'["pending"] = None
        /\ file'["oldFinal"] = file["oldFinal"]
    BY <1>f, <1>t, <2>1, <2>2 DEF EnrollTypes
  <2>4. held # None /\ file["final"] = held /\ answer = "none"
    BY <1>t, <2>1 DEF EnrollAsks, Enroll!TypeOK
  <2>5. file' \in [Enroll!Files -> Enroll!Credential \cup {None}]
    BY <1>c, <1>f, <2>1, <2>3
  <2>6. Enroll!TypeOK'
    BY <1>t, <2>1, <2>3, <2>4, <2>5 DEF Enroll!TypeOK, Enroll!Steps
  <2>7. EnrollTypes'
    BY <1>t, <2>1, <2>2, <2>3, <2>6 DEF EnrollTypes
  <2>8. invented = 1 => file["final"] = 1
    BY <1>f, <1>t, <2>4 DEF EnrollDisk
  <2>9. EnrollDisk'
    BY <1>f, <1>n, <1>t, <2>1, <2>3, <2>4, <2>8 DEF EnrollDisk
  <2>10. EnrollAsks'
    BY <2>1, <2>4 DEF EnrollAsks
  <2> QED
    BY <2>7, <2>9, <2>10 DEF EnrollInv
<1>3. CASE Enroll!CreatePending
  <2>1. /\ UNCHANGED <<made, used, expired, stored, configured, held, given, stops>>
        /\ enrolling = "create" /\ enrolling' = "exchange" /\ answer' = "sent"
        /\ invented < MaxCredentials /\ invented' = invented + 1
        /\ trying' = invented + 1 /\ file' = [file EXCEPT !["pending"] = invented + 1]
    BY <1>3 DEF Enroll!CreatePending, Enroll!Go, Enroll!serverVars
  <2>2. held = None /\ file["final"] = None /\ file["pending"] = None
        /\ file["oldFinal"] = None /\ answer = "none" /\ configured # None
    BY <1>t, <2>1 DEF EnrollAsks, EnrollDisk, Enroll!TypeOK
  <2>3. invented = 0 /\ invented' = 1
    BY <1>f, <1>n, <1>t, <2>1, <2>2 DEF EnrollDisk
  <2>4. Drawn = {} /\ Drawn' = {1} /\ stored \in {Old, None}
    BY <1>f, <1>t, <2>3 DEF EnrollTypes, Drawn
  <2>5. /\ file' \in [Enroll!Files -> Drawn' \cup {Old, None}]
        /\ file'["final"] = None /\ file'["pending"] = 1 /\ file'["oldFinal"] = None
    BY <1>f, <1>t, <2>1, <2>2, <2>3, <2>4 DEF EnrollTypes
  <2>6. file' \in [Enroll!Files -> Enroll!Credential \cup {None}]
    BY <1>c, <2>3, <2>5
  <2>7. trying' = 1 /\ trying' \in Enroll!Credential /\ 1 \in 0 .. MaxCredentials
    BY <2>1, <2>3, EnrollConstantsHold DEF Enroll!Credential, Enroll!New
  <2>8. Enroll!TypeOK'
    BY <1>n, <1>t, <2>1, <2>2, <2>3, <2>6, <2>7 DEF Enroll!TypeOK, Enroll!Steps
  <2>9. given \subseteq made \X (Drawn' \cup {Old})
    BY <1>t, <2>4 DEF EnrollTypes
  <2>10. EnrollTypes'
    BY <1>t, <2>1, <2>3, <2>4, <2>5, <2>7, <2>8, <2>9 DEF EnrollTypes
  <2>11. EnrollDisk'
    BY <1>n, <2>1, <2>5 DEF EnrollDisk
  <2>12. EnrollAsks'
    BY <1>n, <2>1, <2>2, <2>5, <2>7 DEF EnrollAsks
  <2> QED
    BY <2>10, <2>11, <2>12 DEF EnrollInv
<1>4. CASE Enroll!RemoveLegacyPending
  <2>1. /\ UNCHANGED <<made, used, expired, stored, configured, held, trying, answer, invented,
                       given, stops>>
        /\ enrolling = "regenerate" /\ enrolling' = "create"
        /\ file' = [file EXCEPT !["pending"] = None]
    BY <1>4 DEF Enroll!RemoveLegacyPending, Enroll!Go, Enroll!serverVars
  <2>2. /\ held = None /\ file["final"] = None /\ file["pending"] = Old /\ answer = "none"
        /\ file["oldFinal"] = None /\ configured # None
    BY <1>t, <2>1 DEF EnrollAsks, EnrollDisk, Enroll!TypeOK
  <2>3. invented = 0
    BY <1>f, <1>n, <1>t, <2>2 DEF EnrollDisk
  <2>4. Drawn' = Drawn
    BY <2>1 DEF Drawn
  <2>5. /\ file' \in [Enroll!Files -> Drawn' \cup {Old, None}]
        /\ file'["final"] = None /\ file'["pending"] = None /\ file'["oldFinal"] = None
    BY <1>f, <1>t, <2>1, <2>2, <2>4 DEF EnrollTypes
  <2>6. file' \in [Enroll!Files -> Enroll!Credential \cup {None}]
    BY <1>c, <1>f, <2>1, <2>5
  <2>7. Enroll!TypeOK'
    BY <1>t, <2>1, <2>2, <2>6 DEF Enroll!TypeOK, Enroll!Steps
  <2>8. EnrollTypes'
    BY <1>t, <2>1, <2>4, <2>5, <2>7 DEF EnrollTypes
  <2>9. EnrollDisk'
    BY <2>1, <2>3, <2>5 DEF EnrollDisk
  <2>10. EnrollAsks'
    BY <2>1, <2>2, <2>5 DEF EnrollAsks
  <2> QED
    BY <2>8, <2>9, <2>10 DEF EnrollInv
<1>5. CASE Enroll!SaveCredential
  <2>1. /\ UNCHANGED <<made, used, expired, stored, configured, trying, answer, invented,
                       given, stops>>
        /\ enrolling = "save" /\ enrolling' = "clear" /\ held' = trying
        /\ file' = [file EXCEPT !["final"] = trying]
    BY <1>5 DEF Enroll!SaveCredential, Enroll!Go, Enroll!serverVars
  <2>2. /\ file["final"] = None /\ trying = file["pending"] /\ trying # None
        /\ stored = trying /\ answer = "none" /\ file["oldFinal"] = None
    BY <1>t, <2>1 DEF EnrollAsks, EnrollDisk, Enroll!TypeOK
  <2>3. Drawn' = Drawn /\ trying \in Drawn \cup {Old, None}
    BY <1>t, <2>1 DEF Drawn, EnrollTypes
  <2>4. /\ file' \in [Enroll!Files -> Drawn' \cup {Old, None}]
        /\ file'["final"] = trying /\ file'["pending"] = trying /\ file'["oldFinal"] = None
    BY <1>f, <1>t, <2>1, <2>2, <2>3 DEF EnrollTypes
  <2>5. file' \in [Enroll!Files -> Enroll!Credential \cup {None}]
    BY <1>c, <1>f, <2>1, <2>4
  <2>6. invented = 1 => trying = 1
    BY <1>n, <1>t, <2>2 DEF EnrollDisk
  <2>7. Enroll!TypeOK'
    BY <1>t, <2>1, <2>2, <2>4, <2>5 DEF Enroll!TypeOK, Enroll!Steps
  <2>8. EnrollTypes'
    BY <1>t, <2>1, <2>3, <2>4, <2>7 DEF EnrollTypes
  <2>9. EnrollDisk'
    BY <1>n, <2>1, <2>2, <2>4, <2>6 DEF EnrollDisk
  <2>10. EnrollAsks'
    BY <2>1, <2>2 DEF EnrollAsks
  <2> QED
    BY <2>8, <2>9, <2>10 DEF EnrollInv
<1> QED
  BY <1>1, <1>2, <1>3, <1>4, <1>5

LEMMA EnrollKept == ASSUME EnrollInv, [Enroll!Next]_enrollmentVars PROVE EnrollInv'
<1>1. CASE UNCHANGED enrollmentVars
  BY <1>1 DEF enrollmentVars, EnrollInv, EnrollTypes, EnrollDisk, EnrollAsks, Drawn,
     Enroll!TypeOK
<1> QED
  BY <1>1, ServerKept, WorkerKept, FilesKept DEF Enroll!Next, Enroll!Local

\* A credential the server accepted is on the worker's disk, and the worker never runs
\* with one the server does not know, wherever it crashed and whatever was lost.
THEOREM CredentialAlwaysSafe == Spec => []CredentialSafe
<1>1. EnrollInv /\ [Next]_vars => EnrollInv'
  BY EnrollStep, EnrollKept
<1>2. EnrollInv => CredentialSafe
  <2> SUFFICES ASSUME EnrollInv PROVE CredentialSafe
    OBVIOUS
  <2>1. file["final"] # None => file["final"] = stored
    BY DEF EnrollInv, EnrollDisk
  <2>2. ASSUME stored \in Enroll!New PROVE stored \in {file["final"], file["pending"]}
    <3>1. stored \in Drawn /\ stored # Old /\ stored # None
      BY <2>2, EnrollConstantsHold DEF EnrollInv, EnrollTypes, Enroll!New
    <3>2. stored = 1 /\ invented = 1
      BY <3>1, DrawnIs DEF EnrollInv, EnrollTypes
    <3> QED
      BY <3>2 DEF EnrollInv, EnrollDisk
  <2> QED
    BY <2>1, <2>2 DEF CredentialSafe, Enroll!CredentialSafe
<1> QED
  BY EnrollInit, <1>1, <1>2, PTL DEF Spec

-----------------------------------------------------------------------------
(* Schedules.                                                              *)

\* A step of the whole is a step of the schedule or leaves it alone.
LEMMA SchedStep == [Next]_vars => [Sched!Next]_schedulesVars
BY DEF Next, vars, Schedules, Publication, Enrollment, Admissions, Locking, Caching,
       Forwarding, Dispatching, schedulesVars

SchedRuns == [key : Sched!Revisions \X Sched!Instants, of : Sched!Revisions,
              due : Sched!Instants]
SchedJobs == [due : Sched!Instants \cup {None}, of : Sched!Revisions \cup {None},
              outcome : Sched!Outcomes]

SchedTypes ==
  /\ Sched!TypeOK /\ runs \subseteq SchedRuns /\ job \in SchedJobs
  /\ \A run \in runs : run.key = <<run.of, run.due>>

\* What the goroutine holds is what is pending, unless somebody discarded that; an
\* occurrence nobody retries has a code that says so; an admission has its Run.
SchedHolds ==
  /\ job # Sched!NoJob => pending = None \/ (pending = job.due /\ frozen = job.of)
  /\ pending # None /\ retry = None => coded /\ status \in {"blocked", "disabled"}
  /\ job.outcome = "admitted" => \E run \in runs : run.due = job.due /\ run.of = job.of

SchedInv == SchedTypes /\ SchedHolds

LEMMA SchedConstantsHold ==
  MaxTime \in Nat \ {0} /\ MaxGeneration \in Nat \ {0} /\ None \notin Nat
BY Constants DEF Sched!ScheduleConstants

LEMMA SchedSets ==
  /\ Sched!Instants \subseteq Nat /\ Sched!Revisions \subseteq Nat
  /\ None \notin Sched!Instants /\ None \notin Sched!Revisions
  /\ \A t : Sched!Later(t) \subseteq Sched!Instants
BY SchedConstantsHold DEF Sched!Instants, Sched!Revisions, Sched!Later

LEMMA SchedInit == Init => SchedInv
<1> SUFFICES ASSUME Init PROVE SchedInv
  OBVIOUS
<1>1. Sched!Init
  BY DEF Init
<1>2. 0 \in Sched!Times /\ 1 \in Sched!Revisions
  BY SchedConstantsHold DEF Sched!Times, Sched!Revisions
<1>3. next \in Sched!Instants \cup {None}
  BY <1>1, SchedSets DEF Sched!Init
<1>4. job \in SchedJobs /\ job = Sched!NoJob /\ job.outcome = "none"
  BY <1>1 DEF Sched!Init, SchedJobs, Sched!NoJob, Sched!Outcomes
<1>5. Sched!TypeOK
  BY <1>1, <1>2, <1>3, <1>4 DEF Sched!Init, Sched!TypeOK, Sched!Shown, SchedJobs
<1>6. SchedTypes
  BY <1>1, <1>4, <1>5 DEF SchedTypes, Sched!Init
<1>7. SchedHolds
  BY <1>1, <1>4 DEF SchedHolds, Sched!Init
<1> QED
  BY <1>6, <1>7 DEF SchedInv

\* A step that leaves the goroutine, the Runs and the clock alone keeps their types.
LEMMA SchedEdits ==
  ASSUME SchedInv, UNCHANGED <<runs, job>>,
         now' \in Sched!Times /\ paused' \in BOOLEAN /\ usable' \in BOOLEAN,
         enabled' \in BOOLEAN /\ archived' \in BOOLEAN /\ revision' \in Sched!Revisions,
         archived' => ~enabled',
         next' \in Sched!Instants \cup {None},
         \/ pending' = pending /\ frozen' = frozen /\ retry' = retry
         \/ pending' = None /\ frozen' = None /\ retry' = None,
         discarded' \in Sched!Instants \cup {None},
         status' \in {"disabled", "healthy", "blocked", "error"} /\ coded' \in BOOLEAN,
         pending' # None /\ retry' = None => coded' /\ status' \in {"blocked", "disabled"}
  PROVE  SchedInv'
<1>t. SchedTypes /\ SchedHolds /\ Sched!TypeOK
  BY DEF SchedInv, SchedTypes
<1>1. (pending' = pending /\ frozen' = frozen /\ retry' = retry)
      \/ (pending' = None /\ frozen' = None /\ retry' = None)
  OBVIOUS
<1>2. Sched!TypeOK'
  BY <1>1, <1>t DEF Sched!TypeOK
<1>3. SchedTypes'
  BY <1>2, <1>t DEF SchedTypes
<1>4. SchedHolds'
  BY <1>1, <1>t DEF SchedHolds
<1> QED
  BY <1>3, <1>4 DEF SchedInv

\* The scheduler's transactions.
LEMMA SchedulerKept ==
  ASSUME SchedInv, Sched!ClaimDue \/ Sched!Admit \/ Sched!Finish \/ Sched!Crash
  PROVE  SchedInv' /\ Sched!PendingStep
<1>t. SchedTypes /\ SchedHolds /\ Sched!TypeOK /\ runs \subseteq SchedRuns /\ job \in SchedJobs
  BY DEF SchedInv, SchedTypes
<1>n. None \notin Sched!Instants /\ Sched!Instants \subseteq Nat /\ None \notin Nat
      /\ None \notin Sched!Revisions
  BY SchedSets, SchedConstantsHold
<1>j. /\ Sched!NoJob \in SchedJobs /\ Sched!NoJob.outcome = "none" /\ Sched!NoJob.due = None
      /\ job.outcome # "none" => job # Sched!NoJob
  BY DEF SchedJobs, Sched!NoJob, Sched!Outcomes
<1>w. now \in Nat
  BY <1>t, SchedConstantsHold DEF Sched!TypeOK, Sched!Times
<1>1. CASE Sched!ClaimDue
  <2>1. /\ job = Sched!NoJob
        /\ UNCHANGED <<now, paused, usable, enabled, archived, revision, status, coded, runs,
                       next, discarded>>
    BY <1>1 DEF Sched!ClaimDue, Sched!dueVars, Sched!worldVars, Sched!taskVars,
       Sched!shownVars
  <2>2. CASE /\ pending # None /\ job' = [due |-> pending, of |-> frozen, outcome |-> "none"]
             /\ UNCHANGED <<pending, frozen, retry>>
    <3>1. pending \in Sched!Instants /\ frozen \in Sched!Revisions
      BY <1>t, <2>2 DEF Sched!TypeOK
    <3>2. job' \in SchedJobs /\ job'.outcome = "none" /\ job'.due = pending /\ job'.of = frozen
      BY <2>2, <3>1 DEF SchedJobs, Sched!Outcomes
    <3>3. Sched!TypeOK'
      BY <1>t, <2>1, <2>2, <3>1, <3>2 DEF Sched!TypeOK, Sched!Outcomes
    <3>4. SchedTypes'
      BY <1>t, <2>1, <3>2, <3>3 DEF SchedTypes
    <3>5. SchedHolds'
      BY <1>t, <2>1, <2>2, <3>2 DEF SchedHolds
    <3> QED
      BY <2>2, <3>4, <3>5 DEF SchedInv, Sched!PendingStep
  <2>3. CASE /\ pending = None /\ next # None
             /\ pending' = next /\ frozen' = revision /\ retry' = now
             /\ job' = [due |-> next, of |-> revision, outcome |-> "none"]
    <3>1. next \in Sched!Instants /\ revision \in Sched!Revisions
      BY <1>t, <2>3 DEF Sched!TypeOK
    <3>2. job' \in SchedJobs /\ job'.outcome = "none" /\ job'.due = next /\ job'.of = revision
      BY <2>3, <3>1 DEF SchedJobs, Sched!Outcomes
    <3>3. Sched!TypeOK'
      BY <1>n, <1>t, <1>w, <2>1, <2>3, <3>1, <3>2 DEF Sched!TypeOK, Sched!Outcomes
    <3>4. SchedTypes'
      BY <1>t, <2>1, <3>2, <3>3 DEF SchedTypes
    <3>5. SchedHolds'
      BY <1>n, <1>w, <2>1, <2>3, <3>2 DEF SchedHolds
    <3> QED
      BY <2>3, <3>4, <3>5 DEF SchedInv, Sched!PendingStep
  <2> QED
    BY <1>1, <2>2, <2>3 DEF Sched!ClaimDue, Sched!dueVars
<1>2. CASE Sched!Admit
  <2>1. /\ job # Sched!NoJob /\ job.outcome = "none"
        /\ UNCHANGED <<now, paused, usable, enabled, archived, revision, status, coded, next,
                       pending, frozen, retry, discarded>>
    BY <1>2 DEF Sched!Admit, Sched!dueVars, Sched!worldVars, Sched!taskVars, Sched!shownVars
  <2>2. job.due \in Sched!Instants /\ job.of \in Sched!Revisions
    BY <1>t, <2>1 DEF Sched!TypeOK
  <2> DEFINE new == [key |-> <<job.of, job.due>>, of |-> job.of, due |-> job.due]
  <2>3. new \in SchedRuns /\ new.key = <<new.of, new.due>>
        /\ new.of = job.of /\ new.due = job.due
    BY <2>2 DEF SchedRuns
  <2>4. PICK outcome \in Sched!Outcomes :
          /\ job' = [job EXCEPT !.outcome = outcome]
          /\ \/ UNCHANGED runs /\ outcome # "admitted"
             \/ /\ UNCHANGED runs /\ \E run \in runs : run.key = <<job.of, job.due>>
             \/ runs' = runs \cup {new}
    <3>1. Sched!Refusal \in Sched!Outcomes /\ Sched!Refusal # "admitted"
      BY DEF Sched!Refusal, Sched!Outcomes
    <3>2. {"admitted", "permanent", "transient"} \subseteq Sched!Outcomes
      BY DEF Sched!Outcomes
    <3> QED
      BY <1>2, <3>1, <3>2 DEF Sched!Admit, Sched!Key
  <2>5. /\ job' \in SchedJobs /\ job'.due = job.due /\ job'.of = job.of
        /\ job'.outcome = outcome
    BY <1>t, <2>4 DEF SchedJobs
  <2> HIDE DEF new
  <2>6. runs' \subseteq SchedRuns /\ \A run \in runs' : run.key = <<run.of, run.due>>
    BY <1>t, <2>3, <2>4 DEF SchedTypes
  <2>7. outcome = "admitted" => \E run \in runs' : run.due = job.due /\ run.of = job.of
    <3>1. ASSUME NEW run \in runs, run.key = <<job.of, job.due>>
          PROVE  run.due = job.due /\ run.of = job.of
      BY <1>t, <3>1 DEF SchedTypes
    <3> QED
      BY <2>3, <2>4, <3>1
  <2>8. \A run \in runs' : /\ run.key \in Sched!Revisions \X Sched!Instants
                           /\ run.of \in Sched!Revisions /\ run.due \in Sched!Instants
    BY <2>6 DEF SchedRuns
  <2>9. Sched!TypeOK'
    BY <1>t, <2>1, <2>2, <2>5, <2>8 DEF Sched!TypeOK
  <2>10. SchedTypes'
    BY <2>5, <2>6, <2>9 DEF SchedTypes
  <2>11. SchedHolds'
    BY <1>t, <2>1, <2>5, <2>7 DEF SchedHolds
  <2> QED
    BY <2>1, <2>10, <2>11 DEF SchedInv, Sched!PendingStep
<1>3. CASE Sched!Finish
  <2>1. /\ job.outcome # "none" /\ job' = Sched!NoJob
        /\ UNCHANGED <<now, paused, usable, enabled, archived, revision, runs>>
    BY <1>3 DEF Sched!Finish, Sched!worldVars, Sched!taskVars
  <2>2. job # Sched!NoJob /\ job.due \in Sched!Instants
    BY <1>j, <1>t, <2>1 DEF Sched!TypeOK
  <2>3. \/ UNCHANGED <<next, pending, frozen, retry, discarded, status, coded>>
        \/ /\ pending = job.due /\ job.outcome = "admitted"
           /\ pending' = None /\ frozen' = None /\ retry' = None
           /\ next' \in Sched!Instants /\ discarded' = discarded
           /\ status' = "healthy" /\ coded' = FALSE
        \/ /\ pending = job.due
           /\ retry' = None /\ status' = "blocked" /\ coded' = TRUE
           /\ UNCHANGED <<next, pending, frozen, discarded>>
        \/ /\ pending = job.due
           /\ retry' = now + 1 /\ coded' = TRUE /\ status' \in {"blocked", "error"}
           /\ UNCHANGED <<next, pending, frozen, discarded>>
    BY <1>3, SchedSets DEF Sched!Finish, Sched!dueVars, Sched!shownVars, Sched!Cleared
  <2>4. Sched!TypeOK'
    <3>1. /\ next' \in Sched!Instants \cup {None} /\ pending' \in Sched!Instants \cup {None}
          /\ frozen' \in Sched!Revisions \cup {None} /\ (frozen' = None <=> pending' = None)
          /\ discarded' \in Sched!Instants \cup {None}
      BY <1>t, <2>3 DEF Sched!TypeOK
    <3>2. retry' \in Nat \cup {None} /\ (pending' = None => retry' = None)
      BY <1>n, <1>t, <1>w, <2>2, <2>3 DEF Sched!TypeOK
    <3>3. status' \in {"disabled", "healthy", "blocked", "error"} /\ coded' \in BOOLEAN
      BY <1>t, <2>3 DEF Sched!TypeOK
    <3> QED
      BY <1>j, <1>t, <2>1, <3>1, <3>2, <3>3 DEF Sched!TypeOK, Sched!Outcomes
  <2>5. SchedTypes'
    BY <1>j, <1>t, <2>1, <2>4 DEF SchedTypes
  <2>6. SchedHolds'
    BY <1>j, <1>n, <1>t, <1>w, <2>1, <2>3 DEF SchedHolds
  <2>7. Sched!PendingStep
    BY <1>t, <2>2, <2>3 DEF Sched!PendingStep, SchedHolds
  <2> QED
    BY <2>5, <2>6, <2>7 DEF SchedInv
<1>4. CASE Sched!Crash
  <2>1. /\ job' = Sched!NoJob
        /\ UNCHANGED <<now, paused, usable, enabled, archived, revision, status, coded, next,
                       pending, frozen, retry, discarded, runs>>
    BY <1>4 DEF Sched!Crash, Sched!dueVars, Sched!worldVars, Sched!taskVars, Sched!shownVars
  <2>2. Sched!TypeOK'
    BY <1>j, <1>t, <2>1 DEF Sched!TypeOK, Sched!Outcomes
  <2>3. SchedTypes'
    BY <1>j, <1>t, <2>1, <2>2 DEF SchedTypes
  <2>4. SchedHolds'
    BY <1>j, <1>t, <2>1 DEF SchedHolds
  <2> QED
    BY <2>1, <2>3, <2>4 DEF SchedInv, Sched!PendingStep
<1> QED
  BY <1>1, <1>2, <1>3, <1>4

\* The operators' requests and the clock.
LEMMA OperatorsKept ==
  ASSUME SchedInv,
         \/ \E on \in BOOLEAN, read \in Sched!Times : Sched!UpdateTask(on, read)
         \/ \E to \in BOOLEAN : Sched!SetTaskArchived(to) \/ Sched!SetRepositoryEnabled(to)
         \/ Sched!DiscardTaskOccurrence \/ Sched!SetFactoryPause \/ Sched!Tick
  PROVE  SchedInv' /\ Sched!PendingStep
<1>t. SchedTypes /\ SchedHolds /\ Sched!TypeOK
  BY DEF SchedInv, SchedTypes
<1>o. /\ now \in Sched!Times /\ paused \in BOOLEAN /\ usable \in BOOLEAN
      /\ enabled \in BOOLEAN /\ archived \in BOOLEAN /\ revision \in Sched!Revisions
      /\ archived => ~enabled
      /\ next \in Sched!Instants \cup {None} /\ discarded \in Sched!Instants \cup {None}
      /\ pending \in Sched!Instants \cup {None}
      /\ status \in {"disabled", "healthy", "blocked", "error"} /\ coded \in BOOLEAN
      /\ pending # None /\ retry = None => coded /\ status \in {"blocked", "disabled"}
  BY <1>t DEF Sched!TypeOK, SchedHolds
<1>r. ASSUME revision < MaxGeneration, revision' = revision + 1
      PROVE  revision' \in Sched!Revisions
  BY <1>o, <1>r, SchedConstantsHold DEF Sched!Revisions
<1>1. ASSUME NEW on \in BOOLEAN, NEW read \in Sched!Times, Sched!UpdateTask(on, read)
      PROVE  SchedInv' /\ Sched!PendingStep
  <2>1. /\ revision < MaxGeneration /\ revision' = revision + 1 /\ ~(archived /\ on)
        /\ enabled' = on
        /\ next' \in Sched!Instants \cup {None}
        /\ status' = IF on /\ Sched!Preserved THEN "blocked" ELSE IF on THEN "healthy" ELSE "disabled"
        /\ coded' = (Sched!Preserved /\ coded)
        /\ UNCHANGED <<now, paused, usable, archived, pending, frozen, retry, discarded, runs,
                       job>>
    BY <1>1, <1>o, SchedSets DEF Sched!UpdateTask, Sched!Shown, Sched!worldVars
  <2>2. pending' # None /\ retry' = None => coded' /\ status' \in {"blocked", "disabled"}
    BY <1>o, <2>1 DEF Sched!Preserved
  <2>3. revision' \in Sched!Revisions
    BY <1>r, <2>1
  <2>4. SchedInv'
    BY <1>o, <2>1, <2>2, <2>3, SchedEdits
  <2> QED
    BY <2>1, <2>4 DEF Sched!PendingStep
<1>2. ASSUME NEW to \in BOOLEAN, Sched!SetTaskArchived(to)
      PROVE  SchedInv' /\ Sched!PendingStep
  <2>1. /\ revision < MaxGeneration /\ revision' = revision + 1
        /\ archived' = to /\ enabled' = (enabled /\ ~to)
        /\ next' = (IF to THEN None ELSE next)
        /\ status' = (IF to THEN "disabled" ELSE status)
        /\ UNCHANGED <<now, paused, usable, pending, frozen, retry, discarded, coded, runs,
                       job>>
    BY <1>2 DEF Sched!SetTaskArchived, Sched!worldVars
  <2>2. revision' \in Sched!Revisions
    BY <1>r, <2>1
  <2>3. pending' # None /\ retry' = None => coded' /\ status' \in {"blocked", "disabled"}
    BY <1>o, <2>1
  <2>4. SchedInv'
    BY <1>o, <2>1, <2>2, <2>3, SchedEdits
  <2> QED
    BY <2>1, <2>4 DEF Sched!PendingStep
<1>3. ASSUME NEW to \in BOOLEAN, Sched!SetRepositoryEnabled(to)
      PROVE  SchedInv' /\ Sched!PendingStep
  <2>1. /\ usable' = to
        /\ \/ UNCHANGED <<status, coded>>
           \/ ~to /\ status' = "blocked" /\ coded' = TRUE
           \/ pending = None /\ status' = "healthy" /\ coded' = FALSE
        /\ UNCHANGED <<now, paused, enabled, archived, revision, next, pending, frozen, retry,
                       discarded, runs, job>>
    BY <1>3 DEF Sched!SetRepositoryEnabled, Sched!taskVars, Sched!dueVars, Sched!shownVars
  <2>2. SchedInv'
    BY <1>o, <2>1, SchedEdits
  <2> QED
    BY <2>1, <2>2 DEF Sched!PendingStep
<1>4. ASSUME Sched!DiscardTaskOccurrence PROVE SchedInv' /\ Sched!PendingStep
  <2>1. /\ pending # None /\ pending' = None /\ frozen' = None /\ retry' = None
        /\ discarded' = pending /\ next' \in Sched!Instants \cup {None}
        /\ status' \in {"healthy", "disabled"} /\ coded' = FALSE
        /\ UNCHANGED <<now, paused, usable, enabled, archived, revision, runs, job>>
    BY <1>4, SchedSets DEF Sched!DiscardTaskOccurrence, Sched!Cleared, Sched!Shown,
       Sched!worldVars, Sched!taskVars
  <2>2. SchedInv'
    BY <1>o, <2>1, SchedEdits
  <2> QED
    BY <2>1, <2>2 DEF Sched!PendingStep
<1>5. ASSUME Sched!SetFactoryPause \/ Sched!Tick PROVE SchedInv' /\ Sched!PendingStep
  <2>1. UNCHANGED <<usable, enabled, archived, revision, next, pending, frozen, retry,
                    discarded, status, coded, runs, job>>
    BY <1>5 DEF Sched!SetFactoryPause, Sched!Tick, Sched!taskVars, Sched!dueVars,
       Sched!shownVars
  <2>2. now' \in Sched!Times /\ paused' \in BOOLEAN
    <3>1. CASE Sched!SetFactoryPause
      BY <1>o, <3>1 DEF Sched!SetFactoryPause
    <3>2. CASE Sched!Tick
      BY <1>o, <3>2, SchedConstantsHold DEF Sched!Tick, Sched!Times
    <3> QED
      BY <1>5, <3>1, <3>2
  <2>3. SchedInv'
    BY <1>o, <2>1, <2>2, SchedEdits
  <2> QED
    BY <2>1, <2>3 DEF Sched!PendingStep
<1> QED
  BY <1>1, <1>2, <1>3, <1>4, <1>5

LEMMA SchedKept ==
  ASSUME SchedInv, [Sched!Next]_schedulesVars
  PROVE  SchedInv' /\ [Sched!PendingStep]_(Sched!vars)
<1>1. CASE UNCHANGED schedulesVars
  <2>1. SchedInv'
    BY <1>1 DEF schedulesVars, SchedInv, SchedTypes, SchedHolds, Sched!TypeOK
  <2> QED
    BY <1>1, <2>1 DEF schedulesVars, Sched!PendingStep
<1> QED
  BY <1>1, SchedulerKept, OperatorsKept DEF Sched!Next

\* One generation of a Task and one instant create one Run, though the scheduler stops
\* after an admission and the Task is edited, and an occurrence that nobody retries any
\* more is one an operator may discard.
THEOREM OccurrencesAlwaysOnce == Spec => []OccurrencesRunOnce
<1>1. SchedInv /\ [Next]_vars => SchedInv'
  BY SchedStep, SchedKept
<1>2. SchedInv => OccurrencesRunOnce
  <2> SUFFICES ASSUME SchedInv PROVE OccurrencesRunOnce
    OBVIOUS
  <2>1. ASSUME NEW x \in runs, NEW y \in runs, x.of = y.of, x.due = y.due
        PROVE  x = y
    <3>1. x \in SchedRuns /\ y \in SchedRuns /\ x.key = y.key
      BY <2>1 DEF SchedInv, SchedTypes
    <3> QED
      BY <2>1, <3>1 DEF SchedRuns
  <2>2. Sched!HeldCanBeMoved
    BY DEF SchedInv, SchedHolds, Sched!HeldCanBeMoved
  <2> QED
    BY <2>1, <2>2 DEF OccurrencesRunOnce, Sched!OneRunPerInstant
<1> QED
  BY SchedInit, <1>1, <1>2, PTL DEF Spec

\* A pending occurrence keeps its instant and its frozen Task until a Run exists for it
\* or an operator discards it, through edits, archiving, pauses and crashes.
THEOREM PendingAlwaysKept == Spec => PendingIsKept
<1>1. SchedInv /\ [Next]_vars => SchedInv'
  BY SchedStep, SchedKept
<1>2. SchedInv /\ [Next]_vars => [Sched!PendingStep]_(Sched!vars)
  BY SchedStep, SchedKept
<1> QED
  BY SchedInit, <1>1, <1>2, PTL DEF Spec, PendingIsKept, Sched!PendingIsKept

-----------------------------------------------------------------------------
(* RecoveryPublication.                                                    *)

\* A step of the whole is a step of the publication or leaves it alone.
LEMMA RecoveryStep == [Next]_vars => [Recovery!Next]_recoveryVars
BY DEF Next, vars, Schedules, Publication, Enrollment, Admissions, Locking, Caching,
       Forwarding, Dispatching, recoveryVars

RecoverySteps == Recovery!Running \cup {"unused", "failed", "succeeded", "crashed"}
RunningNow == {a \in Recovery!Attempt : publishing[a] \in Recovery!Running}

\* A staging directory belongs to an attempt that came to its second round.
RecoveryTypes ==
  /\ database \in Recovery!File /\ marker \in Recovery!File /\ staged \subseteq Recovery!Attempt
  /\ publishing \in [Recovery!Attempt -> RecoverySteps]
  /\ round \in [Recovery!Attempt -> {1, 2}]
  /\ found \in [Recovery!Attempt -> Recovery!Attempt \cup {None}]
  /\ Cardinality(RunningNow) <= AtOnce
  /\ \A a \in staged : /\ round[a] = 2
                       /\ publishing[a] \notin {"unused", "stage", "failed", "succeeded"}

\* The steps at which an attempt may change the names.
Publishing == {"removeDatabase", "removeMarker", "unstage", "stage", "linkDatabase",
               "linkMarker", "sync", "undoMarker", "undoDatabase", "succeeding"}

\* One file without the other, if this program wrote it, is still staged.
PartialIsStaged ==
  {database, marker} \cap Recovery!Attempt # {}
  => database = marker \/ {database, marker} \cap staged # {}

\* Where an attempt is says what the two names stand for.
RecoveryNames(a) ==
  /\ publishing[a] = "removeDatabase" => marker = None /\ database # None
  /\ publishing[a] = "removeMarker" => database = None /\ marker # None
  /\ publishing[a] \in {"unstage", "stage", "linkDatabase"} => database = None /\ marker = None
  /\ publishing[a] \in {"linkMarker", "undoDatabase"} =>
       database = a /\ marker = None /\ a \in staged
  /\ publishing[a] \in {"sync", "undoMarker"} => database = a /\ marker = a /\ a \in staged
  /\ publishing[a] = "succeeding" => database = a /\ marker = a
  /\ publishing[a] \in {"unused", "inspect", "fresh", "failing"} => a \notin {database, marker}
  /\ publishing[a] \in Publishing => \A b \in Recovery!Attempt : publishing[b] # "succeeded"

\* Attempts one at a time.
RecoveryAlone ==
  /\ \A a, b \in RunningNow : a = b
  /\ PartialIsStaged /\ Recovery!ReportedIsComplete
  /\ \A a \in Recovery!Attempt : RecoveryNames(a)

RecoveryInv == RecoveryTypes /\ (AtOnce = 1 => RecoveryAlone)

LEMMA RecoveryConstantsHold ==
  /\ MaxAttempts \in Nat \ {0} /\ AtOnce \in Nat \ {0}
  /\ None # Foreign /\ None \notin Recovery!Attempt /\ Foreign \notin Recovery!Attempt
BY Constants DEF Recovery!RecoveryConstants, Recovery!Attempt

LEMMA RecoveryCardinality == ASSUME NEW S PROVE Recovery!Cardinality(S) = Cardinality(S)
BY DEF Recovery!Cardinality, Cardinality

LEMMA AttemptsFinite == \A S \in SUBSET Recovery!Attempt : IsFiniteSet(S) /\ Cardinality(S) \in Nat
<1>1. IsFiniteSet(1 .. MaxAttempts)
  BY RecoveryConstantsHold, FS_Interval
<1>2. \A S \in SUBSET (1 .. MaxAttempts) : IsFiniteSet(S)
  BY <1>1, FS_Subset
<1> QED
  BY <1>2, FS_CardinalityType DEF Recovery!Attempt

LEMMA RecoveryInit == Init => RecoveryInv
<1> SUFFICES ASSUME Init PROVE RecoveryInv
  OBVIOUS
<1>1. Recovery!Init
  BY DEF Init
<1>2. RunningNow = {}
  BY <1>1 DEF Recovery!Init, RunningNow, Recovery!Running
<1>3. Cardinality(RunningNow) <= AtOnce
  BY <1>2, FS_EmptySet, RecoveryConstantsHold
<1>4. RecoveryTypes
  BY <1>1, <1>3 DEF Recovery!Init, RecoveryTypes, Recovery!File, RecoverySteps
<1>5. \A a \in Recovery!Attempt : RecoveryNames(a)
  BY <1>1, RecoveryConstantsHold DEF Recovery!Init, RecoveryNames, Publishing
<1>6. PartialIsStaged /\ Recovery!ReportedIsComplete
  BY <1>1, RecoveryConstantsHold DEF Recovery!Init, PartialIsStaged,
     Recovery!ReportedIsComplete
<1> QED
  BY <1>2, <1>4, <1>5, <1>6 DEF RecoveryInv, RecoveryAlone

\* One attempt moves to the step x.
LEMMA RecoveryTo ==
  ASSUME RecoveryTypes, NEW a \in Recovery!Attempt, NEW x \in RecoverySteps, Recovery!To(a, x)
  PROVE  /\ publishing' \in [Recovery!Attempt -> RecoverySteps]
         /\ \A b \in Recovery!Attempt : publishing'[b] = IF b = a THEN x ELSE publishing[b]
BY DEF RecoveryTypes, Recovery!To

\* An attempt that was running already adds nobody to the running ones.
LEMMA RunningShrinks ==
  ASSUME RecoveryTypes, NEW a \in RunningNow, NEW x \in RecoverySteps, Recovery!To(a, x)
  PROVE  RunningNow' \subseteq RunningNow /\ Cardinality(RunningNow') <= AtOnce
<1>1. RunningNow' \subseteq RunningNow
  BY RecoveryTo DEF RunningNow
<1>2. RunningNow \in SUBSET Recovery!Attempt /\ RunningNow' \in SUBSET Recovery!Attempt
  BY <1>1 DEF RunningNow
<1>3. Cardinality(RunningNow') <= Cardinality(RunningNow)
  BY <1>1, <1>2, AttemptsFinite, FS_Subset
<1>4. Cardinality(RunningNow) \in Nat /\ Cardinality(RunningNow') \in Nat /\ AtOnce \in Nat
  BY <1>2, AttemptsFinite, RecoveryConstantsHold
<1> QED
  BY <1>1, <1>3, <1>4 DEF RecoveryTypes

\* Starting an attempt.
LEMMA StartKept ==
  ASSUME RecoveryInv, NEW a \in Recovery!Attempt, Recovery!Start(a)
  PROVE  RecoveryInv'
<1>t. RecoveryTypes
  BY DEF RecoveryInv
<1>1. /\ publishing[a] = "unused" /\ Recovery!To(a, "inspect")
      /\ UNCHANGED <<database, marker, staged, round, found>>
      /\ Cardinality(RunningNow) < AtOnce
  BY RecoveryCardinality DEF Recovery!Start, Recovery!nameVars, RunningNow
<1>2. "inspect" \in RecoverySteps /\ "inspect" \in Recovery!Running
      /\ "unused" \notin Recovery!Running
  BY DEF RecoverySteps, Recovery!Running
<1>3. /\ publishing' \in [Recovery!Attempt -> RecoverySteps]
      /\ \A b \in Recovery!Attempt : publishing'[b] = IF b = a THEN "inspect" ELSE publishing[b]
  BY <1>1, <1>2, <1>t, RecoveryTo
<1>4. RunningNow' = RunningNow \cup {a} /\ a \notin RunningNow
  BY <1>1, <1>2, <1>3 DEF RunningNow
<1>5. IsFiniteSet(RunningNow) /\ Cardinality(RunningNow) \in Nat
  BY AttemptsFinite DEF RunningNow
<1>6. Cardinality(RunningNow') <= AtOnce
  <2>1. Cardinality(RunningNow') = Cardinality(RunningNow) + 1
    BY <1>4, <1>5, Grown
  <2> QED
    BY <1>1, <1>5, <2>1, RecoveryConstantsHold
<1>7. RecoveryTypes'
  BY <1>1, <1>3, <1>6, <1>t DEF RecoveryTypes
<1>8. ASSUME AtOnce = 1 PROVE RecoveryAlone'
  <2>1. RunningNow = {}
    <3>1. Cardinality(RunningNow) = 0
      BY <1>1, <1>5, <1>8
    <3> QED
      BY <1>5, <3>1, FS_EmptySet
  <2>2. RecoveryAlone
    BY <1>8 DEF RecoveryInv
  <2>3. \A x, y \in RunningNow' : x = y
    BY <1>4, <2>1
  <2>4. PartialIsStaged' /\ Recovery!ReportedIsComplete'
    BY <1>1, <1>3, <2>2 DEF RecoveryAlone, PartialIsStaged, Recovery!ReportedIsComplete
  <2>5. \A b \in Recovery!Attempt : RecoveryNames(b)'
    <3> SUFFICES ASSUME NEW b \in Recovery!Attempt PROVE RecoveryNames(b)'
      OBVIOUS
    <3>1. CASE b = a
      BY <1>1, <1>3, <2>2, <3>1 DEF RecoveryAlone, RecoveryNames, Publishing
    <3>2. CASE b # a
      <4>1. publishing'[b] = publishing[b] /\ publishing[b] \notin Publishing
        BY <1>3, <2>1, <3>2 DEF RunningNow, Publishing, Recovery!Running
      <4> QED
        BY <1>1, <2>2, <4>1 DEF RecoveryAlone, RecoveryNames, Publishing
    <3> QED
      BY <3>1, <3>2
  <2> QED
    BY <2>3, <2>4, <2>5 DEF RecoveryAlone
<1> QED
  BY <1>7, <1>8 DEF RecoveryInv

\* A step of a running attempt, when no other runs: what it must show of the names.
LEMMA AloneKept ==
  ASSUME RecoveryTypes, RecoveryAlone, NEW a \in RunningNow, NEW x \in RecoverySteps,
         Recovery!To(a, x), PartialIsStaged', RecoveryNames(a)',
         \* the names are changed by one who may change them, to nothing or to its own file
         \/ UNCHANGED <<database, marker>>
         \/ /\ publishing[a] \in Publishing
            /\ database' \in {None, a, database} /\ marker' \in {None, a, marker},
         x = "succeeded" => database' = a /\ marker' = a
  PROVE  RecoveryAlone'
<1>n. None \notin Recovery!Attempt /\ a \in Recovery!Attempt
  BY RecoveryConstantsHold DEF RunningNow
<1>1. /\ publishing' \in [Recovery!Attempt -> RecoverySteps]
      /\ \A b \in Recovery!Attempt : publishing'[b] = IF b = a THEN x ELSE publishing[b]
  BY <1>n, RecoveryTo
<1>2. RunningNow' \subseteq RunningNow
  BY RunningShrinks
<1>3. \A b \in Recovery!Attempt \ {a} : publishing[b] \notin Recovery!Running
  BY DEF RecoveryAlone, RunningNow
<1>4. publishing[a] # "succeeded"
  BY DEF RunningNow, Recovery!Running
<1>5. publishing[a] \in Publishing => \A b \in Recovery!Attempt : publishing[b] # "succeeded"
  BY <1>n DEF RecoveryAlone, RecoveryNames
<1>6. Recovery!ReportedIsComplete'
  BY <1>1, <1>5, <1>n DEF RecoveryAlone, Recovery!ReportedIsComplete
<1>7. \A b \in Recovery!Attempt : RecoveryNames(b)'
  <2> SUFFICES ASSUME NEW b \in Recovery!Attempt \ {a} PROVE RecoveryNames(b)'
    OBVIOUS
  <2>1. /\ publishing'[b] = publishing[b]
        /\ publishing[b] \in {"unused", "failed", "succeeded", "crashed"}
    BY <1>1, <1>3 DEF RecoveryTypes, RecoverySteps
  <2>2. publishing[b] = "unused" => b \notin {database, marker}
    BY DEF RecoveryAlone, RecoveryNames
  <2>3. publishing[b] = "unused" => b \notin {database', marker'}
    BY <1>n, <2>2
  <2> QED
    BY <2>1, <2>3 DEF RecoveryNames, Publishing
<1> QED
  BY <1>2, <1>6, <1>7 DEF RecoveryAlone

\* No step of a running attempt adds a running one or stages a directory for an attempt
\* that is not at its second round.
LEMMA AdvanceTypes ==
  ASSUME RecoveryTypes, NEW a \in RunningNow, NEW x \in RecoverySteps, Recovery!To(a, x),
         database' \in Recovery!File, marker' \in Recovery!File,
         found' \in [Recovery!Attempt -> Recovery!Attempt \cup {None}],
         \/ staged' \subseteq staged /\ round' = round
         \/ /\ staged' = staged \cup {a} /\ round' = [round EXCEPT ![a] = 2],
         a \in staged' => x \notin {"unused", "stage", "failed", "succeeded"}
  PROVE  RecoveryTypes'
<1>n. a \in Recovery!Attempt
  BY DEF RunningNow
<1>1. /\ publishing' \in [Recovery!Attempt -> RecoverySteps]
      /\ \A b \in Recovery!Attempt : publishing'[b] = IF b = a THEN x ELSE publishing[b]
  BY <1>n, RecoveryTo
<1>2. Cardinality(RunningNow') <= AtOnce
  BY RunningShrinks
<1>3. /\ round' \in [Recovery!Attempt -> {1, 2}] /\ staged' \subseteq Recovery!Attempt
      /\ staged' \subseteq staged \cup {a}
      /\ \A b \in staged' : round'[b] = 2
  BY <1>n DEF RecoveryTypes
<1>4. \A b \in staged' : publishing'[b] \notin {"unused", "stage", "failed", "succeeded"}
  BY <1>1, <1>3 DEF RecoveryTypes
<1> QED
  BY <1>1, <1>2, <1>3, <1>4 DEF RecoveryTypes

\* What a running attempt may rely on when it is alone.
LEMMA AloneNames ==
  ASSUME RecoveryTypes, RecoveryAlone, NEW a \in RunningNow
  PROVE  /\ RecoveryNames(a) /\ PartialIsStaged
         /\ database = None \/ marker = None =>
              \A b \in Recovery!Attempt : publishing[b] # "succeeded"
BY RecoveryConstantsHold DEF RecoveryAlone, RunningNow, Recovery!ReportedIsComplete

\* The steps before the links: what an earlier attempt left is found and removed, and a
\* new snapshot is staged.
LEMMA InspectingKept ==
  ASSUME RecoveryInv, NEW a \in Recovery!Attempt,
         \/ Recovery!Inspect(a) \/ Recovery!RemovePartial(a) \/ Recovery!RemoveStaging(a)
         \/ Recovery!EnsureFresh(a) \/ Recovery!Stage(a)
  PROVE  RecoveryInv'
<1>t. RecoveryTypes
  BY DEF RecoveryInv
<1>k. /\ database \in Recovery!File /\ marker \in Recovery!File /\ None \in Recovery!File
      /\ staged \subseteq Recovery!Attempt /\ round[a] \in {1, 2}
      /\ found \in [Recovery!Attempt -> Recovery!Attempt \cup {None}]
      /\ None \notin Recovery!Attempt /\ None # Foreign
      /\ a \in staged => round[a] = 2 /\ publishing[a] # "stage"
  BY <1>t, RecoveryConstantsHold DEF RecoveryTypes, Recovery!File
<1>r. a \in RunningNow
  BY DEF RunningNow, Recovery!Running, Recovery!Inspect, Recovery!RemovePartial,
     Recovery!RemoveStaging, Recovery!EnsureFresh, Recovery!Stage
<1>s. {"removeDatabase", "removeMarker", "unstage", "fresh", "stage", "linkDatabase",
       "inspect", "failed", "failing"} \subseteq RecoverySteps
  BY DEF RecoverySteps, Recovery!Running
<1>to. ASSUME NEW x \in RecoverySteps, Recovery!To(a, x)
       PROVE  /\ publishing'[a] = x
              /\ \A b \in Recovery!Attempt \ {a} : publishing'[b] = publishing[b]
  BY <1>t, <1>to, RecoveryTo
<1>u. ASSUME AtOnce = 1 PROVE RecoveryAlone
  BY <1>u DEF RecoveryInv
<1>stop. ASSUME Recovery!Stop(a)
         PROVE  \E x \in {"failed", "failing"} :
                  Recovery!To(a, x) /\ (x = "failed" => round[a] = 1)
  BY <1>k, <1>stop DEF Recovery!Stop
<1>1. CASE Recovery!Inspect(a)
  <2>1. /\ publishing[a] = "inspect" /\ UNCHANGED <<database, marker, staged, round>>
    BY <1>1 DEF Recovery!Inspect, Recovery!nameVars
  <2>2. PICK x \in {"removeDatabase", "removeMarker", "fresh"} :
          /\ Recovery!To(a, x) /\ x \in RecoverySteps
          /\ x = "removeDatabase" => marker = None /\ database \in staged
          /\ x = "removeMarker" => database = None /\ marker \in staged
          /\ found' \in [Recovery!Attempt -> Recovery!Attempt \cup {None}]
    BY <1>1, <1>k, <1>s DEF Recovery!Inspect
  <2>3. RecoveryTypes'
    BY <1>k, <1>r, <1>t, <2>1, <2>2, AdvanceTypes
  <2>4. ASSUME AtOnce = 1 PROVE RecoveryAlone'
    <3>1. RecoveryAlone
      BY <1>u, <2>4
    <3>2. /\ RecoveryNames(a) /\ PartialIsStaged
          /\ database = None \/ marker = None =>
               \A b \in Recovery!Attempt : publishing[b] # "succeeded"
      BY <1>r, <1>t, <3>1, AloneNames
    <3>3. publishing'[a] = x /\ \A b \in Recovery!Attempt \ {a} : publishing'[b] = publishing[b]
      BY <1>to, <2>2
    <3>4. RecoveryNames(a)'
      BY <1>k, <2>1, <2>2, <3>2, <3>3 DEF RecoveryNames, Publishing
    <3>5. PartialIsStaged'
      BY <2>1, <3>2 DEF PartialIsStaged
    <3> QED
      BY <1>r, <1>t, <2>1, <2>2, <3>1, <3>4, <3>5, AloneKept
  <2> QED
    BY <2>3, <2>4 DEF RecoveryInv
<1>2. CASE Recovery!RemovePartial(a)
  <2>1. /\ UNCHANGED <<staged, round, found>>
        /\ publishing[a] \in {"removeDatabase", "removeMarker"}
        /\ \/ publishing[a] = "removeDatabase" /\ database' = None /\ marker' = marker
           \/ publishing[a] = "removeMarker" /\ marker' = None /\ database' = database
    BY <1>2 DEF Recovery!RemovePartial
  <2>2. PICK x \in {"unstage", "failed", "failing"} :
          /\ Recovery!To(a, x) /\ x \in RecoverySteps /\ (x = "failed" => round[a] = 1)
          /\ x # "unstage" => \/ publishing[a] = "removeDatabase" /\ database = None
                              \/ publishing[a] = "removeMarker" /\ marker = None
    BY <1>2, <1>s, <1>stop DEF Recovery!RemovePartial
  <2>3. RecoveryTypes'
    BY <1>k, <1>r, <1>t, <2>1, <2>2, AdvanceTypes
  <2>4. ASSUME AtOnce = 1 PROVE RecoveryAlone'
    <3>1. RecoveryAlone
      BY <1>u, <2>4
    <3>2. /\ RecoveryNames(a) /\ PartialIsStaged
          /\ database = None \/ marker = None =>
               \A b \in Recovery!Attempt : publishing[b] # "succeeded"
      BY <1>r, <1>t, <3>1, AloneNames
    <3>3. publishing'[a] = x /\ \A b \in Recovery!Attempt \ {a} : publishing'[b] = publishing[b]
      BY <1>to, <2>2
    <3>4. x = "unstage" /\ database' = None /\ marker' = None
      BY <2>1, <2>2, <3>2 DEF RecoveryNames
    <3>5. publishing[a] \in Publishing
      BY <2>1 DEF Publishing
    <3>6. RecoveryNames(a)'
      BY <2>1, <3>2, <3>3, <3>4 DEF RecoveryNames, Publishing
    <3>7. PartialIsStaged'
      BY <3>4 DEF PartialIsStaged
    <3> QED
      BY <1>r, <1>t, <2>2, <3>1, <3>4, <3>5, <3>6, <3>7, AloneKept
  <2> QED
    BY <2>3, <2>4 DEF RecoveryInv
<1>3. CASE Recovery!RemoveStaging(a)
  <2>1. /\ publishing[a] = "unstage" /\ Recovery!To(a, "fresh") /\ staged' = staged \ {found[a]}
        /\ UNCHANGED <<database, marker, round, found>>
    BY <1>3 DEF Recovery!RemoveStaging, Recovery!nameVars
  <2>2. RecoveryTypes'
    BY <1>k, <1>r, <1>s, <1>t, <2>1, AdvanceTypes
  <2>3. ASSUME AtOnce = 1 PROVE RecoveryAlone'
    <3>1. RecoveryAlone
      BY <1>u, <2>3
    <3>2. database = None /\ marker = None
      BY <1>r, <1>t, <2>1, <3>1, AloneNames DEF RecoveryNames
    <3>3. publishing'[a] = "fresh"
      BY <1>s, <1>to, <2>1
    <3>4. RecoveryNames(a)'
      BY <1>k, <2>1, <3>2, <3>3 DEF RecoveryNames, Publishing
    <3>5. PartialIsStaged'
      BY <2>1, <3>2 DEF PartialIsStaged
    <3> QED
      BY <1>r, <1>s, <1>t, <2>1, <3>1, <3>4, <3>5, AloneKept
  <2> QED
    BY <2>2, <2>3 DEF RecoveryInv
<1>4. CASE Recovery!EnsureFresh(a)
  <2>1. publishing[a] = "fresh" /\ UNCHANGED <<database, marker, staged, round, found>>
    BY <1>4 DEF Recovery!EnsureFresh, Recovery!nameVars
  <2>2. PICK x \in {"stage", "linkDatabase", "failed", "failing"} :
          /\ Recovery!To(a, x) /\ x \in RecoverySteps
          /\ x \in {"failed", "stage"} => round[a] = 1
          /\ x \in {"stage", "linkDatabase"} => database = None /\ marker = None
    BY <1>4, <1>k, <1>s, <1>stop DEF Recovery!EnsureFresh
  <2>3. RecoveryTypes'
    BY <1>k, <1>r, <1>t, <2>1, <2>2, AdvanceTypes
  <2>4. ASSUME AtOnce = 1 PROVE RecoveryAlone'
    <3>1. RecoveryAlone
      BY <1>u, <2>4
    <3>2. /\ RecoveryNames(a) /\ PartialIsStaged
          /\ database = None \/ marker = None =>
               \A b \in Recovery!Attempt : publishing[b] # "succeeded"
      BY <1>r, <1>t, <3>1, AloneNames
    <3>3. publishing'[a] = x /\ \A b \in Recovery!Attempt \ {a} : publishing'[b] = publishing[b]
      BY <1>to, <2>2
    <3>4. RecoveryNames(a)'
      BY <1>k, <2>1, <2>2, <3>2, <3>3 DEF RecoveryNames, Publishing
    <3>5. PartialIsStaged'
      BY <2>1, <3>2 DEF PartialIsStaged
    <3> QED
      BY <1>r, <1>t, <2>1, <2>2, <3>1, <3>4, <3>5, AloneKept
  <2> QED
    BY <2>3, <2>4 DEF RecoveryInv
<1>5. CASE Recovery!Stage(a)
  <2>1. publishing[a] = "stage" /\ UNCHANGED <<database, marker, found>> /\ a \notin staged
    BY <1>5, <1>k DEF Recovery!Stage, Recovery!nameVars
  <2>2. PICK x \in {"inspect", "failed", "failing"} :
          /\ Recovery!To(a, x) /\ x \in RecoverySteps
          /\ \/ staged' = staged /\ round' = round
             \/ /\ x = "inspect" /\ staged' = staged \cup {a}
                /\ round' = [round EXCEPT ![a] = 2]
    BY <1>5, <1>s, <1>stop DEF Recovery!Stage
  <2>3. RecoveryTypes'
    BY <1>k, <1>r, <1>t, <2>1, <2>2, AdvanceTypes
  <2>4. ASSUME AtOnce = 1 PROVE RecoveryAlone'
    <3>1. RecoveryAlone
      BY <1>u, <2>4
    <3>2. database = None /\ marker = None
      BY <1>r, <1>t, <2>1, <3>1, AloneNames DEF RecoveryNames
    <3>3. publishing'[a] = x
      BY <1>to, <2>2
    <3>4. RecoveryNames(a)'
      BY <1>k, <2>1, <3>2, <3>3 DEF RecoveryNames, Publishing
    <3>5. PartialIsStaged'
      BY <2>1, <3>2 DEF PartialIsStaged
    <3> QED
      BY <1>r, <1>t, <2>1, <2>2, <3>1, <3>4, <3>5, AloneKept
  <2> QED
    BY <2>3, <2>4 DEF RecoveryInv
<1> QED
  BY <1>1, <1>2, <1>3, <1>4, <1>5

\* The links and their undoing, the end of an attempt, and a crash.
LEMMA PublishingKept ==
  ASSUME RecoveryInv, NEW a \in Recovery!Attempt,
         \/ Recovery!LinkDatabase(a) \/ Recovery!LinkMarker(a) \/ Recovery!SyncDirectory(a)
         \/ Recovery!Undo(a) \/ Recovery!Finish(a) \/ Recovery!Crash(a)
  PROVE  RecoveryInv'
<1>t. RecoveryTypes
  BY DEF RecoveryInv
<1>k. /\ database \in Recovery!File /\ marker \in Recovery!File /\ None \in Recovery!File
      /\ a \in Recovery!File
      /\ staged \subseteq Recovery!Attempt /\ round[a] \in {1, 2}
      /\ found \in [Recovery!Attempt -> Recovery!Attempt \cup {None}]
      /\ None \notin Recovery!Attempt /\ None # Foreign
      /\ a \in staged => round[a] = 2
      /\ publishing[a] \in RecoverySteps
  BY <1>t, RecoveryConstantsHold DEF RecoveryTypes, Recovery!File
<1>r. a \in RunningNow
  BY DEF RunningNow, Recovery!Running, Recovery!LinkDatabase, Recovery!LinkMarker,
     Recovery!SyncDirectory, Recovery!Undo, Recovery!Finish, Recovery!Crash
<1>s. {"linkMarker", "sync", "undoDatabase", "undoMarker", "succeeding", "failed",
       "failing", "succeeded", "crashed"} \subseteq RecoverySteps
  BY DEF RecoverySteps, Recovery!Running
<1>to. ASSUME NEW x \in RecoverySteps, Recovery!To(a, x)
       PROVE  /\ publishing'[a] = x
              /\ \A b \in Recovery!Attempt \ {a} : publishing'[b] = publishing[b]
  BY <1>t, <1>to, RecoveryTo
<1>u. ASSUME AtOnce = 1
      PROVE  /\ RecoveryAlone /\ RecoveryNames(a) /\ PartialIsStaged
             /\ publishing[a] \in Publishing =>
                  \A b \in Recovery!Attempt : publishing[b] # "succeeded"
  BY <1>r, <1>t, <1>u, AloneNames DEF RecoveryInv, RecoveryNames
<1>stop. ASSUME Recovery!Stop(a)
         PROVE  \E x \in {"failed", "failing"} :
                  Recovery!To(a, x) /\ (x = "failed" => round[a] = 1)
  BY <1>k, <1>stop DEF Recovery!Stop
<1>1. CASE Recovery!LinkDatabase(a)
  <2>1. publishing[a] = "linkDatabase" /\ UNCHANGED <<marker, staged, round, found>>
    BY <1>1 DEF Recovery!LinkDatabase
  <2>2. PICK x \in {"linkMarker", "failed", "failing"} :
          /\ Recovery!To(a, x) /\ x \in RecoverySteps /\ (x = "failed" => round[a] = 1)
          /\ IF x = "linkMarker" THEN database' = a /\ a \in staged ELSE database' = database
    BY <1>1, <1>s, <1>stop DEF Recovery!LinkDatabase
  <2>3. RecoveryTypes'
    BY <1>k, <1>r, <1>t, <2>1, <2>2, AdvanceTypes
  <2>4. ASSUME AtOnce = 1 PROVE RecoveryAlone'
    <3>1. publishing'[a] = x /\ \A b \in Recovery!Attempt \ {a} : publishing'[b] = publishing[b]
      BY <1>to, <2>2
    <3>2. database = None /\ marker = None /\ publishing[a] \in Publishing
      BY <1>u, <2>1, <2>4 DEF RecoveryNames, Publishing
    <3>3. RecoveryNames(a)'
      BY <1>k, <1>u, <2>1, <2>2, <2>4, <3>1, <3>2 DEF RecoveryNames, Publishing
    <3>4. PartialIsStaged'
      BY <1>k, <2>1, <2>2, <3>2 DEF PartialIsStaged
    <3> QED
      BY <1>k, <1>r, <1>t, <1>u, <2>1, <2>2, <2>4, <3>2, <3>3, <3>4, AloneKept
  <2> QED
    BY <2>3, <2>4 DEF RecoveryInv
<1>2. CASE Recovery!LinkMarker(a)
  <2>1. publishing[a] = "linkMarker" /\ UNCHANGED <<database, staged, round, found>>
    BY <1>2 DEF Recovery!LinkMarker
  <2>2. PICK x \in {"sync", "undoDatabase"} :
          /\ Recovery!To(a, x) /\ x \in RecoverySteps
          /\ IF x = "sync" THEN marker' = a ELSE marker' = marker
    BY <1>2, <1>s DEF Recovery!LinkMarker
  <2>3. RecoveryTypes'
    BY <1>k, <1>r, <1>t, <2>1, <2>2, AdvanceTypes
  <2>4. ASSUME AtOnce = 1 PROVE RecoveryAlone'
    <3>1. publishing'[a] = x /\ \A b \in Recovery!Attempt \ {a} : publishing'[b] = publishing[b]
      BY <1>to, <2>2
    <3>2. database = a /\ marker = None /\ a \in staged /\ publishing[a] \in Publishing
      BY <1>u, <2>1, <2>4 DEF RecoveryNames, Publishing
    <3>3. RecoveryNames(a)'
      BY <1>k, <1>u, <2>1, <2>2, <2>4, <3>1, <3>2 DEF RecoveryNames, Publishing
    <3>4. PartialIsStaged'
      BY <1>k, <2>1, <2>2, <3>2 DEF PartialIsStaged
    <3> QED
      BY <1>k, <1>r, <1>t, <1>u, <2>1, <2>2, <2>4, <3>2, <3>3, <3>4, AloneKept
  <2> QED
    BY <2>3, <2>4 DEF RecoveryInv
<1>3. CASE Recovery!SyncDirectory(a)
  <2>1. publishing[a] = "sync" /\ UNCHANGED <<database, marker, staged, round, found>>
    BY <1>3 DEF Recovery!SyncDirectory, Recovery!nameVars
  <2>2. PICK x \in {"succeeding", "undoMarker"} : Recovery!To(a, x) /\ x \in RecoverySteps
    BY <1>3, <1>s DEF Recovery!SyncDirectory
  <2>3. RecoveryTypes'
    BY <1>k, <1>r, <1>t, <2>1, <2>2, AdvanceTypes
  <2>4. ASSUME AtOnce = 1 PROVE RecoveryAlone'
    <3>1. publishing'[a] = x /\ \A b \in Recovery!Attempt \ {a} : publishing'[b] = publishing[b]
      BY <1>to, <2>2
    <3>2. database = a /\ marker = a /\ a \in staged /\ publishing[a] \in Publishing
      BY <1>u, <2>1, <2>4 DEF RecoveryNames, Publishing
    <3>3. RecoveryNames(a)'
      BY <1>k, <1>u, <2>1, <2>2, <2>4, <3>1, <3>2 DEF RecoveryNames, Publishing
    <3>4. PartialIsStaged'
      BY <2>1, <3>2 DEF PartialIsStaged
    <3> QED
      BY <1>k, <1>r, <1>t, <1>u, <2>1, <2>2, <2>4, <3>2, <3>3, <3>4, AloneKept
  <2> QED
    BY <2>3, <2>4 DEF RecoveryInv
<1>4. CASE Recovery!Undo(a)
  <2>1. UNCHANGED <<staged, round, found>> /\ publishing[a] \in {"undoMarker", "undoDatabase"}
    BY <1>4 DEF Recovery!Undo
  <2>2. PICK x \in {"undoDatabase", "failed", "failing"} :
          /\ Recovery!To(a, x) /\ x \in RecoverySteps /\ (x = "failed" => round[a] = 1)
          /\ \/ /\ publishing[a] = "undoMarker" /\ x = "undoDatabase"
                /\ marker' = None /\ database' = database
             \/ /\ publishing[a] = "undoDatabase" /\ x # "undoDatabase"
                /\ database' = None /\ marker' = marker
    BY <1>4, <1>s, <1>stop DEF Recovery!Undo
  <2>3. RecoveryTypes'
    BY <1>k, <1>r, <1>t, <2>1, <2>2, AdvanceTypes
  <2>4. ASSUME AtOnce = 1 PROVE RecoveryAlone'
    <3>1. publishing'[a] = x /\ \A b \in Recovery!Attempt \ {a} : publishing'[b] = publishing[b]
      BY <1>to, <2>2
    <3>2. /\ database = a /\ a \in staged /\ publishing[a] \in Publishing
          /\ publishing[a] = "undoDatabase" => marker = None
      BY <1>u, <2>1, <2>4 DEF RecoveryNames, Publishing
    <3>3. RecoveryNames(a)'
      BY <1>k, <1>u, <2>1, <2>2, <2>4, <3>1, <3>2 DEF RecoveryNames, Publishing
    <3>4. PartialIsStaged'
      BY <1>k, <2>1, <2>2, <3>2 DEF PartialIsStaged
    <3> QED
      BY <1>k, <1>r, <1>t, <1>u, <2>1, <2>2, <2>4, <3>2, <3>3, <3>4, AloneKept
  <2> QED
    BY <2>3, <2>4 DEF RecoveryInv
<1>5. CASE Recovery!Finish(a)
  <2>1. /\ publishing[a] \in {"failing", "succeeding"} /\ staged' = staged \ {a}
        /\ UNCHANGED <<database, marker, round, found>>
    BY <1>5 DEF Recovery!Finish, Recovery!nameVars
  <2>2. PICK x \in {"failed", "succeeded"} :
          /\ Recovery!To(a, x) /\ x \in RecoverySteps
          /\ x = "failed" <=> publishing[a] = "failing"
    BY <1>5, <1>s DEF Recovery!Finish
  <2>3. RecoveryTypes'
    BY <1>k, <1>r, <1>t, <2>1, <2>2, AdvanceTypes
  <2>4. ASSUME AtOnce = 1 PROVE RecoveryAlone'
    <3>1. publishing'[a] = x /\ \A b \in Recovery!Attempt \ {a} : publishing'[b] = publishing[b]
      BY <1>to, <2>2
    <3>2. IF publishing[a] = "failing" THEN a \notin {database, marker}
          ELSE database = a /\ marker = a
      BY <1>u, <2>1, <2>4 DEF RecoveryNames
    <3>3. RecoveryNames(a)'
      BY <1>k, <2>1, <2>2, <3>1, <3>2 DEF RecoveryNames, Publishing
    <3>4. PartialIsStaged'
      BY <1>u, <2>1, <2>4, <3>2 DEF PartialIsStaged
    <3>5. x = "succeeded" => database' = a /\ marker' = a
      BY <2>1, <2>2, <3>2
    <3> QED
      BY <1>k, <1>r, <1>t, <1>u, <2>1, <2>2, <2>4, <3>3, <3>4, <3>5, AloneKept
  <2> QED
    BY <2>3, <2>4 DEF RecoveryInv
<1>6. CASE Recovery!Crash(a)
  <2>1. UNCHANGED <<database, marker, staged, round, found>> /\ Recovery!To(a, "crashed")
    BY <1>6 DEF Recovery!Crash, Recovery!nameVars
  <2>2. RecoveryTypes'
    BY <1>k, <1>r, <1>s, <1>t, <2>1, AdvanceTypes
  <2>3. ASSUME AtOnce = 1 PROVE RecoveryAlone'
    <3>1. publishing'[a] = "crashed"
      BY <1>s, <1>to, <2>1
    <3>2. RecoveryNames(a)'
      BY <3>1 DEF RecoveryNames, Publishing
    <3>3. PartialIsStaged'
      BY <1>u, <2>1, <2>3 DEF PartialIsStaged
    <3> QED
      BY <1>k, <1>r, <1>s, <1>t, <1>u, <2>1, <2>3, <3>2, <3>3, AloneKept
  <2> QED
    BY <2>2, <2>3 DEF RecoveryInv
<1> QED
  BY <1>1, <1>2, <1>3, <1>4, <1>5, <1>6

LEMMA RecoveryKept == RecoveryInv /\ [Next]_vars => RecoveryInv'
<1> SUFFICES ASSUME RecoveryInv, [Next]_vars PROVE RecoveryInv'
  OBVIOUS
<1>1. CASE UNCHANGED recoveryVars
  BY <1>1 DEF recoveryVars, RecoveryInv, RecoveryTypes, RunningNow, RecoveryAlone, PartialIsStaged,
     Recovery!ReportedIsComplete, RecoveryNames
<1>2. CASE Recovery!Next
  BY <1>2, StartKept, InspectingKept, PublishingKept DEF Recovery!Next, Recovery!Advance
<1> QED
  BY <1>1, <1>2, RecoveryStep

\* A reported backup is complete for as long as the destination lives, and what an
\* interrupted one left half published is still staged, so that the next one finds it
\* (publishSnapshot, recoverInterruptedRecoveryPublication), for any number of attempts
\* run one at a time.
THEOREM PublicationAlwaysSafe == ASSUME AtOnce = 1 PROVE Spec => []PublicationSafe
<1>1. RecoveryInv => PublicationSafe
  BY DEF RecoveryInv, RecoveryAlone, PartialIsStaged, PublicationSafe, Recovery!PublicationSafe,
     Recovery!PartialIsRecoverable
<1> QED
  BY RecoveryInit, RecoveryKept, <1>1, PTL DEF Spec

-----------------------------------------------------------------------------
(* RepositoryLocks implements RepositoryLock.                              *)

\* A step of the whole is a step of the locks or leaves them alone.
LEMMA LocksStep == [Next]_vars => [Locks!Next]_locksVars
BY DEF Next, vars, Schedules, Publication, Enrollment, Admissions, Locking, Caching,
       Forwarding, Dispatching, locksVars

LocksTypes ==
  /\ table \in [Keys -> Entries \cup {None}]
  /\ token \in [Entries -> BOOLEAN] /\ refs \in [Entries -> Nat]
  /\ poisoned \subseteq Entries
  /\ locking \in [Procs -> Locks!Steps] /\ wants \in [Procs -> Keys \cup {None}]
  /\ entry \in [Procs -> Entries \cup {None}]

\* A goroutine inside acquire or release keeps its entry in the map under its key: the
\* references of an entry count exactly the goroutines that refer to it.
EntriesStay ==
  /\ \A p \in Procs : locking[p] # "idle" =>
       wants[p] \in Keys /\ entry[p] \in Entries /\ table[wants[p]] = entry[p]
  /\ \A k, l \in Keys : table[k] = table[l] /\ table[k] # None => k = l
  /\ \A e \in Entries : refs[e] = Cardinality(Locks!Refers(e))
  /\ \A e \in poisoned : \E k \in Keys : table[k] = e

\* Who has an entry's token.
Inside == {p \in Procs : locking[p] \in {"took", "holding"}}
OneToken ==
  \A p \in Inside : /\ ~token[entry[p]]
                    /\ \A q \in Inside : entry[q] = entry[p] => q = p

LocksInv == LocksTypes /\ EntriesStay /\ OneToken

LEMMA LocksConstantsHold == IsFiniteSet(Procs) /\ None \notin Entries /\ None \notin Keys
BY Constants DEF Locks!LockConstants, Locks!IsFiniteSet, IsFiniteSet

LEMMA LocksCardinality ==
  \A e \in Entries : /\ IsFiniteSet(Locks!Refers(e))
                     /\ Cardinality(Locks!Refers(e)) \in Nat
<1> SUFFICES ASSUME NEW e \in Entries
             PROVE  IsFiniteSet(Locks!Refers(e)) /\ Cardinality(Locks!Refers(e)) \in Nat
  OBVIOUS
<1>1. Locks!Refers(e) \subseteq Procs
  BY DEF Locks!Refers
<1> QED
  BY <1>1, LocksConstantsHold, FS_Subset, FS_CardinalityType

LEMMA LocksInit == Init => LocksInv /\ Locks!Abstract!Init
<1> SUFFICES ASSUME Init PROVE LocksInv /\ Locks!Abstract!Init
  OBVIOUS
<1>1. Locks!Init
  BY DEF Init
<1>2. \A e \in Entries : Locks!Refers(e) = {}
  BY <1>1 DEF Locks!Init, Locks!Refers
<1>3. LocksTypes /\ OneToken
  BY <1>1 DEF Locks!Init, LocksTypes, OneToken, Inside, Locks!Steps
<1>4. EntriesStay
  BY <1>1, <1>2, LocksConstantsHold, FS_EmptySet DEF Locks!Init, EntriesStay
<1>5. Locks!Abstract!Init
  BY <1>1, LocksConstantsHold DEF Locks!Init, Locks!Abstract!Init
<1> QED
  BY <1>3, <1>4, <1>5 DEF LocksInv

\* Only the goroutine p moves, to the step x.
LocksMove(p, x) == locking' = [locking EXCEPT ![p] = x]
\* What the abstract lock is about: who holds a key, and which keys are broken.
HoldersOf(k) == {p \in Procs : locking[p] = "holding" /\ wants[p] = k}
Broken == {k \in Keys : table[k] \in poisoned}

\* A goroutine that is inside acquire or release moves on within it.
LEMMA LocksWithin ==
  ASSUME LocksInv, NEW p \in Procs, locking[p] # "idle",
         NEW x \in Locks!Steps \ {"idle"}, LocksMove(p, x),
         UNCHANGED <<table, refs, wants, entry>>,
         poisoned' = poisoned \/ poisoned' = poisoned \cup {entry[p]},
         token' \in [Entries -> BOOLEAN],
         \* the token is taken by whoever comes to have it, and given by whoever had it
         \/ x \in {"took", "holding"} /\ p \in Inside /\ token' = token
         \/ x \in {"took", "holding"} /\ token[entry[p]] /\ token' = [token EXCEPT ![entry[p]] = FALSE]
         \/ x \notin {"took", "holding"} /\ p \in Inside /\ token' = [token EXCEPT ![entry[p]] = TRUE]
         \/ x \notin {"took", "holding"} /\ p \notin Inside /\ token' = token
  PROVE  LocksInv'
<1>1. /\ locking' \in [Procs -> Locks!Steps]
      /\ \A q \in Procs : locking'[q] = IF q = p THEN x ELSE locking[q]
  BY DEF LocksInv, LocksTypes, LocksMove
<1>2. entry[p] \in Entries /\ wants[p] \in Keys /\ table[wants[p]] = entry[p]
  BY DEF LocksInv, EntriesStay
<1>3. LocksTypes'
  BY <1>1, <1>2 DEF LocksInv, LocksTypes
<1>4. \A e \in Entries : Locks!Refers(e)' = Locks!Refers(e)
  BY <1>1 DEF Locks!Refers
<1>5. EntriesStay'
  BY <1>1, <1>2, <1>4 DEF LocksInv, EntriesStay
<1>6. Inside' = IF x \in {"took", "holding"} THEN Inside \cup {p} ELSE Inside \ {p}
  BY <1>1 DEF Inside
<1>7. \A q \in Inside : entry[q] \in Entries /\ token[entry[q]] \in BOOLEAN
  BY DEF Inside, LocksInv, LocksTypes, EntriesStay
<1>8. OneToken'
  BY <1>2, <1>6, <1>7 DEF LocksInv, LocksTypes, OneToken
<1> QED
  BY <1>3, <1>5, <1>8 DEF LocksInv

\* A goroutine that holds no token drops its reference.
LEMMA LocksDropped ==
  ASSUME LocksInv, NEW p \in Procs, locking[p] \in {"asked", "waiting", "leaving"},
         Locks!RemoveReference(p), UNCHANGED <<token, poisoned, wants, entry>>
  PROVE  /\ LocksInv' /\ Broken' = Broken
         /\ \A k \in Keys : HoldersOf(k)' = HoldersOf(k)
<1> DEFINE e == entry[p]  k == wants[p]
<1>1. /\ e \in Entries /\ k \in Keys /\ table[k] = e
      /\ table \in [Keys -> Entries \cup {None}] /\ refs \in [Entries -> Nat]
      /\ locking \in [Procs -> Locks!Steps]
  BY DEF LocksInv, LocksTypes, EntriesStay
<1>2. /\ refs' = [refs EXCEPT ![e] = @ - 1]
      /\ IF refs[e] = 1 /\ e \notin poisoned THEN table' = [table EXCEPT ![k] = None]
         ELSE table' = table
      /\ LocksMove(p, "idle")
  BY <1>1 DEF Locks!RemoveReference, LocksMove
<1>3. /\ locking' \in [Procs -> Locks!Steps]
      /\ \A q \in Procs : locking'[q] = IF q = p THEN "idle" ELSE locking[q]
  BY <1>1, <1>2 DEF LocksMove, Locks!Steps
<1>4. /\ Locks!Refers(e)' = Locks!Refers(e) \ {p} /\ p \in Locks!Refers(e)
      /\ \A d \in Entries \ {e} : Locks!Refers(d)' = Locks!Refers(d)
  BY <1>3 DEF Locks!Refers
<1>5. /\ Cardinality(Locks!Refers(e)') = Cardinality(Locks!Refers(e)) - 1
      /\ Cardinality(Locks!Refers(e)) = refs[e] /\ refs[e] \in Nat \ {0}
  <2>1. Cardinality(Locks!Refers(e)) = refs[e] /\ refs[e] \in Nat
    BY <1>1 DEF LocksInv, EntriesStay
  <2>2. IsFiniteSet(Locks!Refers(e))
    BY <1>1, LocksCardinality
  <2>3. Locks!Refers(e) # {}
    BY <1>4
  <2>4. Cardinality(Locks!Refers(e)) # 0
    BY <2>2, <2>3, FS_EmptySet
  <2>5. Cardinality(Locks!Refers(e) \ {p}) = Cardinality(Locks!Refers(e)) - 1
    BY <1>4, <2>2, Shrunk
  <2> QED
    BY <1>4, <2>1, <2>4, <2>5
<1>6. \A d \in Entries : refs'[d] \in Nat /\ refs'[d] = Cardinality(Locks!Refers(d)')
  <2>1. \A d \in Entries : refs'[d] = IF d = e THEN refs[e] - 1 ELSE refs[d]
    BY <1>1, <1>2
  <2>2. \A d \in Entries \ {e} : Cardinality(Locks!Refers(d)') = refs[d]
    BY <1>4 DEF LocksInv, EntriesStay
  <2>3. \A d \in Entries : refs[d] \in Nat
    BY <1>1
  <2> QED
    BY <1>5, <2>1, <2>2, <2>3
<1>7. LocksTypes'
  <2>1. refs' \in [Entries -> Nat]
    BY <1>1, <1>2, <1>6
  <2> QED
    BY <1>1, <1>2, <1>3, <2>1 DEF LocksInv, LocksTypes
<1>8. \A l \in Keys : table'[l] = table[l] \/ (l = k /\ table'[l] = None)
  BY <1>1, <1>2
<1>9. \A q \in Procs \ {p} : locking[q] # "idle" => table'[wants[q]] = table[wants[q]]
  <2> SUFFICES ASSUME NEW q \in Procs \ {p}, locking[q] # "idle",
                      table'[wants[q]] # table[wants[q]]
               PROVE  FALSE
    OBVIOUS
  <2>1. wants[q] \in Keys /\ entry[q] = table[wants[q]]
    BY DEF LocksInv, EntriesStay
  <2>2. wants[q] = k /\ refs[e] = 1
    BY <1>1, <1>2, <2>1
  <2>3. q \in Locks!Refers(e) \ {p}
    BY <1>1, <2>1, <2>2 DEF Locks!Refers
  <2>4. IsFiniteSet(Locks!Refers(e)') /\ Cardinality(Locks!Refers(e)') = 0
    <3>1. IsFiniteSet(Locks!Refers(e) \ {p})
      BY <1>1, LocksCardinality, FS_Subset
    <3> QED
      BY <1>4, <1>5, <2>2, <3>1
  <2>5. Locks!Refers(e)' = {}
    BY <2>4, FS_EmptySet
  <2> QED
    BY <1>4, <2>3, <2>5
<1>10. EntriesStay'
  <2>1. \A q \in Procs : locking'[q] # "idle" =>
          wants'[q] \in Keys /\ entry'[q] \in Entries /\ table'[wants'[q]] = entry'[q]
    BY <1>3, <1>9 DEF LocksInv, EntriesStay
  <2>2. \A l, m \in Keys : table'[l] = table'[m] /\ table'[l] # None => l = m
    BY <1>8 DEF LocksInv, EntriesStay
  <2>3. \A d \in poisoned : \E l \in Keys : table'[l] = d
    BY <1>1, <1>2 DEF LocksInv, EntriesStay
  <2> QED
    BY <1>6, <2>1, <2>2, <2>3 DEF EntriesStay
<1>11. Inside' = Inside
  BY <1>3 DEF Inside
<1>12. OneToken'
  BY <1>11 DEF LocksInv, OneToken
<1>13. \A l \in Keys : HoldersOf(l)' = HoldersOf(l)
  BY <1>3 DEF HoldersOf
<1>14. Broken' = Broken
  <2>1. None \notin poisoned
    BY LocksConstantsHold DEF LocksInv, LocksTypes
  <2> QED
    BY <1>1, <1>2, <2>1 DEF Broken
<1> QED
  BY <1>7, <1>10, <1>12, <1>13, <1>14 DEF LocksInv

\* A goroutine asks for a repository: its entry is the map's, or a new one.
LEMMA LocksAcquired ==
  ASSUME LocksInv, NEW p \in Procs, NEW k \in Keys, Locks!Acquire(p, k)
  PROVE  /\ LocksInv' /\ Broken' = Broken
         /\ \A l \in Keys : HoldersOf(l)' = HoldersOf(l)
<1>1. /\ locking[p] = "idle" /\ LocksMove(p, "asked") /\ wants' = [wants EXCEPT ![p] = k]
      /\ UNCHANGED <<poisoned, waiters>>
  BY DEF Locks!Acquire, LocksMove
<1>2. PICK e \in Entries :
        /\ \/ /\ table[k] = e /\ refs' = [refs EXCEPT ![e] = @ + 1]
              /\ UNCHANGED <<table, token>>
           \/ /\ table[k] = None /\ e \notin Locks!InTable /\ Locks!Refers(e) = {}
              /\ table' = [table EXCEPT ![k] = e]
              /\ token' = [token EXCEPT ![e] = TRUE]
              /\ refs' = [refs EXCEPT ![e] = 1]
        /\ entry' = [entry EXCEPT ![p] = e]
  BY DEF Locks!Acquire
<1>3. /\ table \in [Keys -> Entries \cup {None}] /\ refs \in [Entries -> Nat]
      /\ token \in [Entries -> BOOLEAN] /\ locking \in [Procs -> Locks!Steps]
      /\ entry \in [Procs -> Entries \cup {None}] /\ wants \in [Procs -> Keys \cup {None}]
  BY DEF LocksInv, LocksTypes
<1>4. /\ locking' \in [Procs -> Locks!Steps]
      /\ \A q \in Procs : locking'[q] = IF q = p THEN "asked" ELSE locking[q]
  BY <1>1, <1>3 DEF LocksMove, Locks!Steps
<1>5. /\ \A q \in Procs : wants'[q] = IF q = p THEN k ELSE wants[q]
      /\ \A q \in Procs : entry'[q] = IF q = p THEN e ELSE entry[q]
  BY <1>1, <1>2, <1>3
<1>6. table' \in [Keys -> Entries \cup {None}] /\ table'[k] = e
  BY <1>2, <1>3
<1>7. \A l \in Keys \ {k} : table'[l] = table[l] /\ (table[l] = e => table[k] = e)
  BY <1>2, <1>3 DEF Locks!InTable
<1>8. \A q \in Procs : locking[q] # "idle" => table'[wants[q]] = table[wants[q]]
  BY <1>2, <1>3, <1>7, LocksConstantsHold DEF LocksInv, EntriesStay
<1>9. /\ Locks!Refers(e)' = Locks!Refers(e) \cup {p} /\ p \notin Locks!Refers(e)
      /\ \A d \in Entries \ {e} : Locks!Refers(d)' = Locks!Refers(d)
  BY <1>1, <1>4, <1>5 DEF Locks!Refers
<1>10. \A d \in Entries : refs'[d] \in Nat /\ refs'[d] = Cardinality(Locks!Refers(d)')
  <2>1. /\ \A d \in Entries : refs[d] \in Nat /\ refs[d] = Cardinality(Locks!Refers(d))
        /\ IsFiniteSet(Locks!Refers(e))
    BY <1>3, LocksCardinality DEF LocksInv, EntriesStay
  <2>2. Cardinality(Locks!Refers(e)') = refs[e] + 1
    BY <1>9, <2>1, Grown
  <2>3. refs'[e] = refs[e] + 1
    <3>1. Locks!Refers(e) = {} => refs[e] = 0
      BY <2>1, FS_EmptySet
    <3>2. refs'[e] = refs[e] + 1 \/ (Locks!Refers(e) = {} /\ refs'[e] = 1)
      BY <1>2, <1>3
    <3> QED
      BY <2>1, <3>1, <3>2
  <2>4. \A d \in Entries \ {e} : refs'[d] = refs[d]
    BY <1>2, <1>3
  <2>5. refs'[e] \in Nat /\ refs'[e] = Cardinality(Locks!Refers(e)')
    BY <2>1, <2>2, <2>3
  <2>6. \A d \in Entries \ {e} : Locks!Refers(d)' = Locks!Refers(d)
    BY <1>9
  <2>7. ASSUME NEW d \in Entries \ {e}
        PROVE  refs'[d] \in Nat /\ refs'[d] = Cardinality(Locks!Refers(d)')
    BY <2>1, <2>4, <2>6, <2>7
  <2> QED
    BY <2>5, <2>7
<1>11. LocksTypes'
  <2>1. refs' \in [Entries -> Nat]
    BY <1>2, <1>3, <1>10
  <2> QED
    BY <1>1, <1>2, <1>3, <1>4, <1>6, <2>1 DEF LocksInv, LocksTypes
<1>12. EntriesStay'
  <2>1. \A q \in Procs : locking'[q] # "idle" =>
          wants'[q] \in Keys /\ entry'[q] \in Entries /\ table'[wants'[q]] = entry'[q]
    BY <1>4, <1>5, <1>6, <1>8 DEF LocksInv, EntriesStay
  <2>2. \A l, m \in Keys : table'[l] = table'[m] /\ table'[l] # None => l = m
    BY <1>6, <1>7 DEF LocksInv, EntriesStay
  <2>3. \A d \in poisoned' : \E l \in Keys : table'[l] = d
    <3> SUFFICES ASSUME NEW d \in poisoned PROVE \E l \in Keys : table'[l] = d
      BY <1>1
    <3>1. PICK l \in Keys : table[l] = d
      BY DEF LocksInv, EntriesStay
    <3>2. d # None
      BY LocksConstantsHold DEF LocksInv, LocksTypes
    <3>3. CASE l = k
      BY <1>2, <3>1, <3>2, <3>3
    <3>4. CASE l # k
      BY <1>7, <3>1, <3>4
    <3> QED
      BY <3>3, <3>4
  <2> QED
    BY <1>10, <2>1, <2>2, <2>3 DEF EntriesStay
<1>13. Inside' = Inside /\ p \notin Inside
  BY <1>1, <1>4 DEF Inside
<1>14. \A q \in Inside : token'[entry[q]] = token[entry[q]]
  <2> SUFFICES ASSUME NEW q \in Inside PROVE token'[entry[q]] = token[entry[q]]
    OBVIOUS
  <2>1. entry[q] \in Entries /\ q \in Locks!Refers(entry[q])
    BY DEF Inside, LocksInv, EntriesStay, Locks!Refers
  <2> QED
    BY <1>2, <1>3, <2>1
<1>15. OneToken'
  BY <1>5, <1>13, <1>14 DEF LocksInv, OneToken, Inside
<1>16. \A l \in Keys : HoldersOf(l)' = HoldersOf(l)
  BY <1>1, <1>4, <1>5 DEF HoldersOf
<1>17. Broken' = Broken
  <2>1. None \notin poisoned
    BY LocksConstantsHold DEF LocksInv, LocksTypes
  <2>2. table[k] = None /\ e \notin Locks!InTable => e \notin poisoned
    BY DEF LocksInv, EntriesStay, Locks!InTable
  <2> QED
    BY <1>1, <1>2, <1>3, <1>7, <2>1, <2>2 DEF Broken
<1> QED
  BY <1>11, <1>12, <1>15, <1>16, <1>17 DEF LocksInv

\* Two steps that say nothing to the abstract lock, and the three that it knows.
LEMMA LocksWithinMaps ==
  ASSUME LocksInv, NEW p \in Procs, NEW x \in Locks!Steps, LocksMove(p, x),
         locking[p] # "holding", x # "holding",
         UNCHANGED <<table, poisoned, wants>>
  PROVE  (\A k \in Keys : HoldersOf(k)' = HoldersOf(k)) /\ Broken' = Broken
<1>1. \A q \in Procs : locking'[q] = IF q = p THEN x ELSE locking[q]
  BY DEF LocksInv, LocksTypes, LocksMove
<1>2. \A k \in Keys : HoldersOf(k)' = HoldersOf(k)
  BY <1>1 DEF HoldersOf
<1>3. Broken' = Broken
  BY DEF Broken
<1> QED
  BY <1>2, <1>3

\* Every step keeps the invariant and is a step of the abstract lock.
LEMMA LocksKept ==
  ASSUME LocksInv, [Locks!Next]_locksVars
  PROVE  LocksInv' /\ [Locks!Abstract!Next]_(Locks!Abstract!lockVars)
<1> DEFINE Stutters == (\A k \in Keys : HoldersOf(k)' = HoldersOf(k)) /\ Broken' = Broken
<1>st. ASSUME Stutters PROVE UNCHANGED Locks!Abstract!lockVars
  BY <1>st DEF Locks!Abstract!lockVars, HoldersOf, Broken
<1>1. CASE UNCHANGED locksVars
  BY <1>1 DEF locksVars, LocksInv, LocksTypes, EntriesStay, OneToken, Inside, Locks!Refers,
     Locks!Abstract!lockVars
<1>2. ASSUME NEW p \in Procs, NEW k \in Keys, Locks!Acquire(p, k) PROVE LocksInv' /\ Stutters
  BY <1>2, LocksAcquired
<1> DEFINE Own(p) == /\ locking[p] # "idle" => wants[p] \in Keys /\ entry[p] \in Entries
                     /\ locking[p] # "idle" => table[wants[p]] = entry[p]
                     /\ token \in [Entries -> BOOLEAN]
<1>o. \A p \in Procs : Own(p)
  BY DEF LocksInv, LocksTypes, EntriesStay
<1>x. {"waiting", "took", "holding", "leaving"} \subseteq Locks!Steps \ {"idle"}
  BY DEF Locks!Steps
<1>3. ASSUME NEW p \in Procs, Locks!Await(p) PROVE LocksInv' /\ Stutters
  <2>1. /\ locking[p] = "asked" /\ LocksMove(p, "waiting")
        /\ UNCHANGED <<table, token, refs, poisoned, wants, entry>>
    BY <1>3 DEF Locks!Await, LocksMove
  <2>2. p \notin Inside
    BY <2>1 DEF Inside
  <2>3. LocksInv'
    BY <1>o, <1>x, <2>1, <2>2, LocksWithin
  <2> QED
    BY <1>x, <2>1, <2>3, LocksWithinMaps
<1>4. ASSUME NEW p \in Procs, Locks!GiveUp(p) \/ Locks!Leave(p) PROVE LocksInv' /\ Stutters
  <2>1. /\ locking[p] \in {"asked", "waiting", "leaving"}
        /\ Locks!RemoveReference(p) /\ UNCHANGED <<token, poisoned, wants, entry>>
    BY <1>4 DEF Locks!GiveUp, Locks!Leave
  <2> QED
    BY <2>1, LocksDropped
<1>5. ASSUME NEW p \in Procs, Locks!Take(p) PROVE LocksInv' /\ Stutters
  <2>1. /\ locking[p] = "waiting" /\ LocksMove(p, "took") /\ token[entry[p]]
        /\ token' = [token EXCEPT ![entry[p]] = FALSE]
        /\ UNCHANGED <<table, refs, poisoned, wants, entry>>
    BY <1>5 DEF Locks!Take, LocksMove
  <2>2. token' \in [Entries -> BOOLEAN]
    BY <1>o, <2>1
  <2>3. LocksInv'
    BY <1>x, <2>1, <2>2, LocksWithin
  <2> QED
    BY <1>x, <2>1, <2>3, LocksWithinMaps
<1>6. ASSUME NEW p \in Procs, Locks!Granted(p)
      PROVE  LocksInv' /\ Locks!Abstract!Enter(p, wants[p])
  <2>1. /\ locking[p] = "took" /\ LocksMove(p, "holding") /\ entry[p] \notin poisoned
        /\ UNCHANGED <<table, token, refs, poisoned, wants, entry>>
    BY <1>6 DEF Locks!Granted, LocksMove
  <2>2. p \in Inside
    BY <2>1 DEF Inside
  <2>3. LocksInv'
    BY <1>o, <1>x, <2>1, <2>2, LocksWithin
  <2>4. \A q \in Procs : locking'[q] = IF q = p THEN "holding" ELSE locking[q]
    BY <2>1 DEF LocksInv, LocksTypes, LocksMove
  <2>5. HoldersOf(wants[p]) = {}
    <3> SUFFICES ASSUME NEW q \in HoldersOf(wants[p]) PROVE FALSE
      OBVIOUS
    <3>1. q \in Inside /\ q # p /\ entry[q] = entry[p]
      BY <1>o, <2>1 DEF HoldersOf, Inside
    <3> QED
      BY <2>2, <3>1 DEF LocksInv, OneToken
  <2>6. \A k \in Keys : HoldersOf(k)' = IF k = wants[p] THEN {p} ELSE HoldersOf(k)
    BY <2>1, <2>4, <2>5 DEF HoldersOf
  <2>7. wants[p] \in Keys /\ wants[p] \notin Broken
    BY <1>o, <2>1 DEF Broken
  <2>8. Broken' = Broken
    BY <2>1 DEF Broken
  <2>9. Locks!Abstract!Enter(p, wants[p])
    BY <2>5, <2>6, <2>7, <2>8 DEF Locks!Abstract!Enter, HoldersOf, Broken
  <2> QED
    BY <2>3, <2>9
<1>7. ASSUME NEW p \in Procs, Locks!Refused(p) PROVE LocksInv' /\ Stutters
  <2>1. /\ locking[p] = "took" /\ LocksMove(p, "leaving")
        /\ token' = [token EXCEPT ![entry[p]] = TRUE]
        /\ UNCHANGED <<table, refs, poisoned, wants, entry>>
    BY <1>7 DEF Locks!Refused, LocksMove
  <2>2. token' \in [Entries -> BOOLEAN] /\ p \in Inside
    BY <1>o, <2>1 DEF Inside
  <2>3. LocksInv'
    BY <1>x, <2>1, <2>2, LocksWithin
  <2> QED
    BY <1>x, <2>1, <2>3, LocksWithinMaps
<1>8. ASSUME NEW p \in Procs, Locks!Poison(p)
      PROVE  LocksInv' /\ Locks!Abstract!Break(p, wants[p])
  <2>1. /\ locking[p] = "holding" /\ poisoned' = poisoned \cup {table[wants[p]]}
        /\ UNCHANGED <<table, token, refs, locking, wants, entry>>
    BY <1>8 DEF Locks!Poison
  <2>2. LocksMove(p, "holding") /\ p \in Inside /\ table[wants[p]] = entry[p]
        /\ wants[p] \in Keys
    BY <1>o, <2>1 DEF LocksInv, LocksTypes, LocksMove, Inside
  <2>3. LocksInv'
    BY <1>o, <1>x, <2>1, <2>2, LocksWithin
  <2>4. Broken' = Broken \cup {wants[p]}
    <3>1. \A k \in Keys : table[k] = table[wants[p]] => k = wants[p]
      BY <1>o, <2>1, <2>2, LocksConstantsHold DEF LocksInv, EntriesStay
    <3> QED
      BY <2>1, <2>2, <3>1 DEF Broken
  <2>5. p \in HoldersOf(wants[p]) /\ \A k \in Keys : HoldersOf(k)' = HoldersOf(k)
    BY <2>1 DEF HoldersOf
  <2>6. Locks!Abstract!Break(p, wants[p])
    BY <2>2, <2>4, <2>5 DEF Locks!Abstract!Break, HoldersOf, Broken
  <2> QED
    BY <2>3, <2>6
<1>9. ASSUME NEW p \in Procs, Locks!Release(p)
      PROVE  LocksInv' /\ Locks!Abstract!Exit(p, wants[p])
  <2>1. /\ locking[p] = "holding" /\ LocksMove(p, "leaving")
        /\ token' = [token EXCEPT ![entry[p]] = TRUE]
        /\ UNCHANGED <<table, refs, poisoned, wants, entry>>
    BY <1>9 DEF Locks!Release, LocksMove
  <2>2. token' \in [Entries -> BOOLEAN] /\ p \in Inside
    BY <1>o, <2>1 DEF Inside
  <2>3. LocksInv'
    BY <1>x, <2>1, <2>2, LocksWithin
  <2>4. \A q \in Procs : locking'[q] = IF q = p THEN "leaving" ELSE locking[q]
    BY <2>1 DEF LocksInv, LocksTypes, LocksMove
  <2>5. HoldersOf(wants[p]) = {p}
    <3>1. p \in HoldersOf(wants[p])
      BY <2>1 DEF HoldersOf
    <3>2. ASSUME NEW q \in HoldersOf(wants[p]) PROVE q = p
      <4>1. q \in Inside /\ entry[q] = entry[p]
        BY <1>o, <2>1, <3>2 DEF HoldersOf, Inside
      <4> QED
        BY <2>2, <4>1 DEF LocksInv, OneToken
    <3> QED
      BY <3>1, <3>2
  <2>6. \A k \in Keys : HoldersOf(k)' = IF k = wants[p] THEN {} ELSE HoldersOf(k)
    BY <2>1, <2>4, <2>5 DEF HoldersOf
  <2>7. Broken' = Broken /\ wants[p] \in Keys
    BY <1>o, <2>1 DEF Broken
  <2>8. Locks!Abstract!Exit(p, wants[p])
    BY <2>5, <2>6, <2>7 DEF Locks!Abstract!Exit, HoldersOf, Broken
  <2> QED
    BY <2>3, <2>8
<1>10. CASE Locks!Next
  <2>1. PICK p \in Procs :
          \/ \E k \in Keys : Locks!Acquire(p, k)
          \/ Locks!Await(p) \/ Locks!GiveUp(p) \/ Locks!Take(p) \/ Locks!Granted(p)
          \/ Locks!Refused(p) \/ Locks!Poison(p) \/ Locks!Release(p) \/ Locks!Leave(p)
    BY <1>10 DEF Locks!Next
  <2>2. LocksInv' /\ (\/ Stutters \/ Locks!Abstract!Enter(p, wants[p])
                      \/ Locks!Abstract!Exit(p, wants[p]) \/ Locks!Abstract!Break(p, wants[p]))
        /\ (Stutters \/ wants[p] \in Keys)
    BY <1>2, <1>3, <1>4, <1>5, <1>6, <1>7, <1>8, <1>9, <1>o, <2>1
       DEF Locks!Granted, Locks!Release, Locks!Poison
  <2>3. CASE Stutters
    BY <1>st, <2>2, <2>3
  <2>4. CASE wants[p] \in Keys /\ (\/ Locks!Abstract!Enter(p, wants[p])
                                  \/ Locks!Abstract!Exit(p, wants[p])
                                  \/ Locks!Abstract!Break(p, wants[p]))
    <3>1. Locks!Abstract!Next
      <4>1. PICK k \in Keys : k = wants[p]
        BY <2>4
      <4>2. \/ Locks!Abstract!Enter(p, k) \/ Locks!Abstract!Exit(p, k)
            \/ Locks!Abstract!Break(p, k)
        BY <2>4, <4>1 DEF Locks!Abstract!Enter, Locks!Abstract!Exit, Locks!Abstract!Break
      <4> QED
        BY <4>1, <4>2 DEF Locks!Abstract!Next
    <3> QED
      BY <2>2, <3>1
  <2> QED
    BY <2>2, <2>3, <2>4
<1> QED
  BY <1>1, <1>10

\* The worker's locks do what RepositoryLock promises: one goroutine at a time inside a
\* repository and none once it is poisoned, although entries come and go from the map
\* (acquire, removeReference, poison), for any goroutines, repositories and entries.
THEOREM LocksAlwaysARepository == Spec => LocksARepository
<1>1. LocksInv /\ [Next]_vars => LocksInv' /\ [Locks!Abstract!Next]_(Locks!Abstract!lockVars)
  BY LocksStep, LocksKept
<1> QED
  BY LocksInit, <1>1, PTL DEF Spec, LocksARepository, Locks!LocksARepository,
     Locks!Abstract!Spec

-----------------------------------------------------------------------------
(* FakeCloud.                                                              *)

\* A step of the whole is a step of the backend or leaves it alone.
LEMMA CloudPart == [Next]_vars => [Cloud!Next]_cloudVars
BY DEF Next, vars, Schedules, Publication, Enrollment, Admissions, Locking, Caching,
       Forwarding, Dispatching, cloudVars

CloudStates == {"new", "blocked", "queued", "running"} \cup Cloud!Ended
CloudTypes ==
  /\ versions \in Seq([cap : Caps, outcome : Cloud!Outcomes])
  /\ ready \in BOOLEAN /\ halted \in BOOLEAN /\ editor \in 1 .. Len(versions)
  /\ work \in [Work -> [state : CloudStates, version : 1 .. Len(versions),
                        cancel : BOOLEAN, late : BOOLEAN]]

\* Work in one of the states, and how many.
CloudIn(states) == {w \in Work : work[w].state \in states}
Busy == Cardinality(CloudIn({"running"}))
Counted == Cardinality(CloudIn({"queued", "running"}))

\* The Run's Work was admitted at once, so that it froze one version, whose cap holds
\* for every running attempt.
CloudKeepsLimits ==
  /\ \A w, v \in Work : work[w].state # "new" /\ work[v].state # "new" =>
       work[w].version = work[v].version
  /\ \A w \in CloudIn({"running"}) : Busy <= versions[work[w].version].cap
  /\ Counted <= RunLimit

CloudInv == CloudTypes /\ CloudKeepsLimits

LEMMA CloudConstantsHold ==
  IsFiniteSet(Work) /\ RunLimit \in Nat \ {0} /\ Caps \subseteq Nat \ {0}
BY Constants DEF Cloud!CloudConstants, Cloud!IsFiniteSet, IsFiniteSet

LEMMA CloudCardinality == ASSUME NEW S PROVE Cloud!Cardinality(S) = Cardinality(S)
BY DEF Cloud!Cardinality, Cardinality

LEMMA WorkFinite == \A S \in SUBSET Work : IsFiniteSet(S) /\ Cardinality(S) \in Nat
BY CloudConstantsHold, FS_Subset, FS_CardinalityType

LEMMA ElementsOf ==
  ASSUME NEW S, NEW s \in Seq(S) PROVE \A i \in 1 .. Len(s) : s[i] \in S
OBVIOUS

LEMMA CloudInit == Init => CloudInv
<1> SUFFICES ASSUME Init PROVE CloudInv
  OBVIOUS
<1>1. Cloud!Init
  BY DEF Init
<1>2. PICK c \in Caps, o \in Cloud!Outcomes : versions = <<[cap |-> c, outcome |-> o]>>
  BY <1>1 DEF Cloud!Init
<1>3. versions \in Seq([cap : Caps, outcome : Cloud!Outcomes]) /\ Len(versions) = 1
  BY <1>2
<1>4. CloudTypes
  <2>1. 1 \in 1 .. Len(versions)
    BY <1>3
  <2>2. \A w \in Work : work[w] = [state |-> "new", version |-> 1, cancel |-> FALSE, late |-> FALSE]
    BY <1>1 DEF Cloud!Init
  <2>3. work \in [Work -> [state : CloudStates, version : 1 .. Len(versions),
                          cancel : BOOLEAN, late : BOOLEAN]]
    BY <1>1, <2>1 DEF Cloud!Init, CloudStates
  <2>4. ready \in BOOLEAN
    BY <1>1 DEF Cloud!Init
  <2>5. halted \in BOOLEAN
    BY <1>1 DEF Cloud!Init
  <2>6. editor \in 1 .. Len(versions)
    BY <1>1, <2>1 DEF Cloud!Init
  <2> QED
    BY <1>3, <2>3, <2>4, <2>5, <2>6 DEF CloudTypes
<1>5. /\ CloudIn({"running"}) = {} /\ CloudIn({"queued", "running"}) = {}
      /\ \A w \in Work : work[w].state = "new"
  BY <1>1 DEF Cloud!Init, CloudIn
<1>6. CloudKeepsLimits
  <2>1. Counted = 0
    BY <1>5, FS_EmptySet DEF Counted
  <2> QED
    BY <1>5, <2>1, CloudConstantsHold DEF CloudKeepsLimits
<1> QED
  BY <1>4, <1>6 DEF CloudInv

\* One Work changes its state to s, or only its flags.
LEMMA CloudMoves ==
  ASSUME CloudInv, NEW w \in Work, NEW s \in CloudStates, work[w].state # "new", s # "new",
         UNCHANGED <<versions, ready, editor>>, halted' \in BOOLEAN,
         work' \in [Work -> [state : CloudStates, version : 1 .. Len(versions),
                             cancel : BOOLEAN, late : BOOLEAN]],
         \A v \in Work \ {w} : work'[v] = work[v],
         work'[w].state = s, work'[w].version = work[w].version,
         \/ s = work[w].state \/ s \in Cloud!Ended
         \/ work[w].state = "blocked" /\ s = "queued" /\ Counted < RunLimit
         \/ work[w].state = "queued" /\ s = "running" /\ Busy < versions[work[w].version].cap
  PROVE  CloudInv'
<1> DEFINE Q == {"queued", "running"}
<1>1. CloudTypes'
  BY DEF CloudInv, CloudTypes
<1>2. ASSUME NEW A \in {{"running"}, Q}
      PROVE  CloudIn(A)' = IF s \in A THEN CloudIn(A) \cup {w} ELSE CloudIn(A) \ {w}
  BY DEF CloudIn
<1>3. \A v \in Work : work[v].version \in 1 .. Len(versions) /\ versions[work[v].version].cap \in Nat
  <2>1. \A v \in Work : work[v].version \in 1 .. Len(versions)
    BY DEF CloudInv, CloudTypes
  <2>2. \A i \in 1 .. Len(versions) : versions[i] \in [cap : Caps, outcome : Cloud!Outcomes]
    BY ElementsOf DEF CloudInv, CloudTypes
  <2> QED
    BY <2>1, <2>2, CloudConstantsHold
<1>4. Busy \in Nat /\ Counted \in Nat /\ RunLimit \in Nat
      /\ IsFiniteSet(CloudIn({"running"})) /\ IsFiniteSet(CloudIn(Q))
  <2>1. CloudIn({"running"}) \in SUBSET Work /\ CloudIn(Q) \in SUBSET Work
    BY DEF CloudIn
  <2> QED
    BY <2>1, WorkFinite, CloudConstantsHold DEF Busy, Counted
<1>5. Busy' <= Busy \/ (s = "running" /\ work[w].state = "queued" /\ Busy' = Busy + 1)
  <2>1. CASE s = "running" /\ w \notin CloudIn({"running"})
    <3>1. CloudIn({"running"})' = CloudIn({"running"}) \cup {w}
      BY <1>2, <2>1
    <3>2. Busy' = Busy + 1
      BY <1>4, <2>1, <3>1, Grown DEF Busy
    <3>3. work[w].state = "queued"
      BY <2>1 DEF CloudIn, Cloud!Ended
    <3> QED
      BY <2>1, <3>2, <3>3
  <2>2. CASE s # "running" \/ w \in CloudIn({"running"})
    <3>1. CloudIn({"running"})' \subseteq CloudIn({"running"})
      BY <1>2, <2>2
    <3> QED
      BY <1>4, <3>1, FS_Subset DEF Busy
  <2> QED
    BY <2>1, <2>2
<1>6. Counted' <= RunLimit
  <2>1. Counted <= RunLimit
    BY DEF CloudInv, CloudKeepsLimits
  <2>2. CASE s \in Q /\ w \notin CloudIn(Q)
    <3>1. CloudIn(Q)' = CloudIn(Q) \cup {w}
      BY <1>2, <2>2
    <3>2. Counted' = Counted + 1
      BY <1>4, <2>2, <3>1, Grown DEF Counted
    <3>3. Counted < RunLimit
      BY <2>2 DEF CloudIn, Cloud!Ended
    <3> QED
      BY <1>4, <3>2, <3>3
  <2>3. CASE s \notin Q \/ w \in CloudIn(Q)
    <3>1. CloudIn(Q)' \subseteq CloudIn(Q)
      BY <1>2, <2>3
    <3>2. Counted' <= Counted /\ Counted' \in Nat
      BY <1>4, <3>1, FS_Subset, FS_CardinalityType DEF Counted
    <3> QED
      BY <1>4, <2>1, <3>2
  <2> QED
    BY <2>2, <2>3
<1>7. \A v, u \in Work : work'[v].state # "new" /\ work'[u].state # "new" =>
        work'[v].version = work'[u].version
  <2>1. \A v \in Work : /\ work'[v].version = work[v].version
                        /\ work'[v].state # "new" => work[v].state # "new"
    OBVIOUS
  <2> QED
    BY <2>1 DEF CloudInv, CloudKeepsLimits
<1>8. ASSUME NEW v \in CloudIn({"running"})' PROVE Busy' <= versions'[work'[v].version].cap
  <2>1. /\ v \in Work /\ work'[v].version = work[v].version /\ work[v].state # "new"
        /\ v # w => v \in CloudIn({"running"})
    BY DEF CloudIn
  <2>2. work[v].version = work[w].version
    BY <2>1 DEF CloudInv, CloudKeepsLimits
  <2>3. Busy' \in Nat
    <3>1. CloudIn({"running"})' \in SUBSET Work
      BY DEF CloudIn
    <3> QED
      BY <3>1, WorkFinite DEF Busy
  <2>4. CASE s = "running" /\ work[w].state = "queued"
    <3>1. Busy < versions[work[w].version].cap
      BY <2>4 DEF Cloud!Ended
    <3> QED
      BY <1>3, <1>4, <1>5, <2>1, <2>2, <2>3, <3>1
  <2>5. CASE ~(s = "running" /\ work[w].state = "queued")
    <3>1. v \in CloudIn({"running"})
      BY <2>1, <2>5 DEF CloudIn, Cloud!Ended
    <3>2. Busy <= versions[work[v].version].cap
      BY <3>1 DEF CloudInv, CloudKeepsLimits
    <3> QED
      BY <1>3, <1>4, <1>5, <2>1, <2>3, <2>5, <3>2
  <2> QED
    BY <2>4, <2>5
<1>9. CloudKeepsLimits'
  BY <1>6, <1>7, <1>8 DEF CloudKeepsLimits
<1> QED
  BY <1>1, <1>9 DEF CloudInv

\* The Run is admitted.
LEMMA CloudAdmits ==
  ASSUME CloudInv, Cloud!Admit PROVE CloudInv' /\ \A w \in Work : work[w].state = "new"
<1>1. /\ \A w \in Work : work[w].state = "new"
      /\ UNCHANGED <<versions, ready, halted, editor>>
  BY DEF Cloud!Admit, Cloud!In
<1>2. PICK queued \in SUBSET Work :
        /\ Cardinality(queued) <= RunLimit
        /\ work' = [w \in Work |-> [state |-> IF w \in queued THEN "queued" ELSE "blocked",
                                    version |-> Len(versions), cancel |-> FALSE, late |-> FALSE]]
  <2>1. PICK queued \in SUBSET Work :
          /\ IF ready THEN \/ Cardinality(queued) = RunLimit
                           \/ queued = Work /\ Cardinality(Work) < RunLimit
             ELSE queued = {}
          /\ work' = [w \in Work |-> [state |-> IF w \in queued THEN "queued" ELSE "blocked",
                                      version |-> Len(versions), cancel |-> FALSE, late |-> FALSE]]
    BY CloudCardinality DEF Cloud!Admit
  <2>2. Cardinality(queued) <= RunLimit
    BY <2>1, WorkFinite, CloudConstantsHold, FS_EmptySet
  <2> QED
    BY <2>1, <2>2
<1>3. Len(versions) \in 1 .. Len(versions)
  BY DEF CloudInv, CloudTypes
<1>4. CloudTypes'
  BY <1>1, <1>2, <1>3 DEF CloudInv, CloudTypes, CloudStates
<1>5. CloudIn({"running"})' = {} /\ CloudIn({"queued", "running"})' = queued
  BY <1>2 DEF CloudIn
<1>6. \A w, v \in Work : work'[w].version = work'[v].version
  BY <1>2
<1>7. CloudKeepsLimits'
  BY <1>2, <1>5, <1>6 DEF CloudKeepsLimits, Counted
<1> QED
  BY <1>1, <1>4, <1>7 DEF CloudInv

\* Who may still be moved by a pass, and to where.
LEMMA CloudPasses ==
  ASSUME CloudInv, NEW w \in Work, NEW s \in CloudStates \ {"new"}, work[w].state # "new",
         Cloud!Moves(w, s), UNCHANGED <<versions, ready, halted, editor>>,
         \/ s \in Cloud!Ended
         \/ work[w].state = "blocked" /\ s = "queued" /\ Counted < RunLimit
         \/ work[w].state = "queued" /\ s = "running" /\ Busy < versions[work[w].version].cap
  PROVE  CloudInv' /\ \A v \in Work \ {w} : work'[v] = work[v]
<1>1. work \in [Work -> [state : CloudStates, version : 1 .. Len(versions),
                         cancel : BOOLEAN, late : BOOLEAN]]
  BY DEF CloudInv, CloudTypes
<1>2. /\ work' \in [Work -> [state : CloudStates, version : 1 .. Len(versions),
                             cancel : BOOLEAN, late : BOOLEAN]]
      /\ \A v \in Work \ {w} : work'[v] = work[v]
      /\ work'[w].state = s /\ work'[w].version = work[w].version
  BY <1>1 DEF Cloud!Moves
<1>3. halted' \in BOOLEAN
  BY DEF CloudInv, CloudTypes
<1> QED
  BY <1>2, <1>3, CloudMoves

\* A profile is edited: a version is appended and the earlier ones stay as they were.
LEMMA CloudEdited ==
  ASSUME CloudInv, NEW cap \in Caps, NEW outcome \in Cloud!Outcomes, NEW on \in BOOLEAN,
         Cloud!UpdateProfile(cap, outcome, on)
  PROVE  /\ CloudInv' /\ UNCHANGED <<halted, work>>
         /\ \A v \in DOMAIN versions : v \in DOMAIN versions' /\ versions'[v] = versions[v]
<1> DEFINE Version == [cap : Caps, outcome : Cloud!Outcomes]
           new == [cap |-> cap, outcome |-> outcome]
<1>1. versions' = Append(versions, new) /\ ready' = on /\ UNCHANGED <<halted, work, editor>>
  BY DEF Cloud!UpdateProfile
<1>2. versions \in Seq(Version) /\ new \in Version
  BY DEF CloudInv, CloudTypes
<1>3. /\ versions' \in Seq(Version) /\ Len(versions) \in Nat /\ Len(versions') = Len(versions) + 1
      /\ \A i \in 1 .. Len(versions) : versions'[i] = versions[i]
      /\ DOMAIN versions = 1 .. Len(versions) /\ DOMAIN versions' = 1 .. Len(versions')
  <2> HIDE DEF Version, new
  <2> QED
    BY <1>1, <1>2
<1>4. 1 .. Len(versions) \subseteq 1 .. Len(versions')
  BY <1>3
<1>5. CloudTypes'
  <2>1. /\ work \in [Work -> [state : CloudStates, version : 1 .. Len(versions'),
                              cancel : BOOLEAN, late : BOOLEAN]]
        /\ editor \in 1 .. Len(versions')
    BY <1>4 DEF CloudInv, CloudTypes
  <2> QED
    BY <1>1, <1>3, <2>1 DEF CloudInv, CloudTypes
<1>6. \A w \in Work : versions'[work[w].version] = versions[work[w].version]
  BY <1>3 DEF CloudInv, CloudTypes
<1>7. \A A : CloudIn(A)' = CloudIn(A)
  BY <1>1 DEF CloudIn
<1>8. CloudKeepsLimits'
  <2>1. Busy' = Busy /\ Counted' = Counted
    BY <1>7 DEF Busy, Counted
  <2>2. \A w \in CloudIn({"running"})' : Busy' <= versions'[work'[w].version].cap
    BY <1>1, <1>6, <1>7, <2>1 DEF CloudInv, CloudKeepsLimits, CloudIn
  <2> QED
    BY <1>1, <2>1, <2>2 DEF CloudInv, CloudKeepsLimits
<1> QED
  BY <1>1, <1>3, <1>4, <1>5, <1>8 DEF CloudInv

\* What every step of the backend and of the operators does.
CloudGoes ==
  /\ CloudInv'
  /\ Cloud!StartsReady
  /\ \A v \in DOMAIN versions : v \in DOMAIN versions' /\ versions'[v] = versions[v]

\* A pass of the dispatcher.
LEMMA CloudDispatched ==
  ASSUME CloudInv, Cloud!Dispatch PROVE CloudGoes
<1>t. /\ \A w \in Work : work[w].state \in CloudStates
      /\ {"cancelled", "failed", "queued", "running", "succeeded"} \subseteq CloudStates \ {"new"}
      /\ {"cancelled", "failed", "succeeded"} \subseteq Cloud!Ended
  BY DEF CloudInv, CloudTypes, CloudStates, Cloud!Ended
<1>u. UNCHANGED <<versions, ready, halted, editor>>
  BY DEF Cloud!Dispatch, Cloud!CompleteCancelled, Cloud!CompleteOverdue, Cloud!Release,
     Cloud!Start
<1> DEFINE Others(w) == \A v \in Work \ {w} : work'[v] = work[v]
<1>1. CASE Cloud!CompleteCancelled \/ Cloud!CompleteOverdue
  <2>1. PICK w \in Work, s \in {"cancelled", "failed"} :
          work[w].state = "running" /\ Cloud!Moves(w, s)
    BY <1>1 DEF Cloud!CompleteCancelled, Cloud!CompleteOverdue, Cloud!Cancelling,
       Cloud!Overdue, Cloud!In
  <2>2. CloudInv' /\ Others(w)
    BY <1>t, <1>u, <2>1, CloudPasses
  <2>3. Cloud!StartsReady
    BY <2>1, <2>2 DEF Cloud!StartsReady
  <2> QED
    BY <1>u, <2>2, <2>3 DEF CloudGoes
<1>2. CASE Cloud!Release
  <2>1. PICK w \in Work : work[w].state = "blocked" /\ ready /\ Cloud!Moves(w, "queued")
                          /\ Counted < RunLimit /\ ~halted
    BY <1>2, CloudCardinality DEF Cloud!Release, Cloud!Releasable, Cloud!In, Counted, CloudIn
  <2>2. CloudInv' /\ Others(w)
    BY <1>t, <1>u, <2>1, CloudPasses
  <2>3. Cloud!StartsReady
    BY <2>1, <2>2 DEF Cloud!StartsReady
  <2> QED
    BY <1>u, <2>2, <2>3 DEF CloudGoes
<1>3. CASE Cloud!Start
  <2>1. PICK w \in Work : /\ work[w].state = "queued" /\ ready /\ ~halted
                          /\ Cloud!Moves(w, versions[work[w].version].outcome)
                          /\ Busy < versions[work[w].version].cap
    BY <1>3, CloudCardinality DEF Cloud!Start, Cloud!Startable, Cloud!In, Cloud!Room,
       Cloud!Version, Busy, CloudIn
  <2>2. PICK s \in Cloud!Outcomes : s = versions[work[w].version].outcome
    <3>1. work[w].version \in 1 .. Len(versions)
      BY DEF CloudInv, CloudTypes
    <3>2. versions[work[w].version] \in [cap : Caps, outcome : Cloud!Outcomes]
      BY <3>1, ElementsOf DEF CloudInv, CloudTypes
    <3> QED
      BY <3>2
  <2>3. s \in CloudStates \ {"new"} /\ (s \in Cloud!Ended \/ s = "running")
    BY <2>2 DEF Cloud!Outcomes, CloudStates, Cloud!Ended
  <2>4. Cloud!Moves(w, s)
    BY <2>1, <2>2 DEF Cloud!Moves
  <2>5. CloudInv' /\ Others(w)
    BY <1>u, <2>1, <2>3, <2>4, CloudPasses
  <2>6. Cloud!StartsReady
    BY <2>1, <2>5 DEF Cloud!StartsReady
  <2> QED
    BY <1>u, <2>5, <2>6 DEF CloudGoes
<1> QED
  BY <1>1, <1>2, <1>3 DEF Cloud!Dispatch

\* Every step keeps the invariant and does what CloudSound says of it.
LEMMA CloudKept == ASSUME CloudInv, Cloud!Next PROVE CloudGoes
<1>t. work \in [Work -> [state : CloudStates, version : 1 .. Len(versions),
                         cancel : BOOLEAN, late : BOOLEAN]]
  BY DEF CloudInv, CloudTypes
<1>1. CASE Cloud!Admit
  <2>1. CloudInv' /\ versions' = versions /\ \A w \in Work : work[w].state = "new"
    BY <1>1, CloudAdmits DEF Cloud!Admit
  <2>2. Cloud!StartsReady
    BY <2>1 DEF Cloud!StartsReady
  <2> QED
    BY <2>1, <2>2 DEF CloudGoes
<1>2. CASE Cloud!OpenForm
  <2>1. UNCHANGED <<versions, ready, halted, work>> /\ editor' = Len(versions)
    BY <1>2 DEF Cloud!OpenForm
  <2>2. Len(versions) \in 1 .. Len(versions)
    <3>1. Len(versions) \in Nat /\ editor \in 1 .. Len(versions)
      BY DEF CloudInv, CloudTypes
    <3> QED
      BY <3>1
  <2>3. CloudInv'
    BY <2>1, <2>2 DEF CloudInv, CloudTypes, CloudKeepsLimits, Busy, Counted, CloudIn
  <2> QED
    BY <2>1, <2>3 DEF CloudGoes, Cloud!StartsReady
<1>3. CASE Cloud!SetPaused
  <2>1. UNCHANGED <<versions, ready, editor, work>> /\ halted' \in BOOLEAN
    BY <1>3 DEF Cloud!SetPaused, CloudInv, CloudTypes
  <2>2. CloudInv'
    BY <2>1 DEF CloudInv, CloudTypes, CloudKeepsLimits, Busy, Counted, CloudIn
  <2> QED
    BY <2>1, <2>2 DEF CloudGoes, Cloud!StartsReady
<1>4. CASE \E cap \in Caps, outcome \in Cloud!Outcomes, on \in BOOLEAN :
             Cloud!UpdateProfile(cap, outcome, on)
  BY <1>4, CloudEdited DEF CloudGoes, Cloud!StartsReady
<1>5. ASSUME NEW w \in Work, Cloud!Cancel(w) \/ Cloud!TimeoutPasses(w) PROVE CloudGoes
  <2>1. /\ UNCHANGED <<versions, ready, halted, editor>>
        /\ work[w].state \in {"blocked", "queued", "running"}
        /\ \/ work' = [work EXCEPT ![w].cancel = TRUE]
           \/ work' = [work EXCEPT ![w].cancel = TRUE, ![w].state = "cancelled"]
           \/ work' = [work EXCEPT ![w].late = TRUE]
    BY <1>5 DEF Cloud!Cancel, Cloud!TimeoutPasses
  <2>2. PICK s \in CloudStates \ {"new"} :
          /\ s = work[w].state \/ s = "cancelled"
          /\ work'[w].state = s /\ work'[w].version = work[w].version
          /\ \A v \in Work \ {w} : work'[v] = work[v]
          /\ work' \in [Work -> [state : CloudStates, version : 1 .. Len(versions),
                                 cancel : BOOLEAN, late : BOOLEAN]]
    <3>1. "cancelled" \in CloudStates \ {"new"} /\ work[w].state \in CloudStates \ {"new"}
      BY <1>t, <2>1 DEF CloudStates, Cloud!Ended
    <3>2. CASE work' = [work EXCEPT ![w].cancel = TRUE]
      BY <1>t, <3>1, <3>2
    <3>3. CASE work' = [work EXCEPT ![w].cancel = TRUE, ![w].state = "cancelled"]
      BY <1>t, <3>1, <3>3
    <3>4. CASE work' = [work EXCEPT ![w].late = TRUE]
      BY <1>t, <3>1, <3>4
    <3> QED
      BY <2>1, <3>2, <3>3, <3>4
  <2>3. halted' \in BOOLEAN /\ "cancelled" \in Cloud!Ended
    BY <2>1 DEF CloudInv, CloudTypes, Cloud!Ended
  <2>4. CloudInv'
    BY <2>1, <2>2, <2>3, CloudMoves
  <2>5. Cloud!StartsReady
    BY <2>2 DEF Cloud!StartsReady
  <2> QED
    BY <2>1, <2>4, <2>5 DEF CloudGoes
<1> QED
  BY <1>1, <1>2, <1>3, <1>4, <1>5, CloudDispatched DEF Cloud!Next

\* The fake cloud never runs more than the version its Work froze allows nor more of the
\* Run than its limit, starts nothing unready or paused, and never changes a version
\* (dispatchOneFakeCloud, UpdateExecutionProfile), for any Work, caps and limits.
THEOREM CloudAlwaysSound == Spec => CloudSound
<1>1. CloudInv => Cloud!CloudWithinLimits
  <2> SUFFICES ASSUME CloudInv PROVE Cloud!CloudWithinLimits
    OBVIOUS
  <2>1. /\ Cloud!Cardinality(Cloud!In({"running"})) = Busy
        /\ Cloud!Cardinality(Cloud!In({"queued", "running"})) = Counted
        /\ Cloud!In({"running"}) = CloudIn({"running"})
    BY CloudCardinality DEF Cloud!In, CloudIn, Busy, Counted
  <2> QED
    BY <2>1 DEF CloudInv, CloudKeepsLimits, Cloud!CloudWithinLimits, Cloud!Version
<1>2. CloudInv /\ [Next]_vars => CloudInv' /\ [CloudGoes]_(Cloud!vars)
  <2> SUFFICES ASSUME CloudInv, [Next]_vars PROVE CloudInv' /\ [CloudGoes]_(Cloud!vars)
    OBVIOUS
  <2>1. CASE Cloud!Next
    BY <2>1, CloudKept DEF CloudGoes
  <2>2. CASE UNCHANGED cloudVars
    BY <2>2 DEF cloudVars, Cloud!vars, CloudInv, CloudTypes, CloudKeepsLimits, Busy, Counted,
       CloudIn
  <2> QED
    BY <2>1, <2>2, CloudPart
<1>3. [CloudGoes]_(Cloud!vars) /\ CloudInv' => [Cloud!CloudStep]_(Cloud!vars)
  <2>1. CloudInv' => Cloud!CloudWithinLimits'
    BY <1>1, PTL
  <2> QED
    BY <2>1 DEF CloudGoes, Cloud!CloudStep
<1> QED
  BY CloudInit, <1>2, <1>3, PTL DEF Spec, CloudSound, Cloud!CloudSound

-----------------------------------------------------------------------------
(* The types of the whole.                                                 *)

\* What is left of a queue when the one at i leaves it.
Distinct(s) == \A i, j \in 1 .. Len(s) : s[i] = s[j] => i = j
Behind(r, s, i) ==
  /\ r \in Seq(Procs) /\ Distinct(r)
  /\ \A j \in 1 .. Len(r) : r[j] # s[i] /\ \E k \in 1 .. Len(s) : r[j] = s[k]

\* The elements of two queues one behind the other.
LEMMA Joined ==
  \A a, b \in Seq(Procs) :
    /\ a \o b \in Seq(Procs) /\ Len(a \o b) = Len(a) + Len(b)
    /\ \A j \in 1 .. Len(a) : (a \o b)[j] = a[j]
    /\ \A j \in 1 .. Len(b) : (a \o b)[Len(a) + j] = b[j]
OBVIOUS

LEMMA LeavesQueue ==
  ASSUME NEW s \in Seq(Procs), Distinct(s), NEW i \in 1 .. Len(s)
  PROVE  Behind(SubSeq(s, 1, i - 1) \o SubSeq(s, i + 1, Len(s)), s, i)
<1> DEFINE a == SubSeq(s, 1, i - 1)  b == SubSeq(s, i + 1, Len(s))  r == a \o b
<1>n. Len(s) \in Nat /\ i \in Nat /\ i \in 1 .. Len(s)
  OBVIOUS
<1>1. /\ a \in Seq(Procs) /\ Len(a) = i - 1
      /\ \A j \in 1 .. i - 1 : a[j] = s[j]
  BY <1>n
<1>2. /\ b \in Seq(Procs) /\ Len(b) = Len(s) - i
      /\ \A j \in 1 .. Len(s) - i : b[j] = s[i + j]
  BY <1>n
<1>h. HIDE DEF a, b
<1>j. /\ r \in Seq(Procs) /\ Len(r) = Len(a) + Len(b)
      /\ \A j \in 1 .. Len(a) : r[j] = a[j]
      /\ \A j \in 1 .. Len(b) : r[Len(a) + j] = b[j]
  <2>1. a \in Seq(Procs) /\ b \in Seq(Procs)
    BY <1>1, <1>2
  <2> QED
    BY <2>1, Joined, Zenon
<1>r. HIDE DEF r
<1>3. Len(r) = Len(s) - 1
  BY <1>n, <1>1, <1>2, <1>j
<1> DEFINE at(j) == IF j < i THEN j ELSE j + 1
<1>4. ASSUME NEW j \in 1 .. Len(r)
      PROVE  at(j) \in 1 .. Len(s) /\ at(j) # i /\ r[j] = s[at(j)]
  <2>1. j \in 1 .. Len(s) - 1 /\ j \in Nat /\ j <= Len(a) + Len(b)
    BY <1>n, <1>1, <1>2, <1>3
  <2>2. CASE j < i
    <3>1. j \in 1 .. Len(a) /\ at(j) = j
      BY <1>n, <1>1, <2>1, <2>2
    <3>2. r[j] = a[j]
      BY <1>j, <3>1
    <3> QED
      BY <1>n, <1>1, <2>1, <2>2, <3>1, <3>2
  <2>3. CASE ~(j < i)
    <3>1. j - Len(a) \in 1 .. Len(b) /\ at(j) = j + 1 /\ j = Len(a) + (j - Len(a))
      BY <1>n, <1>1, <1>2, <2>1, <2>3
    <3>2. r[Len(a) + (j - Len(a))] = b[j - Len(a)]
      BY <1>j, <3>1
    <3>3. b[j - Len(a)] = s[i + (j - Len(a))] /\ i + (j - Len(a)) = j + 1
      BY <1>n, <1>1, <1>2, <2>1, <3>1
    <3> QED
      BY <1>n, <2>1, <2>3, <3>1, <3>2, <3>3
  <2> QED
    BY <2>2, <2>3
<1>5. Distinct(r)
  <2> SUFFICES ASSUME NEW j \in 1 .. Len(r), NEW k \in 1 .. Len(r), r[j] = r[k] PROVE j = k
    BY DEF Distinct
  <2>1. at(j) = at(k)
    <3> HIDE DEF at
    <3> QED
      BY <1>4 DEF Distinct
  <2> QED
    BY <1>n, <1>3, <2>1
<1>6. ASSUME NEW j \in 1 .. Len(r) PROVE r[j] # s[i] /\ \E k \in 1 .. Len(s) : r[j] = s[k]
  <2> HIDE DEF at
  <2> QED
    BY <1>4 DEF Distinct
<1>7. Behind(r, s, i)
  BY <1>j, <1>5, <1>6 DEF Behind
<1> QED
  BY <1>7 DEF r, a, b

LEMMA HeadLeavesQueue ==
  ASSUME NEW s \in Seq(Procs), Distinct(s), Len(s) # 0
  PROVE  Behind(Tail(s), s, 1)
<1>1. /\ Tail(s) \in Seq(Procs) /\ Len(Tail(s)) = Len(s) - 1 /\ Len(s) \in Nat
      /\ \A j \in 1 .. Len(s) - 1 : Tail(s)[j] = s[j + 1]
  OBVIOUS
<1>2. Distinct(Tail(s))
  BY <1>1 DEF Distinct
<1>3. \A j \in 1 .. Len(s) - 1 : Tail(s)[j] # s[1]
  BY <1>1 DEF Distinct
<1> QED
  BY <1>1, <1>2, <1>3 DEF Behind

LEMMA JoinsQueue ==
  ASSUME NEW s \in Seq(Procs), Distinct(s), NEW p \in Procs, \A i \in 1 .. Len(s) : s[i] # p
  PROVE  /\ Append(s, p) \in Seq(Procs) /\ Distinct(Append(s, p))
         /\ \A j \in 1 .. Len(Append(s, p)) :
              Append(s, p)[j] = p \/ \E k \in 1 .. Len(s) : Append(s, p)[j] = s[k]
<1>1. /\ Append(s, p) \in Seq(Procs) /\ Len(Append(s, p)) = Len(s) + 1 /\ Len(s) \in Nat
      /\ \A j \in 1 .. Len(s) + 1 : Append(s, p)[j] = IF j = Len(s) + 1 THEN p ELSE s[j]
  OBVIOUS
<1>2. Distinct(Append(s, p))
  BY <1>1 DEF Distinct
<1> QED
  BY <1>1, <1>2

\* Whoever is in an entry's queue waits for that entry, and is there once.
LocksQueues ==
  /\ waiters \in [Entries -> Seq(Procs)]
  /\ \A e \in Entries :
       /\ Distinct(waiters[e])
       /\ \A i \in 1 .. Len(waiters[e]) :
            locking[waiters[e][i]] = "waiting" /\ entry[waiters[e][i]] = e

\* A goroutine that leaves a queue as it moves on leaves everybody else where they were.
LEMMA QueueLeft ==
  ASSUME LocksQueues, NEW p \in Procs, locking[p] = "waiting", NEW e \in Entries, entry[p] = e,
         locking \in [Procs -> Locks!Steps], NEW x, LocksMove(p, x), entry' = entry,
         NEW i \in 1 .. Len(waiters[e]), waiters[e][i] = p,
         NEW r, Behind(r, waiters[e], i), waiters' = [waiters EXCEPT ![e] = r]
  PROVE  LocksQueues'
<1>1. \A q \in Procs : q # p => locking'[q] = locking[q]
  BY DEF LocksMove
<1>2. /\ waiters' \in [Entries -> Seq(Procs)]
      /\ \A d \in Entries : waiters'[d] = IF d = e THEN r ELSE waiters[d]
  BY DEF LocksQueues, Behind
<1>3. ASSUME NEW d \in Entries
      PROVE  /\ Distinct(waiters'[d])
             /\ \A j \in 1 .. Len(waiters'[d]) :
                  locking'[waiters'[d][j]] = "waiting" /\ entry'[waiters'[d][j]] = d
  <2>1. CASE d = e
    <3>1. waiters'[d] = r /\ r \in Seq(Procs)
      BY <1>2, <2>1 DEF Behind
    <3>2. ASSUME NEW j \in 1 .. Len(r) PROVE locking'[r[j]] = "waiting" /\ entry'[r[j]] = d
      <4>1. r[j] # p /\ r[j] \in Procs /\ \E k \in 1 .. Len(waiters[e]) : r[j] = waiters[e][k]
        BY <3>1 DEF Behind
      <4> QED
        BY <1>1, <2>1, <4>1 DEF LocksQueues
    <3> QED
      BY <3>1, <3>2 DEF Behind
  <2>2. CASE d # e
    <3>1. waiters'[d] = waiters[d] /\ waiters[d] \in Seq(Procs)
      BY <1>2, <2>2 DEF LocksQueues
    <3>2. ASSUME NEW j \in 1 .. Len(waiters[d])
          PROVE  locking'[waiters[d][j]] = "waiting" /\ entry'[waiters[d][j]] = d
      <4>1. waiters[d][j] \in Procs /\ locking[waiters[d][j]] = "waiting" /\ entry[waiters[d][j]] = d
        BY <3>1 DEF LocksQueues
      <4> QED
        BY <1>1, <2>2, <4>1
    <3> QED
      BY <3>1, <3>2 DEF LocksQueues
  <2> QED
    BY <2>1, <2>2
<1> QED
  BY <1>2, <1>3 DEF LocksQueues

\* A goroutine that is in no queue before and after leaves the queues as they are.
LEMMA QueueUntouched ==
  ASSUME LocksQueues, NEW p \in Procs, locking[p] # "waiting",
         locking \in [Procs -> Locks!Steps], NEW x, LocksMove(p, x), waiters' = waiters,
         \A q \in Procs \ {p} : entry'[q] = entry[q]
  PROVE  LocksQueues'
<1>1. \A q \in Procs : q # p => locking'[q] = locking[q]
  BY DEF LocksMove
<1>2. ASSUME NEW e \in Entries, NEW i \in 1 .. Len(waiters[e])
      PROVE  locking'[waiters[e][i]] = "waiting" /\ entry'[waiters[e][i]] = e
  <2>1. /\ waiters[e] \in Seq(Procs)
        /\ locking[waiters[e][i]] = "waiting" /\ entry[waiters[e][i]] = e
    BY DEF LocksQueues
  <2>2. waiters[e][i] \in Procs \ {p}
    BY <2>1
  <2> QED
    BY <1>1, <2>1, <2>2
<1> QED
  BY <1>2 DEF LocksQueues

LEMMA QueuesKept == LocksInv /\ LocksQueues /\ [Next]_vars => LocksQueues'
<1> SUFFICES ASSUME LocksInv, LocksQueues, [Locks!Next]_locksVars PROVE LocksQueues'
  BY LocksStep
<1>t. /\ locking \in [Procs -> Locks!Steps] /\ entry \in [Procs -> Entries \cup {None}]
      /\ waiters \in [Entries -> Seq(Procs)]
      /\ \A p \in Procs : locking[p] # "idle" => entry[p] \in Entries
  BY DEF LocksInv, LocksTypes, EntriesStay, LocksQueues
<1>1. CASE UNCHANGED locksVars
  BY <1>1 DEF locksVars, LocksQueues
<1>2. ASSUME NEW p \in Procs, NEW k \in Keys, Locks!Acquire(p, k) PROVE LocksQueues'
  <2>1. /\ locking[p] = "idle" /\ LocksMove(p, "asked") /\ waiters' = waiters
        /\ \E e \in Entries : entry' = [entry EXCEPT ![p] = e]
    BY <1>2 DEF Locks!Acquire, LocksMove
  <2>2. \A q \in Procs \ {p} : entry'[q] = entry[q]
    BY <1>t, <2>1
  <2> QED
    BY <1>t, <2>1, <2>2, QueueUntouched
<1>3. ASSUME NEW p \in Procs, Locks!Await(p) PROVE LocksQueues'
  <2> DEFINE e == entry[p]
  <2>1. /\ locking[p] = "asked" /\ locking' = [locking EXCEPT ![p] = "waiting"]
        /\ waiters' = [waiters EXCEPT ![e] = Append(@, p)] /\ entry' = entry
        /\ e \in Entries
    BY <1>3, <1>t DEF Locks!Await
  <2>2. \A q \in Procs : locking'[q] = IF q = p THEN "waiting" ELSE locking[q]
    BY <1>t, <2>1
  <2>3. /\ waiters[e] \in Seq(Procs) /\ Distinct(waiters[e])
        /\ \A i \in 1 .. Len(waiters[e]) : waiters[e][i] # p
    BY <1>t, <2>1 DEF LocksQueues
  <2>4. /\ Append(waiters[e], p) \in Seq(Procs) /\ Distinct(Append(waiters[e], p))
        /\ \A j \in 1 .. Len(Append(waiters[e], p)) :
             \/ Append(waiters[e], p)[j] = p
             \/ \E k \in 1 .. Len(waiters[e]) : Append(waiters[e], p)[j] = waiters[e][k]
    BY <2>3, JoinsQueue
  <2>5. /\ waiters' \in [Entries -> Seq(Procs)]
        /\ \A d \in Entries : waiters'[d] = IF d = e THEN Append(waiters[e], p) ELSE waiters[d]
    BY <1>t, <2>1, <2>4
  <2>6. ASSUME NEW d \in Entries, NEW i \in 1 .. Len(waiters[d])
        PROVE  locking'[waiters[d][i]] = "waiting" /\ entry'[waiters[d][i]] = d
    <3>1. /\ waiters[d] \in Seq(Procs) /\ waiters[d][i] \in Procs
          /\ locking[waiters[d][i]] = "waiting" /\ entry[waiters[d][i]] = d
      BY <1>t DEF LocksQueues
    <3> QED
      BY <2>1, <2>2, <3>1
  <2>7. ASSUME NEW d \in Entries
        PROVE  /\ Distinct(waiters'[d])
               /\ \A j \in 1 .. Len(waiters'[d]) :
                    locking'[waiters'[d][j]] = "waiting" /\ entry'[waiters'[d][j]] = d
    <3>1. CASE d = e
      <4>1. waiters'[d] = Append(waiters[e], p) /\ locking'[p] = "waiting" /\ entry'[p] = d
        BY <2>1, <2>2, <2>5, <3>1
      <4> QED
        BY <2>1, <2>4, <2>6, <3>1, <4>1
    <3>2. CASE d # e
      <4>1. waiters'[d] = waiters[d]
        BY <2>5, <3>2
      <4> QED
        BY <2>6, <4>1 DEF LocksQueues
    <3> QED
      BY <3>1, <3>2
  <2> QED
    BY <2>5, <2>7 DEF LocksQueues
<1>4. ASSUME NEW p \in Procs, Locks!GiveUp(p) PROVE LocksQueues'
  <2>1. /\ entry' = entry /\ LocksMove(p, "idle")
    BY <1>4 DEF Locks!GiveUp, Locks!RemoveReference, LocksMove
  <2>2. CASE locking[p] = "asked" /\ waiters' = waiters
    BY <1>t, <2>1, <2>2, QueueUntouched
  <2>3. CASE locking[p] = "waiting"
    <3> DEFINE e == entry[p]
    <3>1. e \in Entries /\ waiters[e] \in Seq(Procs) /\ Distinct(waiters[e])
      BY <1>t, <2>3 DEF LocksQueues
    <3>2. PICK i \in DOMAIN waiters[e] :
            /\ waiters[e][i] = p
            /\ waiters' = [waiters EXCEPT ![e] =
                             SubSeq(@, 1, i - 1) \o SubSeq(@, i + 1, Len(@))]
      BY <1>4, <2>3 DEF Locks!GiveUp
    <3>3. /\ i \in 1 .. Len(waiters[e])
          /\ waiters' = [waiters EXCEPT ![e] =
               SubSeq(waiters[e], 1, i - 1) \o SubSeq(waiters[e], i + 1, Len(waiters[e]))]
      BY <1>t, <3>1, <3>2
    <3> QED
      BY <1>t, <2>1, <2>3, <3>1, <3>2, <3>3, LeavesQueue, QueueLeft
  <2> QED
    BY <1>4, <2>2, <2>3 DEF Locks!GiveUp
<1>5. ASSUME NEW p \in Procs, Locks!Take(p) PROVE LocksQueues'
  <2> DEFINE e == entry[p]
  <2>1. /\ locking[p] = "waiting" /\ LocksMove(p, "took") /\ entry' = entry
        /\ p = Head(waiters[e]) /\ waiters' = [waiters EXCEPT ![e] = Tail(waiters[e])]
    BY <1>5 DEF Locks!Take, LocksMove
  <2>2. e \in Entries /\ waiters[e] \in Seq(Procs) /\ Distinct(waiters[e])
    BY <1>t, <2>1 DEF LocksQueues
  <2>3. Len(waiters[e]) # 0
    BY <1>5, <2>2 DEF Locks!Take
  <2>4. 1 \in 1 .. Len(waiters[e]) /\ waiters[e][1] = p
    BY <2>1, <2>2, <2>3
  <2> QED
    BY <1>t, <2>1, <2>2, <2>3, <2>4, HeadLeavesQueue, QueueLeft
<1>6. ASSUME NEW p \in Procs,
             Locks!Granted(p) \/ Locks!Refused(p) \/ Locks!Release(p) \/ Locks!Leave(p)
      PROVE  LocksQueues'
  <2>1. /\ locking[p] # "waiting" /\ waiters' = waiters /\ entry' = entry
        /\ \E x \in Locks!Steps : LocksMove(p, x)
    BY <1>6 DEF Locks!Granted, Locks!Refused, Locks!Release, Locks!Leave, Locks!RemoveReference,
       LocksMove, Locks!Steps
  <2> QED
    BY <1>t, <2>1, QueueUntouched
<1>7. ASSUME NEW p \in Procs, Locks!Poison(p) PROVE LocksQueues'
  BY <1>7 DEF Locks!Poison, LocksQueues
<1> QED
  BY <1>1, <1>2, <1>3, <1>4, <1>5, <1>6, <1>7 DEF Locks!Next

\* No edit goes beyond the bound on the versions of the profile.
CloudShort == Len(versions) <= MaxVersions

LEMMA CloudStaysShort == CloudInv /\ CloudShort /\ [Next]_vars => CloudShort'
<1> SUFFICES ASSUME CloudInv, CloudShort, [Next]_vars PROVE CloudShort'
  OBVIOUS
<1>1. versions \in Seq([cap : Caps, outcome : Cloud!Outcomes]) /\ MaxVersions \in Nat
  BY Constants DEF CloudInv, CloudTypes, Cloud!CloudConstants
<1>2. CASE \E cap \in Caps, outcome \in Cloud!Outcomes, on \in BOOLEAN :
             Cloud!UpdateProfile(cap, outcome, on)
  <2>1. PICK v \in [cap : Caps, outcome : Cloud!Outcomes] :
          versions' = Append(versions, v) /\ Len(versions) < MaxVersions
    BY <1>2 DEF Cloud!UpdateProfile
  <2> QED
    BY <1>1, <2>1 DEF CloudShort
<1>3. CASE versions' = versions
  BY <1>3 DEF CloudShort
<1>4. \/ versions' = versions
      \/ \E cap \in Caps, outcome \in Cloud!Outcomes, on \in BOOLEAN :
           Cloud!UpdateProfile(cap, outcome, on)
  <2>1. CASE UNCHANGED cloudVars
    BY <2>1 DEF cloudVars
  <2>2. CASE Cloud!Next
    BY <2>2 DEF Cloud!Next, Cloud!Admit, Cloud!OpenForm, Cloud!SetPaused, Cloud!Cancel,
       Cloud!TimeoutPasses, Cloud!Dispatch, Cloud!CompleteCancelled,
       Cloud!CompleteOverdue, Cloud!Release, Cloud!Start
  <2> QED
    BY <2>1, <2>2, CloudPart
<1> QED
  BY <1>2, <1>3, <1>4

\* The inductive invariants of all parts together.
WholeInv ==
  /\ SchedInv /\ RecoveryInv /\ EnrollInv /\ JournalInv /\ LocksInv /\ LocksQueues
  /\ CacheInv /\ EventsInv /\ CloudInv /\ CloudShort

\* Every part stays in its types, and whoever a lock's queue names waits for it, for any
\* number of processes, entries, versions, events and attempts.
THEOREM ProtocolTypesHold == Spec => []TypeOK
<1>1. Init => WholeInv
  <2> SUFFICES ASSUME Init PROVE WholeInv
    OBVIOUS
  <2>1. LocksQueues
    <3>1. Locks!Init
      BY DEF Init
    <3>2. waiters = [e \in Entries |-> <<>>] /\ <<>> \in Seq(Procs) /\ Len(<<>>) = 0
      BY <3>1 DEF Locks!Init
    <3> QED
      BY <3>2 DEF LocksQueues, Distinct
  <2>2. CloudShort
    <3>1. Cloud!Init /\ MaxVersions \in Nat \ {0}
      BY Constants DEF Init, Cloud!CloudConstants
    <3>2. PICK v : versions = <<v>>
      BY <3>1 DEF Cloud!Init
    <3> QED
      BY <3>1, <3>2 DEF CloudShort
  <2> QED
    BY <2>1, <2>2, SchedInit, RecoveryInit, EnrollInit, JournalInit, LocksInit, CacheInit,
       EventsInit, CloudInit DEF WholeInv
<1>2. WholeInv /\ [Next]_vars => WholeInv'
  <2> SUFFICES ASSUME WholeInv, [Next]_vars PROVE WholeInv'
    OBVIOUS
  <2>1. SchedInv' /\ RecoveryInv' /\ EnrollInv' /\ JournalInv'
    BY SchedStep, SchedKept, RecoveryKept, EnrollStep, EnrollKept, JournalStep, JournalKept
       DEF WholeInv
  <2>2. LocksInv' /\ LocksQueues' /\ CacheInv' /\ EventsInv'
    BY LocksStep, LocksKept, QueuesKept, CacheStep, CacheKept, EventsStep, EventsKept DEF WholeInv
  <2>3. CloudInv'
    <3>1. CASE Cloud!Next
      BY <3>1, CloudKept DEF WholeInv, CloudGoes
    <3>2. CASE UNCHANGED cloudVars
      BY <3>2 DEF WholeInv, cloudVars, CloudInv, CloudTypes, CloudKeepsLimits, Busy, Counted,
         CloudIn
    <3> QED
      BY <3>1, <3>2, CloudPart
  <2>4. CloudShort'
    BY CloudStaysShort DEF WholeInv
  <2> QED
    BY <2>1, <2>2, <2>3, <2>4 DEF WholeInv
<1>3. WholeInv => TypeOK
  <2> SUFFICES ASSUME WholeInv PROVE TypeOK
    OBVIOUS
  <2>1. Sched!TypeOK /\ Enroll!TypeOK /\ Cache!TypeOK /\ Events!TypeOK
    BY DEF WholeInv, SchedInv, SchedTypes, EnrollInv, EnrollTypes, CacheInv, EventsInv
  <2>2. Recovery!TypeOK
    BY RecoveryCardinality
       DEF WholeInv, RecoveryInv, RecoveryTypes, RecoverySteps, RunningNow, Recovery!TypeOK
  <2>3. Journal!TypeOK
    BY JournalCardinality
       DEF WholeInv, JournalInv, JournalTypes, JournalHeld, JournalEntries, JournalMine,
           Journal!Mine, Journal!TypeOK
  <2>4. Locks!TypeOK
    <3>1. \A e \in Entries : \A i \in DOMAIN waiters[e] : locking[waiters[e][i]] = "waiting"
      <4> SUFFICES ASSUME NEW e \in Entries, NEW i \in DOMAIN waiters[e]
                   PROVE  locking[waiters[e][i]] = "waiting"
        OBVIOUS
      <4>1. waiters[e] \in Seq(Procs)
        BY DEF WholeInv, LocksQueues
      <4>2. i \in 1 .. Len(waiters[e])
        BY <4>1
      <4> QED
        BY <4>2 DEF WholeInv, LocksQueues
    <3> QED
      BY <3>1 DEF WholeInv, LocksInv, LocksTypes, Locks!TypeOK
  <2>5. Cloud!TypeOK
    BY DEF WholeInv, CloudInv, CloudTypes, CloudShort, CloudStates, Cloud!TypeOK
  <2> QED
    BY <2>1, <2>2, <2>3, <2>4, <2>5 DEF TypeOK
<1> QED
  BY <1>1, <1>2, <1>3, PTL DEF Spec
=============================================================================
