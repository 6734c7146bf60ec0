---------------------------- MODULE ReaderProofs ----------------------------
(***************************************************************************)
(* The readers of a recording share its shards, for any number of readers  *)
(* and every recording: each shard is loaded once, stays while a reader is *)
(* at it, and goes with the last reader that leaves it.                    *)
(*                                                                         *)
(* The invariant says what the cache holds in terms of the cursors alone.  *)
(* A shard was loaded if some reader got to it or to the one before it; it *)
(* is resident until every reader has passed it; and the count kept with   *)
(* it is the number of readers that have.  A reader that is destroyed      *)
(* early has passed the shard it was at, and never passes another: the     *)
(* shards after it stay to the end, and none comes back.                   *)
(*                                                                         *)
(* The second half shows that every step is one of FlatReplay or none of   *)
(* its business.  What a reader was given is what it sees behind its       *)
(* cursor (InStep), and the cursor passes no row that the reader sees      *)
(* (NextRowFacts): moving it to another shard gives nothing, and giving    *)
(* out a row gives the first that is left.                                 *)
(***************************************************************************)
EXTENDS EventReader, FiniteSetTheorems, WellFoundedInduction, TLAPS

Shards == 1..Len(shards)

\* The last shard r has released, the readers that have released shard i, and
\* whether shard i was ever asked for.
Passed(r) == IF current[r] = 0 THEN next_index[r] - 1 ELSE current[r] - 1
Done(i) == {r \in Readers : i <= Passed(r)}
Reached(i) == \E r \in Readers : next_index[r] > 1 /\ i <= next_index[r]

\* Done once r has released the shard it is at.
After(r, i) == IF i = current[r] THEN Done(i) \cup {r} ELSE Done(i)

Typed ==
    /\ shards \in Seq(Seq(SUBSET Readers))
    /\ next_index \in [Readers -> 1..(Len(shards) + 1)]
    /\ current \in [Readers -> 0..Len(shards)]
    /\ state \in [Readers -> {"new", "scan", "row", "end", "gone"}]
    /\ loads \in [Shards -> Nat]
    /\ cache \in [DOMAIN cache -> Nat]
    /\ DOMAIN cache \subseteq Shards

Cursors ==
    \A r \in Readers :
        /\ current[r] # 0 => next_index[r] = current[r] + 1
        /\ state[r] = "new" => current[r] = 0 /\ next_index[r] = 1
        /\ state[r] \in {"scan", "row"} => current[r] # 0
        /\ state[r] = "end" => current[r] = 0 /\ next_index[r] = Len(shards) + 1

Loads == \A i \in Shards : loads[i] = IF Reached(i) THEN 1 ELSE 0

Resident ==
    \A i \in Shards :
        /\ i \in DOMAIN cache <=> Reached(i) /\ Done(i) # Readers
        /\ i \in DOMAIN cache => cache[i] = Cardinality(Done(i))

Inv == Typed /\ Cursors /\ Loads /\ Resident

-----------------------------------------------------------------------------
(* What release leaves in the cache.                                        *)

\* The readers that are done with a shard can be counted.
LEMMA DoneFinite ==
    ASSUME NEW i
    PROVE  /\ IsFiniteSet(Done(i))
           /\ Cardinality(Done(i)) \in Nat
<1>1. Done(i) \subseteq Readers /\ IsFiniteSet(Readers)
  BY ReaderAssumption DEF Done
<1>2. IsFiniteSet(Done(i))
  BY <1>1, FS_Subset
<1> QED BY <1>2, FS_CardinalityType

\* A reader that is new to a set completes it if the count says so.
LEMMA LastOne ==
    ASSUME NEW S, S \subseteq Readers, NEW r \in Readers, r \notin S
    PROVE  /\ Cardinality(S) \in Nat
           /\ Cardinality(S \cup {r}) = Cardinality(S) + 1
           /\ S \cup {r} = Readers <=> Cardinality(S) + 1 >= ConsumerCount
<1>1. IsFiniteSet(Readers) /\ ConsumerCount = Cardinality(Readers)
  BY ReaderAssumption, ConsumersAssumption
<1>2. IsFiniteSet(S) /\ Cardinality(S) \in Nat
  BY <1>1, FS_Subset, FS_CardinalityType
<1>3. Cardinality(S \cup {r}) = Cardinality(S) + 1
  BY <1>2, FS_AddElement
<1>4. S \cup {r} \subseteq Readers
  OBVIOUS
<1>5. /\ Cardinality(S \cup {r}) <= Cardinality(Readers)
      /\ Cardinality(S \cup {r}) = Cardinality(Readers) => S \cup {r} = Readers
  BY <1>1, <1>4, FS_Subset
<1>6. Cardinality(Readers) \in Nat
  BY <1>1, FS_CardinalityType
<1> QED BY <1>1, <1>2, <1>3, <1>5, <1>6

\* After release the cache holds what not every reader has passed, with the
\* releasing reader counted.
LEMMA ReleasedFacts ==
    ASSUME Inv, NEW r \in Readers, NEW kept, kept = Released(cache, current[r])
    PROVE  /\ kept \in [DOMAIN kept -> Nat]
           /\ DOMAIN kept \subseteq Shards
           /\ \A i \in Shards :
                /\ i \in DOMAIN kept <=> Reached(i) /\ After(r, i) # Readers
                /\ i \in DOMAIN kept => kept[i] = Cardinality(After(r, i))
<1> DEFINE k == current[r]
<1>0. /\ cache \in [DOMAIN cache -> Nat] /\ DOMAIN cache \subseteq Shards
      /\ Len(shards) \in Nat /\ k \in 0..Len(shards)
  BY DEF Inv, Typed
<1>1. CASE k = 0
  <2>1. k \notin DOMAIN cache /\ k \notin Shards
    BY <1>0, <1>1 DEF Shards
  <2>2. kept = cache
    BY <2>1 DEF Released
  <2>3. \A i \in Shards : After(r, i) = Done(i)
    BY <2>1 DEF After
  <2> QED BY <1>0, <2>2, <2>3 DEF Inv, Resident
<1>2. CASE k # 0
  <2>1. k \in Shards /\ next_index[r] = k + 1
    BY <1>0, <1>2 DEF Shards, Inv, Cursors
  <2>2. r \notin Done(k) /\ Done(k) \subseteq Readers
    BY <1>0, <1>2 DEF Done, Passed
  <2>3. Reached(k)
    BY <1>0, <1>2, <2>1 DEF Reached
  <2>4. k \in DOMAIN cache /\ cache[k] = Cardinality(Done(k))
    BY <2>1, <2>2, <2>3 DEF Inv, Resident
  <2>5. After(r, k) = Done(k) \cup {r}
    BY DEF After
  <2>6. /\ Cardinality(After(r, k)) = cache[k] + 1
        /\ After(r, k) = Readers <=> cache[k] + 1 >= ConsumerCount
    BY <2>2, <2>4, <2>5, LastOne
  <2>7. \A i \in Shards : i # k => After(r, i) = Done(i)
    BY DEF After
  <2>8. CASE cache[k] + 1 >= ConsumerCount
    <3>1. kept = [j \in DOMAIN cache \ {k} |-> cache[j]]
      BY <2>4, <2>8 DEF Released
    <3> QED BY <1>0, <2>6, <2>7, <2>8, <3>1 DEF Inv, Resident
  <2>9. CASE ~(cache[k] + 1 >= ConsumerCount)
    <3>1. kept = [cache EXCEPT ![k] = @ + 1]
      BY <2>4, <2>9 DEF Released
    <3>2. kept[k] = cache[k] + 1 /\ DOMAIN kept = DOMAIN cache
      BY <1>0, <2>4, <3>1
    <3>3. kept \in [DOMAIN kept -> Nat]
      BY <1>0, <2>4, <3>1
    <3>4. \A i \in DOMAIN cache : i # k => kept[i] = cache[i]
      BY <1>0, <3>1
    <3> HIDE DEF k
    <3>5. ASSUME NEW i \in Shards
          PROVE  /\ i \in DOMAIN kept <=> Reached(i) /\ After(r, i) # Readers
                 /\ i \in DOMAIN kept => kept[i] = Cardinality(After(r, i))
      <4>1. CASE i = k
        BY <4>1, <2>3, <2>4, <2>6, <2>9, <3>2
      <4>2. CASE i # k
        BY <4>2, <2>7, <3>2, <3>4 DEF Inv, Resident
      <4> QED BY <4>1, <4>2
    <3> QED BY <1>0, <3>2, <3>3, <3>5
  <2> QED BY <2>8, <2>9
<1> QED BY <1>1, <1>2

-----------------------------------------------------------------------------
(* The steps.                                                               *)

\* Only r's cursor moves and the shard it was at is released: the readers that
\* are done with a shard are those that After gives.
LEMMA DoneMoves ==
    ASSUME Inv, NEW r \in Readers,
           \A s \in Readers \ {r} : Passed(s)' = Passed(s),
           Passed(r)' = next_index[r] - 1,
           NEW i \in Shards
    PROVE  Done(i)' = After(r, i)
<1>1. /\ next_index[r] \in Nat /\ current[r] \in Nat /\ i \in Nat
      /\ current[r] # 0 => next_index[r] = current[r] + 1
  BY DEF Inv, Typed, Cursors, Shards
<1>2. i <= Passed(r)' <=> i <= Passed(r) \/ i = current[r]
  <2>1. CASE current[r] = 0
    BY <1>1, <2>1 DEF Passed, Shards
  <2>2. CASE current[r] # 0
    <3>1. Passed(r)' = current[r] /\ Passed(r) = current[r] - 1
      BY <1>1, <2>2 DEF Passed
    <3> QED BY <1>1, <3>1
  <2> QED BY <2>1, <2>2
<1>3. Done(i)' = {s \in Readers : i <= Passed(s)'}
  BY DEF Done
<1>4. \A s \in Readers : i <= Passed(s)' <=>
                           i <= Passed(s) \/ (s = r /\ i = current[r])
  BY <1>2
<1>5. After(r, i) = {s \in Readers : i <= Passed(s) \/ (s = r /\ i = current[r])}
  BY DEF After, Done
<1> QED BY <1>3, <1>4, <1>5

\* Init puts every reader before the first shard, and nothing is loaded.
LEMMA InitInv == Init => Inv
<1> SUFFICES ASSUME Init PROVE Inv
  OBVIOUS
<1>1. shards \in Seq(Seq(SUBSET Readers)) /\ Len(shards) \in Nat
  BY ReaderAssumption DEF Init
<1>2. Typed
  BY <1>1 DEF Init, Typed, Shards
<1>3. Cursors
  BY DEF Init, Cursors
<1>4. \A i : ~Reached(i)
  BY DEF Init, Reached
<1>5. Loads /\ Resident
  BY <1>4 DEF Init, Loads, Resident, Shards
<1> QED BY <1>2, <1>3, <1>5 DEF Inv

\* A row is given out: no cursor on the shards moves.
LEMMA ProcessesInv ==
    ASSUME Inv, NEW r \in Readers, Processes(r)
    PROVE  Inv'
<1>1. /\ state' \in [Readers -> {"new", "scan", "row", "end", "gone"}]
      /\ \A s \in Readers : \/ state'[s] = state[s]
                            \/ state[s] = "row" /\ state'[s] \in {"scan", "row"}
  BY DEF Processes, Inv, Typed
<1>2. UNCHANGED <<shards, cache, loads, next_index, current>>
  BY DEF Processes, cacheVars
<1>3. Typed'
  BY <1>1, <1>2 DEF Inv, Typed, Shards
<1>4. Cursors'
  BY <1>1, <1>2 DEF Inv, Cursors
<1>5. Loads' /\ Resident'
  BY <1>2 DEF Inv, Loads, Resident, Reached, Done, Passed, Shards
<1> QED BY <1>3, <1>4, <1>5 DEF Inv

\* A reader leaves its shard for good, at the end of data or before: the shard
\* is released and no other is touched.
LEMMA LeavesInv ==
    ASSUME Inv, NEW r \in Readers, NEW s \in {"end", "gone"},
           cache' = Released(cache, current[r]),
           current' = [current EXCEPT ![r] = 0],
           state' = [state EXCEPT ![r] = s],
           UNCHANGED <<shards, loads, next_index>>,
           s = "end" => next_index[r] > Len(shards)
    PROVE  Inv'
<1>1. Typed'
  BY ReleasedFacts DEF Inv, Typed, Shards
<1>2. Cursors'
  <2>1. current'[r] = 0 /\ state'[r] = s
    BY DEF Inv, Typed
  <2>2. s = "end" => next_index'[r] = Len(shards') + 1
    BY DEF Inv, Typed
  <2>3. \A other \in Readers \ {r} : /\ current'[other] = current[other]
                                    /\ state'[other] = state[other]
    BY DEF Inv, Typed
  <2> QED BY <2>1, <2>2, <2>3 DEF Inv, Cursors
<1>3. \A i \in Shards : Done(i)' = After(r, i)
  <2>1. \A other \in Readers \ {r} : Passed(other)' = Passed(other)
    BY DEF Passed, Inv, Typed
  <2>2. Passed(r)' = next_index[r] - 1
    BY DEF Passed, Inv, Typed
  <2> QED BY <2>1, <2>2, DoneMoves
<1>4. \A i : Reached(i)' = Reached(i)
  BY DEF Reached
<1>5. Shards' = Shards
  BY DEF Shards
<1>6. Loads'
  BY <1>4, <1>5 DEF Inv, Loads
<1>7. Resident'
  <2> SUFFICES ASSUME NEW i \in Shards
               PROVE  /\ i \in DOMAIN cache' <=> Reached(i)' /\ Done(i)' # Readers
                      /\ i \in DOMAIN cache' => cache'[i] = Cardinality(Done(i)')
    BY <1>5 DEF Resident
  <2>1. Done(i)' = After(r, i) /\ Reached(i)' = Reached(i)
    BY <1>3, <1>4
  <2> QED BY <2>1, ReleasedFacts
<1> QED BY <1>1, <1>2, <1>6, <1>7 DEF Inv

\* A reader goes to its next shard: that one and the one behind it become
\* resident unless they are, and no reader was done with either.
LEMMA ReadsNextInv ==
    ASSUME Inv, NEW r \in Readers, ReadsShard(r), next_index[r] <= Len(shards)
    PROVE  Inv'
<1> DEFINE n == next_index[r]
<1>1. PICK kept : kept = Released(cache, current[r])
  OBVIOUS
<1>2. /\ cache' = Loaded(kept, n)
      /\ loads' = [j \in DOMAIN loads |-> IF j \in Wanted(n) \ DOMAIN kept
                                          THEN loads[j] + 1 ELSE loads[j]]
      /\ next_index' = [next_index EXCEPT ![r] = n + 1]
      /\ current' = [current EXCEPT ![r] = n]
      /\ shards' = shards
      /\ \E s \in {"scan", "row"} : state' = [state EXCEPT ![r] = s]
  <2>1. ~(n > Len(shards))
    BY DEF Inv, Typed
  <2> QED BY <1>1, <2>1 DEF ReadsShard
<1> /\ state'[r] \in {"scan", "row"}
    /\ state' \in [Readers -> {"new", "scan", "row", "end", "gone"}]
    /\ \A s \in Readers \ {r} : state'[s] = state[s]
  BY <1>2 DEF Inv, Typed
<1>3. /\ n \in Shards /\ Len(shards) \in Nat
      /\ Wanted(n) \subseteq Shards /\ n \in Wanted(n)
      /\ \A i \in Wanted(n) : i = n \/ i = n + 1
      /\ \A i \in Shards : i \in {n, n + 1} => i \in Wanted(n)
      /\ Shards \subseteq Nat
  BY DEF Inv, Typed, Shards, Wanted
<1>4. Shards' = Shards
  BY <1>2 DEF Shards
<1>5. /\ kept \in [DOMAIN kept -> Nat] /\ DOMAIN kept \subseteq Shards
      /\ \A i \in Shards :
           /\ i \in DOMAIN kept <=> Reached(i) /\ After(r, i) # Readers
           /\ i \in DOMAIN kept => kept[i] = Cardinality(After(r, i))
  BY <1>1, ReleasedFacts
<1>6. /\ DOMAIN cache' = DOMAIN kept \cup Wanted(n)
      /\ \A j \in DOMAIN cache' : cache'[j] = IF j \in DOMAIN kept THEN kept[j] ELSE 0
      /\ cache' \in [DOMAIN cache' -> Nat]
  BY <1>2, <1>5 DEF Loaded
<1>7. Typed'
  <2>1. DOMAIN cache' \subseteq Shards
    BY <1>3, <1>5, <1>6
  <2>2. loads' \in [Shards -> Nat]
    BY <1>2 DEF Inv, Typed
  <2>3. /\ next_index' \in [Readers -> 1..(Len(shards) + 1)]
        /\ current' \in [Readers -> 0..Len(shards)]
    BY <1>2, <1>3 DEF Inv, Typed, Shards
  <2> QED BY <1>2, <1>4, <1>6, <2>1, <2>2, <2>3 DEF Inv, Typed
<1>8. Cursors'
  <2>1. current'[r] = n /\ next_index'[r] = n + 1 /\ n # 0
    BY <1>2, <1>3 DEF Inv, Typed, Shards
  <2>2. \A s \in Readers \ {r} : current'[s] = current[s] /\ next_index'[s] = next_index[s]
    BY <1>2 DEF Inv, Typed
  <2> QED BY <1>2, <2>1, <2>2 DEF Inv, Cursors
<1>9. \A i \in Shards : Done(i)' = After(r, i)
  <2>1. \A s \in Readers \ {r} : Passed(s)' = Passed(s)
    BY <1>2 DEF Passed, Inv, Typed
  <2>2. Passed(r)' = next_index[r] - 1
    BY <1>2, <1>3 DEF Passed, Inv, Typed
  <2> QED BY <2>1, <2>2, DoneMoves
<1>10. \A i \in Shards : Reached(i)' <=> Reached(i) \/ i \in Wanted(n)
  <2>1. \A s \in Readers : /\ next_index[s] \in Nat
                           /\ next_index'[s] = IF s = r THEN n + 1 ELSE next_index[s]
    BY <1>2 DEF Inv, Typed
  <2>2. n \in Nat /\ n >= 1
    BY <1>3 DEF Shards
  <2> SUFFICES ASSUME NEW i \in Shards
               PROVE  Reached(i)' <=> Reached(i) \/ i \in Wanted(n)
    OBVIOUS
  <2>3. i \in Nat /\ i >= 1
    BY <1>3 DEF Shards
  <2>4. ASSUME Reached(i)' PROVE Reached(i) \/ i \in Wanted(n)
    <3>1. PICK s \in Readers : next_index'[s] > 1 /\ i <= next_index'[s]
      BY <2>4 DEF Reached
    <3>2. CASE s # r
      BY <2>1, <3>1, <3>2 DEF Reached
    <3>3. CASE s = r /\ i < n
      BY <2>2, <2>3, <3>3 DEF Reached
    <3>4. CASE s = r /\ ~(i < n)
      BY <1>3, <2>1, <2>2, <2>3, <3>1, <3>4
    <3> QED BY <3>2, <3>3, <3>4
  <2>5. ASSUME Reached(i) PROVE Reached(i)'
    <3>1. PICK s \in Readers : next_index[s] > 1 /\ i <= next_index[s]
      BY <2>5 DEF Reached
    <3>2. next_index'[s] > 1 /\ i <= next_index'[s]
      BY <2>1, <2>2, <2>3, <3>1
    <3> QED BY <3>2 DEF Reached
  <2>6. ASSUME i \in Wanted(n) PROVE Reached(i)'
    <3>1. next_index'[r] > 1 /\ i <= next_index'[r]
      BY <1>3, <2>1, <2>2, <2>3, <2>6
    <3> QED BY <3>1 DEF Reached
  <2> QED BY <2>4, <2>5, <2>6
<1>11. \A i \in Wanted(n) : r \notin After(r, i)
  <2>1. /\ current[r] # 0 => n = current[r] + 1
        /\ current[r] \in Nat /\ n \in Nat /\ n >= 1
    BY DEF Inv, Typed, Cursors
  <2>2. \A i \in Wanted(n) : i >= n /\ i \in Nat
    BY <1>3, <2>1
  <2>3. \A i \in Wanted(n) : i # current[r] /\ ~(i <= Passed(r))
    BY <2>1, <2>2 DEF Passed
  <2> QED BY <2>3 DEF After, Done
<1>12. \A i \in Shards : ~Reached(i) => Done(i) = {} /\ i # current[r]
  <2> SUFFICES ASSUME NEW i \in Shards, ~Reached(i)
               PROVE  Done(i) = {} /\ i # current[r]
    OBVIOUS
  <2>1. i \in Nat /\ i >= 1
    BY <1>3 DEF Shards
  <2>2. \A s \in Readers : /\ next_index[s] \in Nat /\ current[s] \in Nat
                           /\ current[s] # 0 => next_index[s] = current[s] + 1
                           /\ ~(next_index[s] > 1 /\ i <= next_index[s])
    BY DEF Inv, Typed, Cursors, Reached
  <2>3. \A s \in Readers : ~(i <= Passed(s))
    BY <2>1, <2>2 DEF Passed
  <2> QED BY <2>1, <2>2, <2>3 DEF Done
<1>13. \A i \in Wanted(n) : i \notin DOMAIN kept <=> ~Reached(i)
  BY <1>3, <1>5, <1>11
<1> HIDE DEF n
<1>14. Loads'
  <2> SUFFICES ASSUME NEW i \in Shards
               PROVE  loads'[i] = IF Reached(i)' THEN 1 ELSE 0
    BY <1>4 DEF Loads
  <2>1. loads[i] = (IF Reached(i) THEN 1 ELSE 0) /\ i \in DOMAIN loads
    BY DEF Inv, Loads, Typed
  <2>2. loads'[i] = IF i \in Wanted(n) \ DOMAIN kept THEN loads[i] + 1 ELSE loads[i]
    BY <1>2, <2>1
  <2>3. Reached(i)' <=> Reached(i) \/ i \in Wanted(n)
    BY <1>10
  <2>4. i \in Wanted(n) => (i \notin DOMAIN kept <=> ~Reached(i))
    BY <1>13
  <2> QED BY <2>1, <2>2, <2>3, <2>4
<1>15. Resident'
  <2> SUFFICES ASSUME NEW i \in Shards
               PROVE  /\ i \in DOMAIN cache' <=> Reached(i)' /\ Done(i)' # Readers
                      /\ i \in DOMAIN cache' => cache'[i] = Cardinality(Done(i)')
    BY <1>4 DEF Resident
  <2>1. Done(i)' = After(r, i) /\ (Reached(i)' <=> Reached(i) \/ i \in Wanted(n))
    BY <1>9, <1>10
  <2>2. CASE i \in DOMAIN kept
    BY <1>5, <1>6, <2>1, <2>2
  <2>3. CASE i \notin DOMAIN kept /\ i \notin Wanted(n)
    BY <1>5, <1>6, <2>1, <2>3
  <2>4. CASE i \notin DOMAIN kept /\ i \in Wanted(n)
    <3>1. ~Reached(i)
      BY <1>13, <2>4
    <3>2. After(r, i) = {}
      BY <1>12, <3>1 DEF After
    <3>3. Cardinality({}) = 0
      BY FS_EmptySet
    <3> QED BY <1>6, <2>1, <2>4, <3>2, <3>3
  <2> QED BY <2>2, <2>3, <2>4
<1> QED BY <1>7, <1>8, <1>14, <1>15 DEF Inv

\* The invariant is kept by every step.
LEMMA InvStep == Inv /\ [Next]_vars => Inv'
<1> SUFFICES ASSUME Inv, [Next]_vars PROVE Inv'
  OBVIOUS
<1>1. ASSUME NEW r \in Readers, ReadsShard(r) PROVE Inv'
  <2>1. next_index[r] \in Nat /\ Len(shards) \in Nat
    BY DEF Inv, Typed
  <2>2. CASE next_index[r] > Len(shards)
    <3>1. /\ cache' = Released(cache, current[r])
          /\ current' = [current EXCEPT ![r] = 0]
          /\ state' = [state EXCEPT ![r] = "end"]
          /\ UNCHANGED <<shards, loads, next_index>>
      BY <1>1, <2>2 DEF ReadsShard
    <3> QED BY <2>2, <3>1, LeavesInv
  <2>3. CASE next_index[r] <= Len(shards)
    BY <1>1, <2>3, ReadsNextInv
  <2> QED BY <2>1, <2>2, <2>3
<1>2. ASSUME NEW r \in Readers, Processes(r) PROVE Inv'
  BY <1>2, ProcessesInv
<1>3. ASSUME NEW r \in Readers, Goes(r) PROVE Inv'
  <2>1. /\ cache' = Released(cache, current[r])
        /\ current' = [current EXCEPT ![r] = 0]
        /\ state' = [state EXCEPT ![r] = "gone"]
        /\ UNCHANGED <<shards, loads, next_index>>
    BY <1>3 DEF Goes
  <2> QED BY <2>1, LeavesInv
<1>4. CASE UNCHANGED vars
  <2>1. UNCHANGED <<shards, cache, loads, next_index, current, state>>
    BY <1>4 DEF vars, cacheVars, readerVars
  <2>2. Typed' /\ Cursors'
    BY <2>1 DEF Inv, Typed, Cursors, Shards
  <2>3. Loads' /\ Resident'
    BY <2>1 DEF Inv, Loads, Resident, Reached, Done, Passed, Shards
  <2> QED BY <2>2, <2>3 DEF Inv
<1>5. CASE Ended
  BY <1>4, <1>5 DEF Ended
<1> QED BY <1>1, <1>2, <1>3, <1>4, <1>5 DEF Next

\* EventReaderCache: what is resident, with which count, and what was loaded
\* follow from the cursors of the readers.
THEOREM Sharing == Spec => []Inv
  BY InitInv, InvStep, PTL DEF Spec

-----------------------------------------------------------------------------
(* What the runs check.                                                     *)

\* EventReaderCache: no shard is loaded a second time, however far one reader
\* is ahead of another and whoever is destroyed on the way.
THEOREM NeverReloaded == Spec => []LoadedOnce
<1>1. Inv => LoadedOnce
  <2> SUFFICES ASSUME Inv, NEW i \in DOMAIN loads PROVE loads[i] <= 1
    BY DEF LoadedOnce
  <2>1. loads[i] = IF Reached(i) THEN 1 ELSE 0
    BY DEF Inv, Typed, Loads
  <2> QED BY <2>1
<1> QED BY <1>1, Sharing, PTL

\* EventReader: the shard a reader is at is in the cache.
THEOREM NeverPulledAway == Spec => []HeldIsResident
<1>1. Inv => HeldIsResident
  <2> SUFFICES ASSUME Inv, NEW r \in Readers, current[r] # 0
               PROVE  current[r] \in DOMAIN cache
    BY DEF HeldIsResident
  <2>1. /\ current[r] \in Shards /\ next_index[r] = current[r] + 1
        /\ Passed(r) = current[r] - 1
    BY DEF Inv, Typed, Cursors, Shards, Passed
  <2>2. Reached(current[r])
    BY <2>1 DEF Reached, Shards
  <2>3. r \notin Done(current[r])
    BY <2>1 DEF Done, Shards
  <2> QED BY <2>1, <2>2, <2>3 DEF Inv, Resident
<1> QED BY <1>1, Sharing, PTL

\* EventReaderCache: what is resident lies between the slowest reader and the
\* shard after the fastest, and the end of data leaves nothing.
THEOREM NothingLeftBehind == Spec => []ResidencyBounded
<1>1. Inv => ResidencyBounded
  <2> SUFFICES ASSUME Inv PROVE ResidencyBounded
    OBVIOUS
  <2>0. /\ \A r \in Readers : /\ next_index[r] \in Nat /\ current[r] \in Nat
                              /\ current[r] # 0 => next_index[r] = current[r] + 1
        /\ DOMAIN cache \subseteq Shards /\ Shards \subseteq Nat
        /\ Len(shards) \in Nat
    BY DEF Inv, Typed, Cursors, Shards
  <2>1. ASSUME NEW i \in DOMAIN cache
        PROVE  \E slow, fast \in Readers :
                  next_index[slow] - 1 <= i /\ i <= next_index[fast]
    <3>1. Reached(i) /\ Done(i) # Readers /\ i \in Nat
      BY <2>0 DEF Inv, Resident
    <3>2. PICK fast \in Readers : i <= next_index[fast]
      BY <3>1 DEF Reached
    <3>3. PICK slow \in Readers : ~(i <= Passed(slow))
      BY <3>1 DEF Done
    <3>4. next_index[slow] - 1 <= i
      BY <2>0, <3>1, <3>3 DEF Passed
    <3> QED BY <3>2, <3>4
  <2>2. ASSUME \A r \in Readers : state[r] = "end"
        PROVE  cache = [i \in {} |-> 0]
    <3>1. \A r \in Readers : Passed(r) = Len(shards)
      BY <2>0, <2>2 DEF Passed, Inv, Cursors
    <3>2. \A i \in Shards : Done(i) = Readers
      BY <3>1 DEF Done, Shards
    <3>3. DOMAIN cache = {}
      BY <2>0, <3>2 DEF Inv, Resident
    <3>4. cache = [i \in DOMAIN cache |-> cache[i]]
      BY DEF Inv, Typed
    <3> QED BY <3>3, <3>4
  <2> QED BY <2>1, <2>2 DEF ResidencyBounded
<1> QED BY <1>1, Sharing, PTL

-----------------------------------------------------------------------------
(* What the readers are given.                                              *)

\* The rows before r's cursor: those of the shards it has left, and of the one it
\* is at those before the row it waits for.
Behind(r, at) ==
    IF state[r] = "row" THEN Flat!IsBefore(at, <<current[r], row[r]>>)
                        ELSE at[1] < next_index[r]

\* A reader was given what it sees behind its cursor.
InStep ==
    /\ log \in [Readers -> Seq(Nat \X Nat)]
    /\ row \in [Readers -> Nat]
    /\ \A r \in Readers : state[r] # "gone" =>
          /\ state[r] = "row" => <<current[r], row[r]>> \in Flat!Visible(r)
          /\ \A at \in Flat!Visible(r) : at \in Flat!Given(r) <=> Behind(r, at)

\* A nonempty set of naturals has a least element.
LEMMA LeastElement ==
    ASSUME NEW T \in SUBSET Nat, T # {}
    PROVE  \E x \in T : \A y \in T : x <= y
<1>1. PICK x \in T : \A y \in T : <<y, x>> \notin OpToRel(<, Nat)
  BY WFMin, NatLessThanWellFounded, Zenon
<1>2. ASSUME NEW y \in T PROVE x <= y
  <2>1. ~(y < x)
    BY <1>1, Zenon DEF OpToRel
  <2> QED BY <2>1
<1> QED BY <1>2

\* A row is seen if its shard says so.
LEMMA VisibleFacts ==
    ASSUME Typed, NEW r \in Readers
    PROVE  /\ \A i, j : <<i, j>> \in Flat!Visible(r) <=>
                          /\ i \in Shards
                          /\ j \in 1..Len(shards[i])
                          /\ r \in shards[i][j]
           /\ \A at \in Flat!Visible(r) : /\ at = <<at[1], at[2]>>
                                         /\ at[1] \in Nat /\ at[2] \in Nat
<1>1. /\ Len(shards) \in Nat
      /\ \A i \in Shards : Len(shards[i]) \in Nat
  BY DEF Typed, Shards
<1>2. \A at : at \in Flat!Rows <=>
         \E i \in Shards : \E j \in 1..Len(shards[i]) : at = <<i, j>>
  <2> SUFFICES ASSUME NEW at
               PROVE  at \in Flat!Rows <=>
                        \E i \in Shards : \E j \in 1..Len(shards[i]) : at = <<i, j>>
    OBVIOUS
  <2>1. at \in Flat!Rows <=>
           \E i \in Shards : at \in {<<i, j>> : j \in 1..Len(shards[i])}
    BY DEF Flat!Rows, Shards
  <2> QED BY <2>1
<1>3. ASSUME NEW i, NEW j
      PROVE  <<i, j>> \in Flat!Rows <=> i \in Shards /\ j \in 1..Len(shards[i])
  BY <1>2
<1>4. \A i, j : <<i, j>> \in Flat!Visible(r) <=>
                  <<i, j>> \in Flat!Rows /\ r \in shards[i][j]
  BY DEF Flat!Visible
<1>5. ASSUME NEW at \in Flat!Visible(r)
      PROVE  at = <<at[1], at[2]>> /\ at[1] \in Nat /\ at[2] \in Nat
  <2>1. PICK i \in Shards : \E j \in 1..Len(shards[i]) : at = <<i, j>>
    BY <1>2 DEF Flat!Visible
  <2>2. PICK j \in 1..Len(shards[i]) : at = <<i, j>>
    BY <2>1
  <2> QED BY <1>1, <2>2 DEF Shards
<1> QED BY <1>3, <1>4, <1>5

\* What NextRow finds.
LEMMA NextRowFacts ==
    ASSUME Typed, NEW r \in Readers, NEW i \in Shards, NEW start \in Nat,
           NEW n, n = NextRow(r, i, start)
    PROVE  /\ n \in Nat
           /\ n # 0 => n > start /\ <<i, n>> \in Flat!Visible(r)
           /\ \A j : <<i, j>> \in Flat!Visible(r) /\ j > start => n # 0 /\ n <= j
<1> DEFINE seen == {j \in 1..Len(shards[i]) : j > start /\ r \in shards[i][j]}
<1>1. \A j : j \in seen <=> <<i, j>> \in Flat!Visible(r) /\ j > start
  BY VisibleFacts
<1>2. seen \in SUBSET Nat /\ 0 \notin seen
  BY DEF Typed, Shards
<1>3. n = IF seen = {} THEN 0 ELSE CHOOSE j \in seen : \A k \in seen : j <= k
  BY DEF NextRow
<1> HIDE DEF seen
<1>4. CASE seen = {}
  BY <1>1, <1>3, <1>4
<1>5. CASE seen # {}
  <2>1. \E j \in seen : \A k \in seen : j <= k
    BY <1>2, <1>5, LeastElement
  <2>2. n \in seen /\ \A k \in seen : n <= k
    BY <1>3, <1>5, <2>1, Zenon
  <2> QED BY <1>1, <1>2, <2>2
<1> QED BY <1>4, <1>5

LEMMA InitFlat == Init => Flat!Init /\ InStep
<1> SUFFICES ASSUME Init PROVE Flat!Init /\ InStep
  OBVIOUS
<1>1. Flat!Init
  BY DEF Init, Flat!Init
<1>2. Typed
  BY InitInv DEF Inv
<1>3. ASSUME NEW r \in Readers, NEW at \in Flat!Visible(r)
      PROVE  at \in Flat!Given(r) <=> Behind(r, at)
  <2>1. at[1] \in Shards
    BY <1>2, VisibleFacts
  <2>2. ~(at[1] < next_index[r]) /\ state[r] = "new"
    BY <2>1 DEF Init, Shards
  <2>3. Flat!Given(r) = {}
    BY DEF Flat!Given, Init
  <2> QED BY <2>2, <2>3 DEF Behind
<1>4. InStep
  BY <1>3 DEF InStep, Init
<1> QED BY <1>1, <1>4

\* Only r's cursor moves, and r was given what it sees behind it.
LEMMA InStepMoves ==
    ASSUME Inv, InStep, NEW r \in Readers,
           shards' = shards,
           log' \in [Readers -> Seq(Nat \X Nat)],
           row' \in [Readers -> Nat],
           \A other \in Readers \ {r} :
              /\ state'[other] = state[other] /\ current'[other] = current[other]
              /\ next_index'[other] = next_index[other]
              /\ row'[other] = row[other] /\ log'[other] = log[other],
           state'[r] = "row" => <<current'[r], row'[r]>> \in Flat!Visible(r),
           state'[r] # "gone" =>
              \A at \in Flat!Visible(r) : at \in Flat!Given(r)' <=> Behind(r, at)'
    PROVE  InStep'
<1>1. \A s \in Readers : Flat!Visible(s)' = Flat!Visible(s)
  BY DEF Flat!Visible, Flat!Rows
<1>2. ASSUME NEW s \in Readers, state'[s] # "gone"
      PROVE  /\ state'[s] = "row" => <<current'[s], row'[s]>> \in Flat!Visible(s)'
             /\ \A at \in Flat!Visible(s)' : at \in Flat!Given(s)' <=> Behind(s, at)'
  <2>1. CASE s = r
    BY <1>1, <1>2, <2>1
  <2>2. CASE s # r
    <3>1. Flat!Given(s)' = Flat!Given(s) /\ \A at : Behind(s, at)' <=> Behind(s, at)
      BY <2>2 DEF Flat!Given, Behind, Flat!IsBefore
    <3>2. /\ state[s] = "row" => <<current[s], row[s]>> \in Flat!Visible(s)
          /\ \A at \in Flat!Visible(s) : at \in Flat!Given(s) <=> Behind(s, at)
      BY <1>2, <2>2 DEF InStep
    <3> QED BY <1>1, <2>2, <3>1, <3>2
  <2> QED BY <2>1, <2>2
<1> QED BY <1>2 DEF InStep

\* A reader goes to its next shard: nothing is given, and its cursor passes no row
\* that it sees.
LEMMA ReadsShardFlat ==
    ASSUME Inv, InStep, NEW r \in Readers, ReadsShard(r)
    PROVE  UNCHANGED Flat!vars /\ InStep'
<1>1. PICK s \in {"scan", "row", "end"} : state' = [state EXCEPT ![r] = s]
  BY DEF ReadsShard
<1>2. /\ state[r] \in {"new", "scan"} /\ state'[r] = s
      /\ \A other \in Readers \ {r} : state'[other] = state[other]
  BY <1>1 DEF ReadsShard, Inv, Typed
<1>3. UNCHANGED <<shards, log>>
  BY DEF ReadsShard
<1>4. (\E other \in Readers : state'[other] = "gone")
         <=> (\E other \in Readers : state[other] = "gone")
  BY <1>1, <1>2
<1>5. UNCHANGED Flat!vars
  BY <1>3, <1>4 DEF Flat!vars
<1>6. PICK i \in Nat : i = next_index[r]
  BY DEF Inv, Typed
<1>7. Flat!Given(r)' = Flat!Given(r)
  BY <1>3 DEF Flat!Given
<1>8. \A at \in Flat!Visible(r) : at \in Flat!Given(r) <=> at[1] < i
  BY <1>2, <1>6 DEF InStep, Behind
<1>9. Len(shards) \in Nat
  BY DEF Inv, Typed
<1>10. CASE i > Len(shards)
  <2>1. /\ row' = [row EXCEPT ![r] = 0]
        /\ current' = [current EXCEPT ![r] = 0]
        /\ state' = [state EXCEPT ![r] = "end"]
        /\ next_index' = next_index
    BY <1>6, <1>10 DEF ReadsShard
  <2>2. state'[r] = "end" /\ next_index'[r] = i
    BY <1>6, <2>1 DEF Inv, Typed
  <2>3. \A at \in Flat!Visible(r) : at \in Flat!Given(r)' <=> Behind(r, at)'
    BY <1>7, <1>8, <2>2 DEF Behind
  <2>4. log' \in [Readers -> Seq(Nat \X Nat)] /\ row' \in [Readers -> Nat]
    BY <1>3, <2>1 DEF InStep
  <2>5. \A other \in Readers \ {r} :
           /\ current'[other] = current[other] /\ row'[other] = row[other]
           /\ next_index'[other] = next_index[other] /\ log'[other] = log[other]
    BY <1>3, <2>1 DEF Inv, Typed, InStep
  <2> QED BY <1>2, <1>3, <1>5, <2>2, <2>3, <2>4, <2>5, InStepMoves
<1>11. CASE ~(i > Len(shards))
  <2> DEFINE n == NextRow(r, i, 0)
  <2>1. i \in Shards
    BY <1>6, <1>9, <1>11 DEF Shards, Inv, Typed
  <2>2. /\ n \in Nat
        /\ n # 0 => <<i, n>> \in Flat!Visible(r)
        /\ \A j : <<i, j>> \in Flat!Visible(r) /\ j > 0 => n # 0 /\ n <= j
    BY <2>1, NextRowFacts DEF Inv
  <2>3. /\ row' = [row EXCEPT ![r] = n]
        /\ current' = [current EXCEPT ![r] = i]
        /\ next_index' = [next_index EXCEPT ![r] = i + 1]
        /\ state' = [state EXCEPT ![r] = IF row'[r] = 0 THEN "scan" ELSE "row"]
    BY <1>6, <1>11 DEF ReadsShard
  <2> HIDE DEF n
  <2>4. /\ row'[r] = n /\ current'[r] = i /\ next_index'[r] = i + 1
        /\ state'[r] = IF n = 0 THEN "scan" ELSE "row"
    BY <2>3 DEF Inv, Typed, InStep
  <2>5. ASSUME NEW at \in Flat!Visible(r)
        PROVE  at[1] < i <=> Behind(r, at)'
    <3>1. /\ at = <<at[1], at[2]>> /\ at[1] \in Nat /\ at[2] \in Nat
          /\ at[2] > 0
      BY VisibleFacts DEF Inv
    <3>2. at[1] = i => n # 0 /\ n <= at[2]
      BY <2>2, <3>1
    <3>3. CASE n = 0
      BY <2>4, <3>1, <3>2, <3>3 DEF Behind
    <3>4. CASE n # 0
      BY <2>2, <2>4, <3>1, <3>2, <3>4 DEF Behind, Flat!IsBefore
    <3> QED BY <3>3, <3>4
  <2>6. log' \in [Readers -> Seq(Nat \X Nat)] /\ row' \in [Readers -> Nat]
    BY <1>3, <2>2, <2>3 DEF InStep
  <2>7. \A other \in Readers \ {r} :
           /\ current'[other] = current[other] /\ row'[other] = row[other]
           /\ next_index'[other] = next_index[other] /\ log'[other] = log[other]
    BY <1>3, <2>3 DEF Inv, Typed, InStep
  <2>8. \A at \in Flat!Visible(r) : at \in Flat!Given(r)' <=> Behind(r, at)'
    BY <1>7, <1>8, <2>5
  <2>9. state'[r] = "row" => <<current'[r], row'[r]>> \in Flat!Visible(r)
    BY <2>2, <2>4
  <2> QED BY <1>2, <1>3, <1>5, <2>6, <2>7, <2>8, <2>9, InStepMoves
<1> QED BY <1>5, <1>10, <1>11

\* A processor is given its row: the first that it sees and was not given, and the
\* cursor goes to the next that it sees.
LEMMA ProcessesFlat ==
    ASSUME Inv, InStep, NEW r \in Readers, Processes(r)
    PROVE  Flat!Gives(r) /\ InStep'
<1> DEFINE i == current[r]
           w == row[r]
           n == NextRow(r, i, w)
<1>1. /\ \A other \in Readers : state[other] # "gone"
      /\ state[r] = "row"
      /\ UNCHANGED <<shards, next_index, current>>
      /\ log' = [log EXCEPT ![r] = Append(@, <<i, w>>)]
      /\ row' = [row EXCEPT ![r] = n]
      /\ state' = [state EXCEPT ![r] = IF row'[r] = 0 THEN "scan" ELSE "row"]
  BY DEF Processes
<1>2. /\ <<i, w>> \in Flat!Visible(r)
      /\ i \in Shards /\ i \in Nat /\ w \in Nat
      /\ \A at \in Flat!Visible(r) : at \in Flat!Given(r) <=> Flat!IsBefore(at, <<i, w>>)
  <2>1. <<i, w>> \in Flat!Visible(r) /\ w \in Nat
    BY <1>1 DEF InStep
  <2>2. i \in Shards /\ i \in Nat
    BY <2>1, VisibleFacts DEF Inv, Shards
  <2> QED BY <1>1, <2>1, <2>2 DEF InStep, Behind
<1>3. /\ n \in Nat
      /\ n # 0 => n > w /\ <<i, n>> \in Flat!Visible(r)
      /\ \A j : <<i, j>> \in Flat!Visible(r) /\ j > w => n # 0 /\ n <= j
  BY <1>2, NextRowFacts DEF Inv
<1>4. next_index[r] = i + 1
  BY <1>1 DEF Inv, Cursors
<1> HIDE DEF n
<1>5. /\ row'[r] = n /\ current'[r] = i /\ next_index'[r] = i + 1
      /\ state'[r] = IF n = 0 THEN "scan" ELSE "row"
  BY <1>1, <1>4 DEF Inv, Typed, InStep
<1>6. \A other \in Readers \ {r} :
         /\ state'[other] = state[other] /\ current'[other] = current[other]
         /\ next_index'[other] = next_index[other]
         /\ row'[other] = row[other] /\ log'[other] = log[other]
  BY <1>1 DEF Inv, Typed, InStep
<1> HIDE DEF i, w
<1>7. \A at \in Flat!Visible(r) : at = <<at[1], at[2]>> /\ at[1] \in Nat /\ at[2] \in Nat
  BY VisibleFacts DEF Inv
<1>8. Flat!Gives(r)
  <2>1. <<i, w>> \in Flat!Left(r)
    BY <1>2 DEF Flat!Left, Flat!IsBefore
  <2>2. ASSUME NEW other \in Flat!Left(r) \ {<<i, w>>}
        PROVE  Flat!IsBefore(<<i, w>>, other)
    <3>1. other \in Flat!Visible(r) /\ other # <<i, w>>
      BY <2>2 DEF Flat!Left
    <3>2. ~Flat!IsBefore(other, <<i, w>>)
      BY <1>2, <2>2, <3>1 DEF Flat!Left
    <3>3. other = <<other[1], other[2]>> /\ other[1] \in Nat /\ other[2] \in Nat
      BY <1>7, <3>1
    <3>4. other[1] # i \/ other[2] # w
      BY <3>1, <3>3
    <3> QED BY <1>2, <3>2, <3>3, <3>4 DEF Flat!IsBefore
  <2>3. \A other \in Readers : state'[other] # "gone"
    BY <1>1, <1>5, <1>6
  <2>4. ~(\E other \in Readers : state[other] = "gone")
        /\ (\E other \in Readers : state'[other] = "gone")
              = (\E other \in Readers : state[other] = "gone")
    BY <1>1, <2>3
  <2> QED BY <1>1, <2>1, <2>2, <2>4 DEF Flat!Gives
<1>9. ASSUME NEW at \in Flat!Visible(r)
      PROVE  Flat!IsBefore(at, <<i, w>>) \/ at = <<i, w>> <=> Behind(r, at)'
  <2>1. at = <<at[1], at[2]>> /\ at[1] \in Nat /\ at[2] \in Nat
    BY <1>7
  <2>2. at[1] = i /\ at[2] > w => n # 0 /\ n <= at[2]
    BY <1>3, <2>1
  <2>3. Flat!IsBefore(at, <<i, w>>) \/ at = <<i, w>>
           <=> at[1] < i \/ (at[1] = i /\ at[2] <= w)
    BY <1>2, <2>1 DEF Flat!IsBefore
  <2>4. CASE n = 0
    BY <1>2, <1>5, <2>1, <2>2, <2>3, <2>4 DEF Behind
  <2>5. CASE n # 0
    <3>1. Behind(r, at)' <=> at[1] < i \/ (at[1] = i /\ at[2] < n)
      BY <1>5, <2>5 DEF Behind, Flat!IsBefore
    <3> QED BY <1>2, <1>3, <2>1, <2>2, <2>3, <2>5, <3>1
  <2> QED BY <2>4, <2>5
<1>10. Flat!Given(r)' = Flat!Given(r) \cup {<<i, w>>}
  <2>1. log[r] \in Seq(Nat \X Nat) /\ log'[r] = Append(log[r], <<i, w>>)
    BY <1>1 DEF InStep
  <2>2. /\ Len(log[r]) \in Nat /\ Len(log'[r]) = Len(log[r]) + 1
        /\ \A k \in 1..Len(log[r]) : log'[r][k] = log[r][k]
        /\ log'[r][Len(log[r]) + 1] = <<i, w>>
    BY <2>1
  <2> DEFINE m == Len(log[r])
             old == log[r]
             new == log'[r]
  <2>3. {new[k] : k \in 1..(m + 1)} = {old[k] : k \in 1..m} \cup {<<i, w>>}
    <3> HIDE DEF m, old, new
    <3>1. /\ m \in Nat /\ \A k \in 1..m : new[k] = old[k]
          /\ new[m + 1] = <<i, w>>
      BY <2>2 DEF m, old, new
    <3>2. 1..(m + 1) = (1..m) \cup {m + 1}
      BY <3>1
    <3> QED BY <3>1, <3>2
  <2> QED BY <2>2, <2>3 DEF Flat!Given
<1>11. InStep'
  <2>1. log' \in [Readers -> Seq(Nat \X Nat)]
    BY <1>1, <1>2 DEF InStep
  <2>2. row' \in [Readers -> Nat]
    BY <1>1, <1>3 DEF InStep
  <2>3. \A at \in Flat!Visible(r) : at \in Flat!Given(r)' <=> Behind(r, at)'
    BY <1>2, <1>9, <1>10
  <2>4. state'[r] = "row" => <<current'[r], row'[r]>> \in Flat!Visible(r)
    BY <1>3, <1>5
  <2> QED BY <1>1, <1>6, <2>1, <2>2, <2>3, <2>4, InStepMoves
<1> QED BY <1>8, <1>11

\* The backtest is destroyed.
LEMMA GoesFlat ==
    ASSUME Inv, InStep, NEW r \in Readers, Goes(r)
    PROVE  Flat!Ends /\ InStep'
<1>1. /\ state' = [state EXCEPT ![r] = "gone"]
      /\ current' = [current EXCEPT ![r] = 0]
      /\ row' = [row EXCEPT ![r] = 0]
      /\ UNCHANGED <<shards, next_index, log>>
  BY DEF Goes
<1>2. /\ state'[r] = "gone"
      /\ \A other \in Readers \ {r} :
            /\ state'[other] = state[other] /\ current'[other] = current[other]
            /\ next_index'[other] = next_index[other]
            /\ row'[other] = row[other] /\ log'[other] = log[other]
  BY <1>1 DEF Inv, Typed, InStep
<1>3. Flat!Ends
  BY <1>1, <1>2 DEF Flat!Ends
<1>4. log' \in [Readers -> Seq(Nat \X Nat)] /\ row' \in [Readers -> Nat]
  BY <1>1 DEF InStep
<1>5. InStep'
  BY <1>1, <1>2, <1>4, InStepMoves
<1> QED BY <1>3, <1>5

LEMMA StepFlat == Inv /\ InStep /\ [Next]_vars => [Flat!Next]_(Flat!vars) /\ InStep'
<1> SUFFICES ASSUME Inv, InStep, [Next]_vars PROVE [Flat!Next]_(Flat!vars) /\ InStep'
  OBVIOUS
<1>1. ASSUME NEW r \in Readers, ReadsShard(r) PROVE [Flat!Next]_(Flat!vars) /\ InStep'
  BY <1>1, ReadsShardFlat
<1>2. ASSUME NEW r \in Readers, Processes(r) PROVE [Flat!Next]_(Flat!vars) /\ InStep'
  BY <1>2, ProcessesFlat DEF Flat!Next
<1>3. ASSUME NEW r \in Readers, Goes(r) PROVE [Flat!Next]_(Flat!vars) /\ InStep'
  BY <1>3, GoesFlat DEF Flat!Next
<1>4. CASE UNCHANGED vars
  <2>1. UNCHANGED <<shards, next_index, current, row, state, log>>
    BY <1>4 DEF vars, readerVars
  <2>2. UNCHANGED Flat!vars
    BY <2>1 DEF Flat!vars
  <2>3. \A r \in Readers : /\ Flat!Visible(r)' = Flat!Visible(r)
                           /\ Flat!Given(r)' = Flat!Given(r)
    BY <2>1 DEF Flat!Visible, Flat!Rows, Flat!Given
  <2>4. \A r \in Readers : \A at : Behind(r, at)' <=> Behind(r, at)
    BY <2>1 DEF Behind, Flat!IsBefore
  <2>5. InStep'
    BY <2>1, <2>3, <2>4 DEF InStep
  <2> QED BY <2>2, <2>5
<1>5. CASE Ended
  BY <1>4, <1>5 DEF Ended
<1> QED BY <1>1, <1>2, <1>3, <1>4, <1>5 DEF Next

\* EventReader and ProcessorState: every processor is given the rows it sees, each
\* once and in the order of the recording, for every way to cut it into shards, until
\* the backtest is destroyed.
THEOREM RowsInOrder == Spec => Flat!Spec
  BY InitInv, InvStep, InitFlat, StepFlat, PTL DEF Spec, Flat!Spec

=============================================================================
