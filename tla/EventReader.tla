---------------------------- MODULE EventReader ----------------------------
(***************************************************************************)
(* The shard cache shared by the readers of one recording                  *)
(* (include/hbt/data/reader.hpp: EventReaderCache, EventReader) and the    *)
(* row cursor a processor keeps on its reader (ProcessorState in           *)
(* include/hbt/backtest/backtest.hpp).                                     *)
(*                                                                         *)
(* A shard is a sequence of rows; a row is the set of readers whose        *)
(* processor sees it, which is what event_seen_timestamp tells.  Shards    *)
(* are numbered from 1.  Which reader is next is decided by timestamps in  *)
(* the code and is left open here.                                         *)
(***************************************************************************)
EXTENDS Naturals, Sequences, FiniteSets

CONSTANTS
    Readers,          \* the readers of the cache
    ConsumerCount,    \* consumer_count_
    Recordings        \* the recordings to read: sequences of shards

ASSUME ReaderAssumption ==
    /\ IsFiniteSet(Readers)
    /\ ConsumerCount \in Nat \ {0}
    /\ Recordings \subseteq Seq(Seq(SUBSET Readers))

\* A cache is made for its readers: two of one recording share a cache of the
\* default count, two recordings have a cache of one each.
ASSUME ConsumersAssumption == ConsumerCount = Cardinality(Readers)

VARIABLES
    shards,        \* paths_ or memory_chunks_
    cache,         \* cache_, from resident shards to finished_consumers
    loads,         \* how often each shard was loaded; load_count_ is the sum
    next_index,    \* per reader: the shard to acquire next
    current,       \* per reader: current_index_, 0 when it has none
    row,           \* per reader: the row its processor is given next, 0 for none
    state,         \* per reader: "new", "scan", "row", "end" or "gone"
    log            \* per reader: the rows its processor was given

cacheVars == <<cache, loads>>
readerVars == <<next_index, current, row, state>>
vars == <<shards, cacheVars, readerVars, log>>

Init ==
    /\ shards \in Recordings
    /\ cache = [i \in {} |-> 0]
    /\ loads = [i \in 1..Len(shards) |-> 0]
    /\ next_index = [r \in Readers |-> 1]
    /\ current = [r \in Readers |-> 0]
    /\ row = [r \in Readers |-> 0]
    /\ state = [r \in Readers |-> "new"]
    /\ log = [r \in Readers |-> <<>>]

\* Mutants of Released: the first reader that is done drops the shard; the last
\* one does not.
Released_Eagerly(c, i) == [j \in DOMAIN c \ {i} |-> c[j]]

Released_TooLate(c, i) ==
    IF i \notin DOMAIN c THEN c
    ELSE IF c[i] + 1 > ConsumerCount THEN [j \in DOMAIN c \ {i} |-> c[j]]
    ELSE [c EXCEPT ![i] = @ + 1]

\* EventReaderCache::release, and nothing for a reader without a shard: the last
\* consumer to finish drops it.
Released(c, i) ==
    IF i \notin DOMAIN c THEN c
    ELSE IF c[i] + 1 >= ConsumerCount THEN [j \in DOMAIN c \ {i} |-> c[j]]
    ELSE [c EXCEPT ![i] = @ + 1]

\* EventReaderCache::acquire: the shard and the one behind it become resident.
Wanted(i) == {i, i + 1} \cap 1..Len(shards)
Loaded(c, i) == [j \in DOMAIN c \cup Wanted(i) |-> IF j \in DOMAIN c THEN c[j] ELSE 0]

\* The first row after `start` of shard i that r's processor sees, 0 if none.
NextRow(r, i, start) ==
    LET seen == {j \in 1..Len(shards[i]) : j > start /\ r \in shards[i][j]}
    IN  IF seen = {} THEN 0 ELSE CHOOSE j \in seen : \A k \in seen : j <= k

Scanning == \E r \in Readers : state[r] = "scan"

\* The while loop of advance(), one turn: next_chunk releases the shard at hand
\* and acquires the next, which is searched for a row.  initialize_evs advances
\* every reader once; nothing else runs in between.
ReadsShard(r) ==
    /\ state[r] = "scan" \/ (state[r] = "new" /\ ~Scanning)
    /\ LET kept == Released(cache, current[r])
           i == next_index[r]
       IN  IF i > Len(shards)
           THEN /\ cache' = kept
                /\ current' = [current EXCEPT ![r] = 0]
                /\ row' = [row EXCEPT ![r] = 0]
                /\ state' = [state EXCEPT ![r] = "end"]
                /\ UNCHANGED <<loads, next_index>>
           ELSE /\ cache' = Loaded(kept, i)
                /\ loads' = [j \in DOMAIN loads |->
                               IF j \in Wanted(i) \ DOMAIN kept THEN loads[j] + 1
                                                                ELSE loads[j]]
                /\ next_index' = [next_index EXCEPT ![r] = i + 1]
                /\ current' = [current EXCEPT ![r] = i]
                /\ row' = [row EXCEPT ![r] = NextRow(r, i, 0)]
                /\ state' = [state EXCEPT ![r] = IF row'[r] = 0 THEN "scan" ELSE "row"]
    /\ UNCHANGED <<shards, log>>

\* Mutant of Processes: the rest of the shard is not searched.
Processes_DropsRest(r) ==
    /\ \A other \in Readers : state[other] \in {"row", "end"}
    /\ state[r] = "row"
    /\ log' = [log EXCEPT ![r] = Append(@, <<current[r], row[r]>>)]
    /\ row' = [row EXCEPT ![r] = 0]
    /\ state' = [state EXCEPT ![r] = "scan"]
    /\ UNCHANGED <<shards, cacheVars, next_index, current>>

\* A data slot of the dispatch loop: the processor is given its row, and advance()
\* looks for the next one in the rest of the shard.
Processes(r) ==
    /\ \A other \in Readers : state[other] \in {"row", "end"}
    /\ state[r] = "row"
    /\ log' = [log EXCEPT ![r] = Append(@, <<current[r], row[r]>>)]
    /\ row' = [row EXCEPT ![r] = NextRow(r, current[r], row[r])]
    /\ state' = [state EXCEPT ![r] = IF row'[r] = 0 THEN "scan" ELSE "row"]
    /\ UNCHANGED <<shards, cacheVars, next_index, current>>

\* ~EventReader, when the backtest is destroyed, before the end of data or at it:
\* all readers go, one by one.
Goes(r) ==
    /\ \A other \in Readers : state[other] \in {"new", "row", "end", "gone"}
    /\ state[r] # "gone"
    /\ cache' = Released(cache, current[r])
    /\ current' = [current EXCEPT ![r] = 0]
    /\ row' = [row EXCEPT ![r] = 0]
    /\ state' = [state EXCEPT ![r] = "gone"]
    /\ UNCHANGED <<shards, loads, next_index, log>>

Ended == (\A r \in Readers : state[r] = "gone") /\ UNCHANGED vars

Next ==
    \/ \E r \in Readers : ReadsShard(r) \/ Processes(r) \/ Goes(r)
    \/ Ended

Spec == Init /\ [][Next]_vars

\* close() runs the loop to the end of data, where every data slot is empty.
Fairness == \A r \in Readers : WF_vars(ReadsShard(r)) /\ WF_vars(Processes(r))
FairSpec == Spec /\ Fairness

-----------------------------------------------------------------------------
(* Properties.                                                              *)

\* Readers share their shards: none is loaded a second time, however far one
\* reader is ahead of the other ("SharesAndReleasesShardsAfterBothReadersFinish").
LoadedOnce == \A i \in DOMAIN loads : loads[i] <= 1

\* The shard a reader is at stays in the cache.
HeldIsResident == \A r \in Readers : current[r] # 0 => current[r] \in DOMAIN cache

\* What is resident lies between the slowest reader and the shard after the
\* fastest, and nothing is left at the end of data.
ResidencyBounded ==
    /\ \A i \in DOMAIN cache : \E slow, fast \in Readers :
          next_index[slow] - 1 <= i /\ i <= next_index[fast]
    /\ (\A r \in Readers : state[r] = "end") => cache = [i \in {} |-> 0]

\* Every processor is given exactly the rows it sees, in their order, and gets to
\* the end of them unless the backtest is destroyed before.
Flat == INSTANCE FlatReplay WITH destroyed <- \E r \in Readers : state[r] = "gone"
IsFlatReplay == Flat!FairSpec

=============================================================================
