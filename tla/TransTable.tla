----------------------------- MODULE TransTable -----------------------------
(***************************************************************************)
(* The transposition table of attic-storage/src/tt.rs under the searches   *)
(* of attic-search/src/qsearch.rs: entries of six relaxed atomics, read    *)
(* and written field by field by every worker at once.                     *)
(*                                                                         *)
(* One cluster is modelled, since no operation touches two. A Node is a    *)
(* node some worker is visiting: it locates its entry once, searches its   *)
(* children (other Nodes, of its own or another worker), and stores into   *)
(* the entry it located, whatever has become of it meanwhile.              *)
(*                                                                         *)
(* What a store carries is its number in `saves`: value16 holds that       *)
(* number, move16 too (0 for no move), so that a mixture of two stores can *)
(* be told from either. eval16 is loaded and stored next to value16, and   *)
(* the two are one field here.                                             *)
(***************************************************************************)
EXTENDS Integers, Sequences, FiniteSets

CONSTANTS Node,         \* nodes being visited at one time
          CLUSTER_SIZE, \* entries per cluster (3 in the code)
          GENERATIONS,  \* 2^GENERATION_BITS (32 in the code)
          Fragment,     \* the low 16 bits of keys; 0 is that of an empty entry
          Payload,      \* what a node stores: [bound, depth, pv, move]
          MaxSaves,     \* bound on stores to a zeroed table
          MaxSearches   \* bound on new_search calls since clear

DEPTH_NONE == -3
Bounds == {"None", "Upper", "Lower", "Exact"}

ASSUME ClusterAssumption == CLUSTER_SIZE \in Nat \ {0}
ASSUME GenerationsAssumption == GENERATIONS \in Nat \ {0}
ASSUME FragmentAssumption == Fragment \subseteq Nat /\ 0 \in Fragment
ASSUME PayloadAssumption ==
    /\ Payload \subseteq [bound : Bounds, depth : Int, pv : BOOLEAN, move : BOOLEAN]
    /\ \A p \in Payload : p.depth > DEPTH_NONE /\ p.depth - DEPTH_NONE < 256
ASSUME BoundsAssumption == MaxSaves \in Nat /\ MaxSearches \in Nat

Slots == 1..CLUSTER_SIZE
Generation == 0..(GENERATIONS - 1)
GenBound == [gen : Generation, bound : Bounds, pv : BOOLEAN]

\* An all-zero entry: unoccupied, since depth8 = 0.
Zero == [key |-> 0, depth8 |-> 0, gb |-> [gen |-> 0, bound |-> "None", pv |-> FALSE],
         move |-> 0, value |-> 0]

\* The order in which TTEntry::read loads, save loads and save stores.
ReadOrder == <<"gb", "move", "value", "depth8">>
LoadOrder == <<"key", "depth8", "gb">>
StoreOrder == <<"key", "depth8", "gb", "value">>

VARIABLES
    entry,       \* entry[e]: the cluster's entries
    generation8, \* the table's generation
    pc,          \* where each node stands
    frag,        \* frag[n]: key16 of the node's position
    slot,        \* slot[n]: the TtSlot located
    idx,         \* idx[n]: position in the loop or field order in progress
    found,       \* found[n]: locate's first result
    data,        \* data[n]: locate's copy of the entry
    old,         \* old[n]: what save loaded before storing
    tag,         \* tag[n]: number of the store in progress
    saves,       \* history: the stores since the table was zeroed, as they began
    searches,    \* history: number of new_search calls since clear
    raced,       \* history: stores to the entry overlapped, and nothing healed it
    alone,       \* history: no other store overlapped the node's own so far
    quiet        \* history: no store overlapped the node's read so far

tableVars == <<entry, generation8>>
nodeVars == <<pc, frag, slot, idx, found, data, old, tag>>
history == <<saves, searches, raced, alone, quiet>>
vars == <<entry, generation8, pc, frag, slot, idx, found, data, old, tag,
          saves, searches, raced, alone, quiet>>

Init ==
    /\ entry = [e \in Slots |-> Zero]
    /\ generation8 = 0
    /\ pc = [n \in Node |-> "idle"]
    /\ frag = [n \in Node |-> 0]
    /\ slot = [n \in Node |-> 1]
    /\ idx = [n \in Node |-> 1]
    /\ found = [n \in Node |-> FALSE]
    /\ data = [n \in Node |-> Zero]
    /\ old = [n \in Node |-> Zero]
    /\ tag = [n \in Node |-> 0]
    /\ saves = <<>>
    /\ searches = 0
    /\ raced = [e \in Slots |-> FALSE]
    /\ alone = [n \in Node |-> FALSE]
    /\ quiet = [n \in Node |-> FALSE]

IsOccupied(en) == en.depth8 # 0

\* Mutant of RelativeAge: the difference is not wrapped.
RelativeAgeUnwrapped(gb, generation) == generation - gb.gen

\* Generations are hours on a clock.
RelativeAge(gb, generation) == (generation - gb.gen) % GENERATIONS

ReplacePriority(en) == en.depth8 - 8 * RelativeAge(en.gb, generation8)

LessValuable(e, f) ==
    IF ReplacePriority(entry[e]) > ReplacePriority(entry[f]) THEN f ELSE e

\* The nodes whose store to entry e is under way, and those reading it.
Saving(e) == {n \in Node : slot[n] = e /\ pc[n] \in {"load", "move", "store"}}
Reading(e) == {n \in Node : slot[n] = e /\ pc[n] \in {"occupied", "read"}}

-----------------------------------------------------------------------------
\* TranspositionTable::locate.

Visit(n, k) ==
    /\ pc[n] = "idle"
    /\ searches > 0
    /\ pc' = [pc EXCEPT ![n] = "scan"]
    /\ frag' = [frag EXCEPT ![n] = k]
    /\ idx' = [idx EXCEPT ![n] = 1]
    /\ UNCHANGED <<tableVars, slot, found, data, old, tag, history>>

\* find: the first entry whose key fragment matches.
LocateKey(n) ==
    /\ pc[n] = "scan"
    /\ \/ /\ entry[idx[n]].key = frag[n]
          /\ pc' = [pc EXCEPT ![n] = "occupied"]
          /\ slot' = [slot EXCEPT ![n] = idx[n]]
          /\ quiet' = [quiet EXCEPT ![n] = Saving(idx[n]) = {}]
          /\ UNCHANGED idx
       \/ /\ entry[idx[n]].key # frag[n]
          /\ idx[n] < CLUSTER_SIZE
          /\ idx' = [idx EXCEPT ![n] = @ + 1]
          /\ UNCHANGED <<pc, slot, quiet>>
       \/ /\ entry[idx[n]].key # frag[n]
          /\ idx[n] = CLUSTER_SIZE
          /\ pc' = [pc EXCEPT ![n] = "victim"]
          /\ slot' = [slot EXCEPT ![n] = 1]
          /\ idx' = [idx EXCEPT ![n] = 2]
          /\ UNCHANGED quiet
    /\ UNCHANGED <<tableVars, frag, found, data, old, tag, saves, searches, raced, alone>>

LocateOccupied(n) ==
    /\ pc[n] = "occupied"
    /\ found' = [found EXCEPT ![n] = IsOccupied(entry[slot[n]])]
    /\ pc' = [pc EXCEPT ![n] = "read"]
    /\ idx' = [idx EXCEPT ![n] = 1]
    /\ UNCHANGED <<tableVars, frag, slot, data, old, tag, history>>

\* locate's result is in the search's hands, which goes on with the slot alone.
LocateReturn(n) ==
    /\ pc' = [pc EXCEPT ![n] = "node"]
    /\ idx' = [idx EXCEPT ![n] = 1]
    /\ found' = [found EXCEPT ![n] = FALSE]
    /\ data' = [data EXCEPT ![n] = Zero]
    /\ quiet' = [quiet EXCEPT ![n] = FALSE]

\* The copy with the field of the next load in it.
Copy(n) ==
    LET field == ReadOrder[idx[n]]
    IN [data[n] EXCEPT ![field] = entry[slot[n]][field]]

\* TTEntry::read, one relaxed load at a time.
LocateRead(n) ==
    /\ pc[n] = "read"
    /\ \/ /\ idx[n] < Len(ReadOrder)
          /\ data' = [data EXCEPT ![n] = Copy(n)]
          /\ idx' = [idx EXCEPT ![n] = @ + 1]
          /\ UNCHANGED <<pc, found, quiet>>
       \/ /\ idx[n] = Len(ReadOrder)
          /\ LocateReturn(n)
    /\ UNCHANGED <<tableVars, frag, slot, old, tag, saves, searches, raced, alone>>

\* No fragment matched: one comparison of the search for the least valuable
\* entry. Its four loads are one step: what a store between them can change
\* is only which of two entries is replaced.
LocateVictim(n) ==
    /\ pc[n] = "victim"
    /\ \/ /\ idx[n] <= CLUSTER_SIZE
          /\ slot' = [slot EXCEPT ![n] = LessValuable(@, idx[n])]
          /\ idx' = [idx EXCEPT ![n] = @ + 1]
          /\ UNCHANGED <<pc, found, data, quiet>>
       \/ /\ idx[n] > CLUSTER_SIZE
          /\ LocateReturn(n)
          /\ UNCHANGED slot
    /\ UNCHANGED <<tableVars, frag, old, tag, saves, searches, raced, alone>>

-----------------------------------------------------------------------------
\* tt_store and TTEntry::save, into the entry located.

\* One of the loads that precede the stores.
Loaded(n, field) == [old[n] EXCEPT ![field] = entry[slot[n]][field]]

\* The store's number, and the first of its loads.
SaveBegin(n, p) ==
    /\ pc[n] = "node"
    /\ Len(saves) < MaxSaves
    /\ saves' = Append(saves, [key |-> frag[n], depth8 |-> p.depth - DEPTH_NONE,
                               gb |-> [gen |-> generation8, bound |-> p.bound, pv |-> p.pv],
                               move |-> p.move, born |-> searches])
    /\ tag' = [tag EXCEPT ![n] = Len(saves) + 1]
    /\ old' = [old EXCEPT ![n] = Loaded(n, "key")]
    /\ pc' = [pc EXCEPT ![n] = "load"]
    /\ idx' = [idx EXCEPT ![n] = 2]
    /\ raced' = [raced EXCEPT ![slot[n]] = @ \/ Saving(slot[n]) # {}]
    /\ alone' = [m \in Node |-> IF m = n THEN Saving(slot[n]) = {}
                                ELSE alone[m] /\ m \notin Saving(slot[n])]
    /\ quiet' = [m \in Node |-> quiet[m] /\ m \notin Reading(slot[n])]
    /\ UNCHANGED <<tableVars, frag, slot, found, data, searches>>

SaveLoad(n) ==
    /\ pc[n] = "load"
    /\ old' = [old EXCEPT ![n] = Loaded(n, LoadOrder[idx[n]])]
    /\ \/ /\ idx[n] < Len(LoadOrder)
          /\ idx' = [idx EXCEPT ![n] = @ + 1]
          /\ UNCHANGED pc
       \/ /\ idx[n] = Len(LoadOrder)
          /\ pc' = [pc EXCEPT ![n] = "move"]
          /\ UNCHANGED idx
    /\ UNCHANGED <<tableVars, frag, slot, found, data, tag, history>>

\* The store under way at n.
Store(n) == saves[tag[n]]

\* Mutant of WritesMove: an old move is kept when there is no new one.
WritesMoveIfAny(n) == Store(n).move

WritesMove(n) == Store(n).move \/ frag[n] # old[n].key

\* Mutant of Replaces: another position's entry is replaced by value alone.
ReplacesByValue(n) ==
    \/ Store(n).gb.bound = "Exact"
    \/ Store(n).depth8 + (IF Store(n).gb.pv THEN 2 ELSE 0) > old[n].depth8 - 4
    \/ RelativeAge(old[n].gb, Store(n).gb.gen) # 0

Replaces(n) ==
    \/ Store(n).gb.bound = "Exact"
    \/ frag[n] # old[n].key
    \/ Store(n).depth8 + (IF Store(n).gb.pv THEN 2 ELSE 0) > old[n].depth8 - 4
    \/ RelativeAge(old[n].gb, Store(n).gb.gen) # 0

\* save is over, and its locals are gone.
SaveReturn(n) ==
    /\ pc' = [pc EXCEPT ![n] = "node"]
    /\ idx' = [idx EXCEPT ![n] = 1]
    /\ old' = [old EXCEPT ![n] = Zero]
    /\ tag' = [tag EXCEPT ![n] = 0]
    /\ alone' = [alone EXCEPT ![n] = FALSE]

MoveStored(n) == [entry[slot[n]] EXCEPT !.move = IF Store(n).move THEN tag[n] ELSE 0]

\* The move is written for another position even when there is none, so that
\* an old one is never taken for it.
SaveMove(n) ==
    /\ pc[n] = "move"
    /\ entry' = IF WritesMove(n) THEN [entry EXCEPT ![slot[n]] = MoveStored(n)] ELSE entry
    /\ \/ /\ Replaces(n)
          /\ pc' = [pc EXCEPT ![n] = "store"]
          /\ idx' = [idx EXCEPT ![n] = 1]
          /\ UNCHANGED <<old, tag, alone>>
       \/ /\ ~Replaces(n)
          /\ SaveReturn(n)
    /\ UNCHANGED <<generation8, frag, slot, found, data, saves, searches, raced, quiet>>

\* One of the stores that follow, each of its own field.
FieldStored(n, field) ==
    [entry[slot[n]] EXCEPT ![field] = CASE field = "key" -> frag[n]
                                        [] field = "depth8" -> Store(n).depth8
                                        [] field = "gb" -> Store(n).gb
                                        [] field = "value" -> tag[n]]

\* A store that nothing overlapped and that wrote the move as well leaves the
\* entry whole, whatever was there before.
SaveStore(n) ==
    /\ pc[n] = "store"
    /\ entry' = [entry EXCEPT ![slot[n]] = FieldStored(n, StoreOrder[idx[n]])]
    /\ \/ /\ idx[n] < Len(StoreOrder)
          /\ idx' = [idx EXCEPT ![n] = @ + 1]
          /\ UNCHANGED <<pc, old, tag, raced, alone>>
       \/ /\ idx[n] = Len(StoreOrder)
          /\ raced' = [raced EXCEPT ![slot[n]] = @ /\ ~(alone[n] /\ WritesMove(n))]
          /\ SaveReturn(n)
    /\ UNCHANGED <<generation8, frag, slot, found, data, saves, searches, quiet>>

\* The node returns to its parent, and its locals are gone.
Leave(n) ==
    /\ pc[n] = "node"
    /\ pc' = [pc EXCEPT ![n] = "idle"]
    /\ frag' = [frag EXCEPT ![n] = 0]
    /\ slot' = [slot EXCEPT ![n] = 1]
    /\ UNCHANGED <<tableVars, idx, found, data, old, tag, history>>

-----------------------------------------------------------------------------
\* Between searches: the coordinator bumps the generation before it starts a
\* helper, and the driver reaches clear and resize through Arc::get_mut
\* (HelperPool's SoleOwner).

NoSearch == \A n \in Node : pc[n] = "idle"

\* Mutant of NewSearch: the generation spills out of its bits.
NewSearchUnwrapped ==
    /\ NoSearch
    /\ searches < MaxSearches
    /\ searches' = searches + 1
    /\ generation8' = generation8 + 1
    /\ UNCHANGED <<entry, nodeVars, saves, raced, alone, quiet>>

NewSearch ==
    /\ NoSearch
    /\ searches < MaxSearches
    /\ searches' = searches + 1
    /\ generation8' = (generation8 + 1) % GENERATIONS
    /\ UNCHANGED <<entry, nodeVars, saves, raced, alone, quiet>>

ZeroEntries ==
    /\ entry' = [e \in Slots |-> Zero]
    /\ raced' = [e \in Slots |-> FALSE]
    /\ saves' = <<>>

Clear ==
    /\ NoSearch
    /\ ZeroEntries
    /\ generation8' = 0
    /\ searches' = 0
    /\ UNCHANGED <<nodeVars, alone, quiet>>

\* resize to another size: zeroed clusters, the generation kept.
Resize ==
    /\ NoSearch
    /\ ZeroEntries
    /\ UNCHANGED <<generation8, nodeVars, searches, alone, quiet>>

Next ==
    \/ \E n \in Node :
        \/ \E k \in Fragment : Visit(n, k)
        \/ LocateKey(n) \/ LocateOccupied(n) \/ LocateRead(n) \/ LocateVictim(n)
        \/ \E p \in Payload : SaveBegin(n, p)
        \/ SaveLoad(n) \/ SaveMove(n) \/ SaveStore(n)
        \/ Leave(n)
    \/ NewSearch \/ Clear \/ Resize

Spec == Init /\ [][Next]_vars

-----------------------------------------------------------------------------
Save == [key : Fragment, depth8 : 1..255, gb : GenBound, move : BOOLEAN, born : Nat]
Entries == [key : Fragment, depth8 : 0..255, gb : GenBound, move : Nat, value : Nat]

\* The entries are made of what stores carry, and nodes stand where the code does.
TypeOK ==
    /\ entry \in [Slots -> Entries]
    /\ generation8 \in Generation
    /\ pc \in [Node -> {"idle", "scan", "occupied", "read", "victim", "node",
                       "load", "move", "store"}]
    /\ frag \in [Node -> Fragment]
    /\ slot \in [Node -> Slots]
    /\ idx \in [Node -> Nat \ {0}]
    /\ found \in [Node -> BOOLEAN]
    /\ data \in [Node -> Entries]
    /\ old \in [Node -> Entries]
    /\ tag \in [Node -> 0..Len(saves)]
    /\ saves \in Seq(Save)
    /\ searches \in Nat
    /\ raced \in [Slots -> BOOLEAN]
    /\ alone \in [Node -> BOOLEAN]
    /\ quiet \in [Node -> BOOLEAN]

\* A copy of an entry is one store's payload for the fragment key, with a move
\* stored for that same fragment.
WholeFor(en, key) ==
    LET t == en.value
    IN /\ t \in 1..Len(saves)
       /\ saves[t].key = key
       /\ en.depth8 = saves[t].depth8 /\ en.gb = saves[t].gb
       /\ en.move # 0 => en.move \in 1..Len(saves) /\ saves[en.move].key = key
       /\ saves[t].move => en.move >= t

\* The module's doc says what an entry of six fields may suffer: a mixture of
\* two stores. It takes two that overlap to make one. Otherwise an occupied
\* entry is one store's, its move that store's own, a later one's for the same
\* fragment, or an earlier one's when the store had none; and the first
\* undisturbed store with a move, or for another fragment, ends a mixture.
TornOnlyByRace ==
    \A e \in Slots : ~raced[e] /\ Saving(e) = {} /\ IsOccupied(entry[e])
                        => WholeFor(entry[e], entry[e].key)

\* What locate hands to the search on a hit is one store's payload for the
\* position's fragment, when no store overlapped the read or left a mixture.
HitIsWhole ==
    [][\A n \in Node :
         pc[n] = "read" /\ pc'[n] = "node" /\ found[n] /\ quiet[n] /\ ~raced[slot[n]]
         => WholeFor(Copy(n), frag[n])]_vars

\* hashfull(max_age) counts these entries of the cluster.
Young(max_age) ==
    {e \in Slots : IsOccupied(entry[e]) /\ RelativeAge(entry[e].gb, generation8) <= max_age}

\* An entry's relative age is the number of searches begun since it was stored,
\* on the clock of generations, whatever was cleared or resized before.
AgeExact ==
    \A max_age \in Generation : \A e \in Slots :
        ~raced[e] /\ Saving(e) = {} /\ IsOccupied(entry[e])
        => (e \in Young(max_age)
              <=> (searches - saves[entry[e].value].born) % GENERATIONS <= max_age)
=============================================================================
