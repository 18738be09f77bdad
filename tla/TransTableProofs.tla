-------------------------- MODULE TransTableProofs --------------------------
(***************************************************************************)
(* Theorems about TransTable, for every set of nodes, fragments and        *)
(* payloads, every cluster size, every number of generations and all       *)
(* bounds.                                                                 *)
(*                                                                         *)
(* Three facts carry the argument. Of the nodes storing into one entry at  *)
(* a time at most one is alone, and a node that is not has left its mark   *)
(* in raced (StoreInv). A node that is alone finds in the entry what it    *)
(* has loaded, and has left there what it has stored (ProgressInv). And a  *)
(* read that is still quiet has copied the entry as it is (ReadInv).       *)
(***************************************************************************)
EXTENDS TransTable, TLAPS

\* An entry at rest: unoccupied and without a move, or one store's.
EntryOK(en) ==
    /\ IsOccupied(en) => WholeFor(en, en.key)
    /\ ~IsOccupied(en) => en.move = 0

RestInv(e) == ~raced[e] /\ Saving(e) = {} => EntryOK(entry[e])

\* Where the loops stand.
IdxInv(n) ==
    /\ pc[n] = "scan" => idx[n] <= CLUSTER_SIZE
    /\ pc[n] = "read" => idx[n] \in 1..4
    /\ pc[n] = "load" => idx[n] \in 2..3
    /\ pc[n] = "store" => idx[n] \in 1..4
    /\ pc[n] \notin {"load", "move", "store"} => tag[n] = 0

\* What a node storing alone has loaded, and what it has stored so far.
ProgressInv(n, en) ==
    /\ pc[n] \in {"load", "move"} =>
         /\ old[n].key = en.key
         /\ pc[n] = "move" \/ idx[n] = 3 => old[n].depth8 = en.depth8
         /\ ~raced[slot[n]] => EntryOK(en) /\ en.move < tag[n]
                               /\ (IsOccupied(en) => en.value < tag[n])
    /\ pc[n] = "store" =>
         /\ idx[n] > 1 => en.key = frag[n]
         /\ idx[n] > 2 => en.depth8 = Store(n).depth8
         /\ idx[n] > 3 => en.gb = Store(n).gb
         /\ WritesMove(n) => en.move = IF Store(n).move THEN tag[n] ELSE 0
         /\ ~WritesMove(n) /\ ~raced[slot[n]] /\ en.move # 0
              => en.move \in 1..Len(saves) /\ saves[en.move].key = frag[n]

StoreInv(n) ==
    pc[n] \in {"load", "move", "store"} =>
      /\ tag[n] \in 1..Len(saves)
      /\ Store(n).key = frag[n]
      /\ ~alone[n] => raced[slot[n]]
      /\ \A m \in Saving(slot[n]) : m # n => ~alone[n]
      /\ alone[n] => ProgressInv(n, entry[slot[n]])

ReadInv(n) ==
    pc[n] \in {"occupied", "read"} /\ quiet[n] =>
      /\ Saving(slot[n]) = {}
      /\ entry[slot[n]].key = frag[n]
      /\ pc[n] = "read" =>
           /\ found[n] <=> IsOccupied(entry[slot[n]])
           /\ idx[n] > 1 => data[n].gb = entry[slot[n]].gb
           /\ idx[n] > 2 => data[n].move = entry[slot[n]].move
           /\ idx[n] > 3 => data[n].value = entry[slot[n]].value

IInv ==
    /\ TypeOK
    /\ \A n \in Node : IdxInv(n)
    /\ \A n \in Node : StoreInv(n)
    /\ \A n \in Node : ReadInv(n)
    /\ \A e \in Slots : RestInv(e)

-----------------------------------------------------------------------------
(* Type correctness. *)

\* The zeroed entry and the constants' types.
LEMMA ConstantTypes ==
    /\ Zero \in Entries
    /\ 1 \in Slots
    /\ 0 \in Fragment
    /\ 0 \in Generation
    /\ \A p \in Payload : /\ p.depth - DEPTH_NONE \in 1..255
                         /\ p.bound \in Bounds /\ p.pv \in BOOLEAN /\ p.move \in BOOLEAN
<1>1. 0 \in Generation /\ 1 \in Slots /\ 0 \in Fragment
  BY ClusterAssumption, GenerationsAssumption, FragmentAssumption DEF Generation, Slots
<1>2. Zero \in Entries
  BY <1>1 DEF Zero, Entries, GenBound, Bounds
<1>3. ASSUME NEW p \in Payload
      PROVE  /\ p.depth - DEPTH_NONE \in 1..255
             /\ p.bound \in Bounds /\ p.pv \in BOOLEAN /\ p.move \in BOOLEAN
  BY PayloadAssumption DEF DEPTH_NONE
<1> QED BY <1>1, <1>2, <1>3

\* One relaxed load into a copy of an entry keeps the copy an entry.
LEMMA LoadTyped ==
    ASSUME NEW en \in Entries, NEW copy \in Entries,
           NEW field \in {"key", "depth8", "gb", "move", "value"}
    PROVE  [copy EXCEPT ![field] = en[field]] \in Entries
BY DEF Entries

\* A function keeps its type when one of its values is replaced by another.
LEMMA UpdateTyped ==
    ASSUME NEW S, NEW T, NEW f \in [S -> T], NEW x \in S, NEW v \in T
    PROVE  [f EXCEPT ![x] = v] \in [S -> T]
OBVIOUS

\* The fields the three orders name.
LEMMA OrderFields ==
    /\ Len(ReadOrder) = 4 /\ Len(LoadOrder) = 3 /\ Len(StoreOrder) = 4
    /\ ReadOrder[1] = "gb" /\ ReadOrder[2] = "move"
    /\ ReadOrder[3] = "value" /\ ReadOrder[4] = "depth8"
    /\ LoadOrder[1] = "key" /\ LoadOrder[2] = "depth8" /\ LoadOrder[3] = "gb"
    /\ StoreOrder[1] = "key" /\ StoreOrder[2] = "depth8"
    /\ StoreOrder[3] = "gb" /\ StoreOrder[4] = "value"
BY DEF ReadOrder, LoadOrder, StoreOrder

\* What the loads of read and of save put where.
LEMMA CopyField ==
    ASSUME NEW n \in Node, IdxInv(n), pc[n] = "read"
    PROVE  LET en == entry[slot[n]]
           IN \/ idx[n] = 1 /\ Copy(n) = [data[n] EXCEPT !.gb = en.gb]
              \/ idx[n] = 2 /\ Copy(n) = [data[n] EXCEPT !.move = en.move]
              \/ idx[n] = 3 /\ Copy(n) = [data[n] EXCEPT !.value = en.value]
              \/ idx[n] = 4 /\ Copy(n) = [data[n] EXCEPT !.depth8 = en.depth8]
<1> DEFINE f == ReadOrder[idx[n]]
<1>1. Copy(n) = [data[n] EXCEPT ![f] = entry[slot[n]][f]]
  BY DEF Copy
<1>2. idx[n] \in 1..4
  BY DEF IdxInv
<1>3. CASE idx[n] = 1
  BY <1>1, <1>3, OrderFields
<1>4. CASE idx[n] = 2
  BY <1>1, <1>4, OrderFields
<1>5. CASE idx[n] = 3
  BY <1>1, <1>5, OrderFields
<1>6. CASE idx[n] = 4
  BY <1>1, <1>6, OrderFields
<1> QED BY <1>2, <1>3, <1>4, <1>5, <1>6

\* What a load of a store in progress reads next.
LEMMA LoadField ==
    ASSUME NEW n \in Node, IdxInv(n), pc[n] = "load"
    PROVE  \/ idx[n] = 2 /\ LoadOrder[idx[n]] = "depth8"
           \/ idx[n] = 3 /\ LoadOrder[idx[n]] = "gb"
BY OrderFields DEF IdxInv

\* What a store in progress writes next.
LEMMA StoreField ==
    ASSUME NEW n \in Node, IdxInv(n), pc[n] = "store"
    PROVE  \/ idx[n] = 1 /\ StoreOrder[idx[n]] = "key"
           \/ idx[n] = 2 /\ StoreOrder[idx[n]] = "depth8"
           \/ idx[n] = 3 /\ StoreOrder[idx[n]] = "gb"
           \/ idx[n] = 4 /\ StoreOrder[idx[n]] = "value"
BY OrderFields DEF IdxInv

\* What save stores, field by field.
LEMMA FieldStoredIs ==
    ASSUME NEW n \in Node
    PROVE  LET en == entry[slot[n]]
           IN /\ FieldStored(n, "key") = [en EXCEPT !.key = frag[n]]
              /\ FieldStored(n, "depth8") = [en EXCEPT !.depth8 = Store(n).depth8]
              /\ FieldStored(n, "gb") = [en EXCEPT !.gb = Store(n).gb]
              /\ FieldStored(n, "value") = [en EXCEPT !.value = tag[n]]
<1>1. FieldStored(n, "key") = [entry[slot[n]] EXCEPT !.key = frag[n]]
  BY DEF FieldStored
<1>2. FieldStored(n, "depth8") = [entry[slot[n]] EXCEPT !.depth8 = Store(n).depth8]
  BY DEF FieldStored
<1>3. FieldStored(n, "gb") = [entry[slot[n]] EXCEPT !.gb = Store(n).gb]
  BY DEF FieldStored
<1>4. FieldStored(n, "value") = [entry[slot[n]] EXCEPT !.value = tag[n]]
  BY DEF FieldStored
<1> QED BY <1>1, <1>2, <1>3, <1>4

\* The number of generations is positive, so that the clock stays on its face.
LEMMA NextGeneration ==
    ASSUME NEW g \in Generation
    PROVE  (g + 1) % GENERATIONS \in Generation
BY GenerationsAssumption DEF Generation

\* The table starts with its types.
LEMMA TypeInit == Init => TypeOK
BY ConstantTypes, BoundsAssumption DEF Init, TypeOK

\* A step of one node keeps the types.
LEMMA NodeKeepsTypes ==
    ASSUME TypeOK, NEW n \in Node, IdxInv(n), StoreInv(n),
           \/ \E k \in Fragment : Visit(n, k)
           \/ LocateKey(n) \/ LocateOccupied(n) \/ LocateRead(n) \/ LocateVictim(n)
           \/ \E p \in Payload : SaveBegin(n, p)
           \/ SaveLoad(n) \/ SaveMove(n) \/ SaveStore(n) \/ Leave(n)
    PROVE  TypeOK'
<1> USE ConstantTypes
<1>1. CASE \E k \in Fragment : Visit(n, k)
  BY <1>1 DEF TypeOK, Visit, tableVars, history
<1>2. CASE LocateKey(n)
  <2>1. idx[n] \in Slots /\ idx[n] + 1 \in Nat \ {0}
    BY <1>2 DEF TypeOK, LocateKey, IdxInv, Slots
  <2>2. slot' \in [Node -> Slots]
    BY <1>2, <2>1 DEF TypeOK, LocateKey
  <2>3. idx' \in [Node -> Nat \ {0}]
    BY <1>2, <2>1 DEF TypeOK, LocateKey
  <2>4. quiet' \in [Node -> BOOLEAN]
    BY <1>2 DEF TypeOK, LocateKey
  <2>5. pc' \in [Node -> {"idle", "scan", "occupied", "read", "victim", "node",
                         "load", "move", "store"}]
    BY <1>2 DEF TypeOK, LocateKey
  <2> QED BY <1>2, <2>2, <2>3, <2>4, <2>5 DEF TypeOK, LocateKey, tableVars
<1>3. CASE LocateOccupied(n)
  BY <1>3 DEF TypeOK, LocateOccupied, tableVars, history, IsOccupied
<1>4. CASE LocateRead(n)
  <2>1. Copy(n) \in Entries
    <3>1. /\ data[n] \in Entries /\ entry[slot[n]] \in Entries
          /\ ReadOrder[idx[n]] \in {"key", "depth8", "gb", "move", "value"}
      BY <1>4, OrderFields DEF TypeOK, LocateRead, IdxInv
    <3> QED BY <3>1, LoadTyped DEF Copy
  <2>2. data' \in [Node -> Entries]
    BY <1>4, <2>1, UpdateTyped DEF TypeOK, LocateRead, LocateReturn
  <2>3. idx' \in [Node -> Nat \ {0}]
    <3>1. \/ idx' = [idx EXCEPT ![n] = 1]
          \/ idx' = [idx EXCEPT ![n] = idx[n] + 1]
      BY <1>4 DEF LocateRead, LocateReturn
    <3>2. idx \in [Node -> Nat \ {0}] /\ 1 \in Nat \ {0} /\ idx[n] + 1 \in Nat \ {0}
      BY DEF TypeOK
    <3> QED BY <3>1, <3>2, UpdateTyped
  <2>6. found' \in [Node -> BOOLEAN]
    BY <1>4 DEF TypeOK, LocateRead, LocateReturn
  <2>4. quiet' \in [Node -> BOOLEAN]
    BY <1>4 DEF TypeOK, LocateRead, LocateReturn
  <2>5. pc' \in [Node -> {"idle", "scan", "occupied", "read", "victim", "node",
                         "load", "move", "store"}]
    BY <1>4 DEF TypeOK, LocateRead, LocateReturn
  <2> QED BY <1>4, <2>2, <2>3, <2>4, <2>5, <2>6 DEF TypeOK, LocateRead, tableVars
<1>5. CASE LocateVictim(n)
  <2>1. CASE idx[n] <= CLUSTER_SIZE
    <3>1. idx[n] \in Slots
      BY <2>1, ClusterAssumption DEF TypeOK, Slots
    <3>2. ~(idx[n] > CLUSTER_SIZE)
      BY <2>1, ClusterAssumption DEF TypeOK
    <3>3. /\ slot' = [slot EXCEPT ![n] = LessValuable(slot[n], idx[n])]
          /\ idx' = [idx EXCEPT ![n] = idx[n] + 1]
          /\ UNCHANGED <<pc, found, data, quiet>>
      BY <1>5, <3>2 DEF LocateVictim
    <3>4. LessValuable(slot[n], idx[n]) \in Slots
      BY <3>1 DEF TypeOK, LessValuable
    <3>5. slot' \in [Node -> Slots]
      BY <3>3, <3>4, UpdateTyped DEF TypeOK
    <3>6. idx' \in [Node -> Nat \ {0}]
      BY <3>3 DEF TypeOK
    <3> QED BY <1>5, <3>3, <3>5, <3>6 DEF TypeOK, LocateVictim, tableVars
  <2>2. CASE ~(idx[n] <= CLUSTER_SIZE)
    <3>1. LocateReturn(n) /\ UNCHANGED slot
      BY <1>5, <2>2 DEF LocateVictim
    <3>2. idx' \in [Node -> Nat \ {0}]
      BY <3>1 DEF TypeOK, LocateReturn
    <3> QED BY <1>5, <3>1, <3>2 DEF TypeOK, LocateVictim, LocateReturn, tableVars
  <2> QED BY <2>1, <2>2
<1>6. ASSUME NEW p \in Payload, SaveBegin(n, p)
      PROVE  TypeOK'
  <2> DEFINE s == [key |-> frag[n], depth8 |-> p.depth - DEPTH_NONE,
                   gb |-> [gen |-> generation8, bound |-> p.bound, pv |-> p.pv],
                   move |-> p.move, born |-> searches]
  <2>1. s \in Save
    BY DEF TypeOK, Save, GenBound
  <2>2. saves' = Append(saves, s) /\ saves' \in Seq(Save) /\ Len(saves') = Len(saves) + 1
    BY <1>6, <2>1 DEF TypeOK, SaveBegin
  <2>3. Len(saves) \in Nat
    BY DEF TypeOK
  <2>4. tag' \in [Node -> 0..Len(saves')]
    BY <1>6, <2>2, <2>3 DEF TypeOK, SaveBegin
  <2>5. old' \in [Node -> Entries]
    <3>1. entry[slot[n]] \in Entries /\ old[n] \in Entries
      BY DEF TypeOK
    <3>2. Loaded(n, "key") \in Entries
      BY <3>1, LoadTyped DEF Loaded
    <3> QED BY <1>6, <3>2, UpdateTyped DEF TypeOK, SaveBegin
  <2>6. raced' \in [Slots -> BOOLEAN] /\ alone' \in [Node -> BOOLEAN]
    BY <1>6 DEF TypeOK, SaveBegin
  <2>7. quiet' \in [Node -> BOOLEAN]
    BY <1>6 DEF TypeOK, SaveBegin
  <2> QED BY <1>6, <2>2, <2>4, <2>5, <2>6, <2>7 DEF TypeOK, SaveBegin, tableVars
<1>7. CASE SaveLoad(n)
  <2>1. old' \in [Node -> Entries]
    <3>1. /\ entry[slot[n]] \in Entries /\ old[n] \in Entries
          /\ LoadOrder[idx[n]] \in {"key", "depth8", "gb", "move", "value"}
      BY <1>7, LoadField DEF TypeOK, SaveLoad
    <3>2. Loaded(n, LoadOrder[idx[n]]) \in Entries
      BY <3>1, LoadTyped DEF Loaded
    <3> QED BY <1>7, <3>2, UpdateTyped DEF TypeOK, SaveLoad
  <2>2. idx' \in [Node -> Nat \ {0}]
    BY <1>7 DEF TypeOK, SaveLoad
  <2>3. pc' \in [Node -> {"idle", "scan", "occupied", "read", "victim", "node",
                         "load", "move", "store"}]
    BY <1>7 DEF TypeOK, SaveLoad
  <2> QED BY <1>7, <2>1, <2>2, <2>3 DEF TypeOK, SaveLoad, tableVars, history
<1>8. CASE SaveMove(n)
  <2>1. entry' \in [Slots -> Entries]
    <3>1. entry[slot[n]] \in Entries /\ slot[n] \in Slots /\ tag[n] \in Nat
      BY DEF TypeOK
    <3>2. MoveStored(n) \in Entries
      <4>1. (IF Store(n).move THEN tag[n] ELSE 0) \in Nat
        BY <3>1
      <4> DEFINE mv == IF Store(n).move THEN tag[n] ELSE 0
      <4>2. MoveStored(n) = [entry[slot[n]] EXCEPT !.move = mv]
        BY DEF MoveStored
      <4> HIDE DEF mv
      <4> QED BY <3>1, <4>1, <4>2 DEF Entries, mv
    <3> QED BY <1>8, <3>1, <3>2, UpdateTyped DEF TypeOK, SaveMove
  <2>2. idx' \in [Node -> Nat \ {0}]
    <3>1. \/ idx' = idx
          \/ idx' = [idx EXCEPT ![n] = 1]
          \/ idx' = [idx EXCEPT ![n] = idx[n] + 1]
      BY <1>8 DEF SaveMove, SaveReturn
    <3>2. idx \in [Node -> Nat \ {0}] /\ 1 \in Nat \ {0} /\ idx[n] + 1 \in Nat \ {0}
      BY DEF TypeOK
    <3> QED BY <3>1, <3>2, UpdateTyped
  <2>6. old' \in [Node -> Entries]
    BY <1>8 DEF TypeOK, SaveMove, SaveReturn
  <2>7. alone' \in [Node -> BOOLEAN]
    BY <1>8 DEF TypeOK, SaveMove, SaveReturn
  <2>3. tag' \in [Node -> 0..Len(saves)] /\ saves' = saves
    <3>1. (tag' = tag \/ tag' = [tag EXCEPT ![n] = 0]) /\ saves' = saves
      BY <1>8 DEF SaveMove, SaveReturn
    <3>2. 0 \in 0..Len(saves) /\ tag \in [Node -> 0..Len(saves)]
      BY DEF TypeOK
    <3> QED BY <3>1, <3>2, UpdateTyped
  <2>4. pc' \in [Node -> {"idle", "scan", "occupied", "read", "victim", "node",
                         "load", "move", "store"}]
    <3>1. \/ pc' = [pc EXCEPT ![n] = "node"]
          \/ pc' = [pc EXCEPT ![n] = "store"]
      BY <1>8 DEF SaveMove, SaveReturn
    <3> QED BY <3>1 DEF TypeOK
  <2> QED BY <1>8, <2>1, <2>2, <2>3, <2>4, <2>6, <2>7 DEF TypeOK, SaveMove
<1>9. CASE SaveStore(n)
  <2>1. entry' \in [Slots -> Entries]
    <3>1. /\ entry[slot[n]] \in Entries /\ slot[n] \in Slots
          /\ frag[n] \in Fragment /\ tag[n] \in Nat
      BY DEF TypeOK
    <3>2. Store(n) \in Save
      BY <1>9 DEF TypeOK, StoreInv, SaveStore, Store
    <3>3. Store(n).depth8 \in 0..255 /\ Store(n).gb \in GenBound
      BY <3>2 DEF Save
    <3>4. /\ [entry[slot[n]] EXCEPT !.key = frag[n]] \in Entries
          /\ [entry[slot[n]] EXCEPT !.depth8 = Store(n).depth8] \in Entries
          /\ [entry[slot[n]] EXCEPT !.gb = Store(n).gb] \in Entries
          /\ [entry[slot[n]] EXCEPT !.value = tag[n]] \in Entries
      BY <3>1, <3>3 DEF Entries
    <3>5. FieldStored(n, StoreOrder[idx[n]]) \in Entries
      BY <1>9, <3>4, FieldStoredIs, StoreField DEF SaveStore
    <3> QED BY <1>9, <3>1, <3>5, UpdateTyped DEF TypeOK, SaveStore
  <2>2. idx' \in [Node -> Nat \ {0}]
    <3>1. \/ idx' = idx
          \/ idx' = [idx EXCEPT ![n] = 1]
          \/ idx' = [idx EXCEPT ![n] = idx[n] + 1]
      BY <1>9 DEF SaveStore, SaveReturn
    <3>2. idx \in [Node -> Nat \ {0}] /\ 1 \in Nat \ {0} /\ idx[n] + 1 \in Nat \ {0}
      BY DEF TypeOK
    <3> QED BY <3>1, <3>2, UpdateTyped
  <2>6. old' \in [Node -> Entries]
    BY <1>9 DEF TypeOK, SaveStore, SaveReturn
  <2>7. alone' \in [Node -> BOOLEAN]
    BY <1>9 DEF TypeOK, SaveStore, SaveReturn
  <2>3. tag' \in [Node -> 0..Len(saves)] /\ saves' = saves
    BY <1>9 DEF TypeOK, SaveStore, SaveReturn
  <2>4. raced' \in [Slots -> BOOLEAN]
    BY <1>9 DEF TypeOK, SaveStore
  <2>5. pc' \in [Node -> {"idle", "scan", "occupied", "read", "victim", "node",
                         "load", "move", "store"}]
    BY <1>9 DEF TypeOK, SaveStore, SaveReturn
  <2> QED BY <1>9, <2>1, <2>2, <2>3, <2>4, <2>5, <2>6, <2>7 DEF TypeOK, SaveStore
<1>10. CASE Leave(n)
  BY <1>10 DEF TypeOK, Leave, tableVars, history
<1> QED BY <1>1, <1>2, <1>3, <1>4, <1>5, <1>6, <1>7, <1>8, <1>9, <1>10

\* Every step keeps the types, given where the stores stand.
LEMMA TypeStep ==
    ASSUME TypeOK, \A n \in Node : IdxInv(n), \A n \in Node : StoreInv(n), [Next]_vars
    PROVE  TypeOK'
<1>1. CASE NewSearch
  BY <1>1, NextGeneration DEF TypeOK, NewSearch, nodeVars
<1>2. CASE Clear \/ Resize
  <2>1. \A n \in Node : pc[n] = "idle"
    BY <1>2 DEF Clear, Resize, NoSearch
  <2>2. tag' \in [Node -> 0..Len(saves')]
    <3>1. \A n \in Node : tag[n] = 0
      BY <2>1 DEF IdxInv
    <3>2. saves' = <<>> /\ tag' = tag
      BY <1>2 DEF Clear, Resize, ZeroEntries, nodeVars
    <3> QED BY <3>1, <3>2 DEF TypeOK
  <2>3. saves' \in Seq(Save)
    <3>1. saves' = <<>>
      BY <1>2 DEF Clear, Resize, ZeroEntries
    <3> HIDE DEF Save
    <3>2. <<>> \in Seq(Save)
      OBVIOUS
    <3> QED BY <3>1, <3>2
  <2>4. searches' \in Nat /\ generation8' \in Generation
    BY <1>2, ConstantTypes DEF TypeOK, Clear, Resize
  <2> QED BY <1>2, <2>2, <2>3, <2>4, ConstantTypes DEF TypeOK, Clear, Resize, ZeroEntries, nodeVars
<1>3. CASE UNCHANGED vars
  BY <1>3 DEF TypeOK, vars
<1> QED BY <1>1, <1>2, <1>3, NodeKeepsTypes DEF Next

-----------------------------------------------------------------------------
(* The inductive invariant: what a step of one node leaves to the others. *)

\* What every step of a store leaves alone.
LEMMA SaveFrame ==
    ASSUME TypeOK, NEW n \in Node, SaveLoad(n) \/ SaveMove(n) \/ SaveStore(n)
    PROVE  /\ pc[n] \in {"load", "move", "store"}
           /\ pc'[n] \in {"load", "move", "store", "node"}
           /\ \A m \in Node : m # n =>
                pc'[m] = pc[m] /\ idx'[m] = idx[m] /\ old'[m] = old[m]
                /\ tag'[m] = tag[m] /\ alone'[m] = alone[m]
           /\ UNCHANGED <<frag, slot, found, data, quiet, saves>>
           /\ \A e \in Slots : e # slot[n] => entry'[e] = entry[e] /\ raced'[e] = raced[e]
           /\ ~alone[n] => raced' = raced
<1>1. CASE SaveLoad(n)
  BY <1>1 DEF SaveLoad, TypeOK, tableVars, history
<1>2. CASE SaveMove(n)
  BY <1>2 DEF SaveMove, SaveReturn, TypeOK
<1>3. CASE SaveStore(n)
  <2>1. ~alone[n] => raced' = raced
    <3>1. \/ raced' = raced
          \/ raced' = [raced EXCEPT ![slot[n]] = raced[slot[n]] /\ ~(alone[n] /\ WritesMove(n))]
      BY <1>3 DEF SaveStore
    <3>2. ~alone[n] => (raced[slot[n]] /\ ~(alone[n] /\ WritesMove(n))) = raced[slot[n]]
      BY DEF TypeOK
    <3> QED BY <3>1, <3>2 DEF TypeOK
  <2> QED BY <1>3, <2>1 DEF SaveStore, SaveReturn, TypeOK
<1> QED BY <1>1, <1>2, <1>3

\* A node storing elsewhere, or one whose claims on the entry a race has
\* voided, keeps its invariant.
LEMMA SaveKeepsOthers ==
    ASSUME IInv, NEW n \in Node, SaveLoad(n) \/ SaveMove(n) \/ SaveStore(n),
           NEW m \in Node, m # n
    PROVE  StoreInv(m)' /\ ReadInv(m)' /\ IdxInv(m)'
<1>1. StoreInv(m) /\ StoreInv(n) /\ ReadInv(m) /\ IdxInv(m) /\ slot[m] \in Slots
  BY DEF IInv, TypeOK
<1>2. Saving(slot[m])' \subseteq Saving(slot[m])
  BY SaveFrame DEF IInv, Saving
<1>3. ReadInv(m)'
  <2>1. CASE pc[m] \in {"occupied", "read"} /\ quiet[m]
    <3>1. slot[m] # slot[n]
      BY <1>1, <2>1, SaveFrame DEF IInv, ReadInv, Saving
    <3> QED BY <1>1, <1>2, <2>1, <3>1, SaveFrame DEF IInv, ReadInv, IsOccupied
  <2>2. CASE ~(pc[m] \in {"occupied", "read"} /\ quiet[m])
    BY <2>2, SaveFrame DEF IInv, ReadInv
  <2> QED BY <2>1, <2>2
<1>4. IdxInv(m)'
  BY <1>1, SaveFrame DEF IInv, IdxInv
<1>5. StoreInv(m)'
  <2>1. CASE pc[m] \notin {"load", "move", "store"}
    BY <2>1, SaveFrame DEF IInv, StoreInv
  <2>2. CASE pc[m] \in {"load", "move", "store"} /\ slot[m] = slot[n]
    <3>1. ~alone[m] /\ ~alone[n]
      BY <1>1, <2>2, SaveFrame DEF IInv, StoreInv, Saving
    <3> QED BY <1>1, <1>2, <2>2, <3>1, SaveFrame DEF IInv, StoreInv, Store
  <2>3. CASE pc[m] \in {"load", "move", "store"} /\ slot[m] # slot[n]
    <3>1. ProgressInv(m, entry[slot[m]])' <=> ProgressInv(m, entry[slot[m]])
      <4>1. /\ pc'[m] = pc[m] /\ idx'[m] = idx[m] /\ old'[m] = old[m] /\ tag'[m] = tag[m]
            /\ frag' = frag /\ slot' = slot /\ saves' = saves
            /\ entry'[slot'[m]] = entry[slot[m]] /\ raced'[slot'[m]] = raced[slot[m]]
        BY <1>1, <2>3, SaveFrame DEF IInv
      <4>2. EntryOK(entry[slot[m]])' <=> EntryOK(entry[slot[m]])
        BY <4>1 DEF EntryOK, WholeFor, IsOccupied
      <4>3. Store(m)' = Store(m) /\ (WritesMove(m)' <=> WritesMove(m))
        BY <4>1 DEF Store, WritesMove
      <4>4. IsOccupied(entry[slot[m]])' <=> IsOccupied(entry[slot[m]])
        BY <4>1 DEF IsOccupied
      <4> QED BY <4>1, <4>2, <4>3, <4>4 DEF ProgressInv
    <3> QED BY <1>1, <1>2, <2>3, <3>1, SaveFrame DEF IInv, StoreInv, Store
  <2> QED BY <2>1, <2>2, <2>3
<1> QED BY <1>3, <1>4, <1>5

\* Entries at rest elsewhere stay so, and the node's own is not at rest while
\* the node goes on storing.
LEMMA SaveKeepsRest ==
    ASSUME IInv, NEW n \in Node, SaveLoad(n) \/ SaveMove(n) \/ SaveStore(n),
           NEW e \in Slots, e # slot[n] \/ pc'[n] # "node"
    PROVE  RestInv(e)'
<1>1. CASE e # slot[n]
  <2>1. Saving(e)' = Saving(e) /\ raced'[e] = raced[e] /\ entry'[e] = entry[e] /\ saves' = saves
    BY <1>1, SaveFrame DEF IInv, Saving
  <2>2. EntryOK(entry[e])' <=> EntryOK(entry[e])
    BY <2>1 DEF EntryOK, WholeFor, IsOccupied
  <2> QED BY <2>1, <2>2 DEF IInv, RestInv
<1>2. CASE e = slot[n] /\ pc'[n] # "node"
  <2>1. n \in Saving(e)'
    BY <1>2, SaveFrame DEF IInv, Saving
  <2> QED BY <2>1 DEF RestInv
<1> QED BY <1>1, <1>2

\* A store's load keeps what holds of its own node.
LEMMA SaveLoadKeepsOwn ==
    ASSUME IInv, NEW n \in Node, SaveLoad(n)
    PROVE  StoreInv(n)' /\ ReadInv(n)' /\ IdxInv(n)' /\ pc'[n] # "node"
<1>1. StoreInv(n) /\ IdxInv(n) /\ TypeOK
  BY DEF IInv
<1>2. /\ pc[n] = "load" /\ pc'[n] \in {"load", "move"}
      /\ UNCHANGED <<entry, frag, slot, found, data, tag, saves, raced, alone, quiet>>
  BY <1>1 DEF TypeOK, SaveLoad, tableVars, history
<1>3. Saving(slot[n])' \subseteq Saving(slot[n])
  BY <1>1, <1>2, SaveFrame DEF Saving
<1>4. \/ idx[n] = 2 /\ pc'[n] = "load" /\ idx'[n] = 3
      \/ idx[n] = 3 /\ pc'[n] = "move"
  BY <1>1, <1>2, OrderFields DEF TypeOK, SaveLoad, IdxInv
<1>5. /\ old'[n].key = old[n].key
      /\ idx[n] = 2 => old'[n].depth8 = entry[slot[n]].depth8
      /\ idx[n] = 3 => old'[n].depth8 = old[n].depth8
  <2>1. old'[n] = Loaded(n, LoadOrder[idx[n]])
    BY <1>1 DEF TypeOK, SaveLoad
  <2>2. old[n] \in Entries
    BY <1>1 DEF TypeOK
  <2>3. CASE idx[n] = 2
    <3>1. old'[n] = [old[n] EXCEPT !.depth8 = entry[slot[n]].depth8]
      BY <2>1, <2>3, OrderFields DEF Loaded
    <3> QED BY <2>2, <2>3, <3>1 DEF Entries
  <2>4. CASE idx[n] = 3
    <3>1. old'[n] = [old[n] EXCEPT !.gb = entry[slot[n]].gb]
      BY <2>1, <2>4, OrderFields DEF Loaded
    <3> QED BY <2>2, <2>4, <3>1 DEF Entries
  <2> QED BY <1>4, <2>3, <2>4
<1>6. StoreInv(n)'
  <2>1. EntryOK(entry[slot[n]])' <=> EntryOK(entry[slot[n]])
    BY <1>2 DEF EntryOK, WholeFor, IsOccupied
  <2>2. IsOccupied(entry[slot[n]])' <=> IsOccupied(entry[slot[n]])
    BY <1>2 DEF IsOccupied
  <2>3. alone[n] => ProgressInv(n, entry[slot[n]])'
    BY <1>1, <1>2, <1>4, <1>5, <2>1, <2>2 DEF StoreInv, ProgressInv
  <2> QED BY <1>1, <1>2, <1>3, <2>3 DEF StoreInv, Store
<1> QED BY <1>1, <1>2, <1>4, <1>6 DEF ReadInv, IdxInv

\* What the move's store leaves in the entry.
LEMMA MoveStoredIs ==
    ASSUME TypeOK, NEW n \in Node, SaveMove(n)
    PROVE  LET en == entry[slot[n]]
               new == entry'[slot[n]]
           IN /\ new.key = en.key /\ new.depth8 = en.depth8 /\ new.gb = en.gb
              /\ new.value = en.value
              /\ WritesMove(n) => new.move = IF Store(n).move THEN tag[n] ELSE 0
              /\ ~WritesMove(n) => new.move = en.move
<1>1. entry[slot[n]] \in Entries /\ slot[n] \in Slots
  BY DEF TypeOK
<1>2. CASE WritesMove(n)
  <2> DEFINE mv == IF Store(n).move THEN tag[n] ELSE 0
  <2>1. entry'[slot[n]] = [entry[slot[n]] EXCEPT !.move = mv]
    BY <1>1, <1>2 DEF SaveMove, MoveStored, TypeOK
  <2> HIDE DEF mv
  <2>2. entry'[slot[n]].move = mv
    BY <1>1, <2>1 DEF Entries
  <2>3. LET en == entry[slot[n]]
            new == entry'[slot[n]]
        IN new.key = en.key /\ new.depth8 = en.depth8 /\ new.gb = en.gb /\ new.value = en.value
    BY <1>1, <2>1 DEF Entries
  <2> QED BY <1>2, <2>2, <2>3 DEF mv
<1>3. CASE ~WritesMove(n)
  BY <1>1, <1>3 DEF SaveMove
<1> QED BY <1>2, <1>3

\* So does its move, and an entry it ends with is at rest.
LEMMA SaveMoveKeepsOwn ==
    ASSUME IInv, NEW n \in Node, SaveMove(n)
    PROVE  StoreInv(n)' /\ ReadInv(n)' /\ IdxInv(n)' /\ (pc'[n] = "node" => RestInv(slot[n])')
<1> DEFINE en == entry[slot[n]]
           new == entry'[slot[n]]
<1>1. StoreInv(n) /\ IdxInv(n) /\ TypeOK /\ slot[n] \in Slots /\ en \in Entries
  BY DEF IInv, TypeOK
<1>2. /\ pc[n] = "move"
      /\ UNCHANGED <<frag, slot, found, data, saves, raced, quiet>>
  BY DEF SaveMove
<1>3. /\ tag[n] \in 1..Len(saves) /\ Store(n) \in Save /\ Store(n).key = frag[n]
      /\ Len(saves) \in Nat
  BY <1>1, <1>2 DEF StoreInv, TypeOK, Store
<1>4. ~raced[slot[n]] => /\ alone[n] /\ EntryOK(en) /\ en.move < tag[n]
                         /\ IsOccupied(en) => en.value < tag[n]
  BY <1>1, <1>2 DEF StoreInv, ProgressInv
<1>5. alone[n] => old[n].key = en.key /\ old[n].depth8 = en.depth8
  BY <1>1, <1>2 DEF StoreInv, ProgressInv
<1>6. CASE Replaces(n)
  <2>1. /\ pc' = [pc EXCEPT ![n] = "store"] /\ idx' = [idx EXCEPT ![n] = 1]
        /\ UNCHANGED <<old, tag, alone>>
    BY <1>6 DEF SaveMove
  <2>2. /\ pc'[n] = "store" /\ idx'[n] = 1 /\ tag'[n] = tag[n] /\ alone'[n] = alone[n]
        /\ slot'[n] = slot[n] /\ frag'[n] = frag[n] /\ raced'[slot'[n]] = raced[slot[n]]
    BY <1>1, <1>2, <2>1 DEF TypeOK
  <2>3. Store(n)' = Store(n) /\ (WritesMove(n)' <=> WritesMove(n))
    BY <1>2, <2>1 DEF Store, WritesMove
  <2>4. alone[n] => ProgressInv(n, entry[slot[n]])'
    <3>1. WritesMove(n) => new.move = IF Store(n).move THEN tag[n] ELSE 0
      BY <1>1, MoveStoredIs
    <3>2. ASSUME ~WritesMove(n), ~raced[slot[n]], new.move # 0
          PROVE  new.move \in 1..Len(saves) /\ saves[new.move].key = frag[n]
      <4>1. new.move = en.move /\ frag[n] = old[n].key /\ old[n].key = en.key
        BY <1>1, <1>4, <1>5, <3>2, MoveStoredIs DEF WritesMove
      <4> QED BY <1>4, <3>2, <4>1 DEF EntryOK, WholeFor
    <3> QED BY <1>2, <2>2, <2>3, <3>1, <3>2 DEF ProgressInv
  <2>5. Saving(slot[n])' \subseteq Saving(slot[n])
    BY <1>1, SaveFrame DEF Saving
  <2>6. StoreInv(n)'
    BY <1>1, <1>2, <1>3, <2>2, <2>3, <2>4, <2>5 DEF StoreInv
  <2> QED BY <2>2, <2>6 DEF ReadInv, IdxInv
<1>7. CASE ~Replaces(n)
  <2>1. /\ pc'[n] = "node" /\ tag'[n] = 0
    BY <1>1, <1>7 DEF SaveMove, SaveReturn, TypeOK
  <2>2. RestInv(slot[n])'
    <3>1. SUFFICES ASSUME ~raced[slot[n]]
                   PROVE  EntryOK(entry[slot[n]])'
      BY <1>2 DEF RestInv
    <3>2. frag[n] = old[n].key /\ ~(Store(n).depth8 + (IF Store(n).gb.pv THEN 2 ELSE 0)
                                     > old[n].depth8 - 4)
      BY <1>7 DEF Replaces
    <3>3. IsOccupied(en)
      <4>1. old[n].depth8 = en.depth8
        BY <1>4, <1>5, <3>1
      <4>2. en.depth8 \in 0..255 /\ Store(n).depth8 \in 1..255
        BY <1>1, <1>3 DEF Save, Entries
      <4> DEFINE x == IF Store(n).gb.pv THEN 2 ELSE 0
      <4>3. x \in {0, 2}
        OBVIOUS
      <4>4. ~(Store(n).depth8 + x > en.depth8 - 4)
        BY <3>2, <4>1
      <4> HIDE DEF x
      <4>5. en.depth8 # 0
        BY <4>2, <4>3, <4>4
      <4> QED BY <4>5 DEF IsOccupied
    <3>4. WholeFor(en, en.key) /\ en.value < tag[n] /\ en.key = frag[n]
      BY <1>4, <1>5, <3>1, <3>2, <3>3 DEF EntryOK
    <3>5. WritesMove(n) => Store(n).move
      BY <3>2 DEF WritesMove
    <3>6. /\ new.key = en.key /\ new.depth8 = en.depth8 /\ new.gb = en.gb
          /\ new.value = en.value
          /\ new.move = tag[n] \/ new.move = en.move
      BY <1>1, <3>5, MoveStoredIs
    <3>7. WholeFor(entry[slot[n]], entry[slot[n]].key)'
      <4>1. en.value \in 1..Len(saves) /\ saves[tag[n]].key = frag[n]
        BY <1>3, <3>4 DEF WholeFor, Store
      <4>2. new.move # 0 => new.move \in 1..Len(saves) /\ saves[new.move].key = new.key
        BY <1>3, <3>4, <3>6, <4>1 DEF WholeFor
      <4>3. saves[new.value].move => new.move >= new.value
        BY <1>1, <1>3, <3>4, <3>6, <4>1 DEF WholeFor, Entries
      <4> QED BY <1>2, <3>4, <3>6, <4>1, <4>2, <4>3 DEF WholeFor
    <3> QED BY <1>2, <3>3, <3>6, <3>7 DEF EntryOK, IsOccupied
  <2> QED BY <2>1, <2>2 DEF StoreInv, ReadInv, IdxInv
<1> QED BY <1>6, <1>7

\* What each of the stores leaves in the entry.
LEMMA StoredIs ==
    ASSUME TypeOK, NEW n \in Node, IdxInv(n), SaveStore(n)
    PROVE  LET en == entry[slot[n]]
               new == entry'[slot[n]]
           IN /\ new.move = en.move
              /\ idx[n] \in 1..4
              /\ new.key = IF idx[n] = 1 THEN frag[n] ELSE en.key
              /\ new.depth8 = IF idx[n] = 2 THEN Store(n).depth8 ELSE en.depth8
              /\ new.gb = IF idx[n] = 3 THEN Store(n).gb ELSE en.gb
              /\ new.value = IF idx[n] = 4 THEN tag[n] ELSE en.value
<1> DEFINE en == entry[slot[n]]
           new == entry'[slot[n]]
<1>1. en \in Entries /\ slot[n] \in Slots /\ pc[n] = "store"
  BY DEF TypeOK, SaveStore
<1>2. new = FieldStored(n, StoreOrder[idx[n]])
  BY <1>1 DEF SaveStore, TypeOK
<1>3. \/ idx[n] = 1 /\ new = [en EXCEPT !.key = frag[n]]
      \/ idx[n] = 2 /\ new = [en EXCEPT !.depth8 = Store(n).depth8]
      \/ idx[n] = 3 /\ new = [en EXCEPT !.gb = Store(n).gb]
      \/ idx[n] = 4 /\ new = [en EXCEPT !.value = tag[n]]
  BY <1>1, <1>2, StoreField, FieldStoredIs
<1> HIDE DEF new
<1> QED BY <1>1, <1>3 DEF Entries, new

\* So does each field it writes, and the last one leaves the entry at rest.
LEMMA SaveStoreKeepsOwn ==
    ASSUME IInv, NEW n \in Node, SaveStore(n)
    PROVE  StoreInv(n)' /\ ReadInv(n)' /\ IdxInv(n)' /\ (pc'[n] = "node" => RestInv(slot[n])')
<1> DEFINE en == entry[slot[n]]
           new == entry'[slot[n]]
<1>1. StoreInv(n) /\ IdxInv(n) /\ TypeOK /\ slot[n] \in Slots /\ en \in Entries
  BY DEF IInv, TypeOK
<1>2. /\ pc[n] = "store" /\ idx[n] \in 1..4
      /\ UNCHANGED <<frag, slot, found, data, saves, quiet>>
  BY <1>1 DEF SaveStore, IdxInv
<1>3. /\ tag[n] \in 1..Len(saves) /\ Store(n) \in Save /\ Store(n).key = frag[n]
      /\ Len(saves) \in Nat
  BY <1>1, <1>2 DEF StoreInv, TypeOK, Store
<1>4. alone[n] => ProgressInv(n, en)
  BY <1>1, <1>2 DEF StoreInv
<1>5. ~alone[n] => raced[slot[n]]
  BY <1>1, <1>2 DEF StoreInv
<1>6. CASE idx[n] < 4
  <2>1. /\ idx' = [idx EXCEPT ![n] = idx[n] + 1]
        /\ UNCHANGED <<pc, old, tag, raced, alone>>
    BY <1>6, <1>2, OrderFields DEF SaveStore
  <2>2. /\ pc'[n] = "store" /\ idx'[n] = idx[n] + 1 /\ tag'[n] = tag[n]
        /\ raced'[slot'[n]] = raced[slot[n]] /\ old' = old /\ alone' = alone
    BY <1>1, <1>2, <2>1 DEF TypeOK
  <2>3. Store(n)' = Store(n) /\ (WritesMove(n)' <=> WritesMove(n))
    BY <1>2, <2>1 DEF Store, WritesMove
  <2>4. alone[n] => ProgressInv(n, entry[slot[n]])'
    <3>1. /\ idx'[n] > 1 /\ alone[n] => new.key = frag[n]
          /\ idx'[n] > 2 /\ alone[n] => new.depth8 = Store(n).depth8
          /\ idx'[n] > 3 /\ alone[n] => new.gb = Store(n).gb
          /\ new.move = en.move
      <4>1. /\ idx[n] > 1 /\ alone[n] => en.key = frag[n]
            /\ idx[n] > 2 /\ alone[n] => en.depth8 = Store(n).depth8
            /\ idx[n] > 3 /\ alone[n] => en.gb = Store(n).gb
        BY <1>2, <1>4 DEF ProgressInv
      <4>2. CASE idx[n] = 1
        BY <1>1, <1>2, <2>2, <4>1, <4>2, StoredIs
      <4>3. CASE idx[n] = 2
        BY <1>1, <1>2, <2>2, <4>1, <4>3, StoredIs
      <4>4. CASE idx[n] = 3
        BY <1>1, <1>2, <2>2, <4>1, <4>4, StoredIs
      <4> QED BY <1>2, <1>6, <4>2, <4>3, <4>4
    <3>2. alone[n] =>
            /\ WritesMove(n) => new.move = IF Store(n).move THEN tag[n] ELSE 0
            /\ ~WritesMove(n) /\ ~raced[slot[n]] /\ new.move # 0
                 => new.move \in 1..Len(saves) /\ saves[new.move].key = frag[n]
      BY <1>2, <1>4, <3>1 DEF ProgressInv
    <3> QED BY <1>2, <2>2, <2>3, <3>1, <3>2 DEF ProgressInv
  <2>5. Saving(slot[n])' \subseteq Saving(slot[n])
    BY <1>1, SaveFrame DEF Saving
  <2>6. StoreInv(n)'
    BY <1>1, <1>2, <1>3, <2>2, <2>3, <2>4, <2>5 DEF StoreInv
  <2>7. idx'[n] \in 1..4
    BY <1>2, <1>6, <2>2
  <2> QED BY <2>2, <2>6, <2>7 DEF ReadInv, IdxInv
<1>7. CASE idx[n] = 4
  <2>1. /\ raced' = [raced EXCEPT ![slot[n]] = raced[slot[n]] /\ ~(alone[n] /\ WritesMove(n))]
        /\ SaveReturn(n)
    BY <1>7, OrderFields DEF SaveStore
  <2>2. pc'[n] = "node" /\ tag'[n] = 0
    BY <1>1, <2>1 DEF SaveReturn, TypeOK
  <2>3. RestInv(slot[n])'
    <3>1. SUFFICES ASSUME ~raced'[slot[n]]
                   PROVE  EntryOK(entry[slot[n]])'
      BY <1>2 DEF RestInv
    <3>2. ~raced[slot[n]] \/ (alone[n] /\ WritesMove(n))
      BY <1>1, <2>1, <3>1 DEF TypeOK
    <3>3. ProgressInv(n, en)
      BY <1>4, <1>5, <3>2
    <3>4. /\ new.key = frag[n] /\ new.depth8 = Store(n).depth8 /\ new.gb = Store(n).gb
          /\ new.value = tag[n] /\ new.move = en.move
      BY <1>1, <1>2, <1>7, <3>3, StoredIs DEF ProgressInv
    <3>5. IsOccupied(new)
      <4>1. Store(n).depth8 \in 1..255
        BY <1>3 DEF Save
      <4>2. new.depth8 \in 1..255
        BY <3>4, <4>1
      <4> HIDE DEF new
      <4> QED BY <4>2 DEF IsOccupied
    <3>6. /\ new.move # 0 => new.move \in 1..Len(saves) /\ saves[new.move].key = frag[n]
          /\ Store(n).move => new.move >= tag[n]
      <4>1. CASE WritesMove(n)
        <5>1. en.move = IF Store(n).move THEN tag[n] ELSE 0
          BY <1>2, <3>3, <4>1 DEF ProgressInv
        <5> QED BY <1>3, <3>4, <5>1 DEF Store
      <4>2. CASE ~WritesMove(n)
        BY <1>2, <3>2, <3>3, <3>4, <4>2 DEF ProgressInv, WritesMove
      <4> QED BY <4>1, <4>2
    <3>7. WholeFor(entry[slot[n]], entry[slot[n]].key)'
      BY <1>2, <1>3, <3>4, <3>6 DEF WholeFor, Store
    <3> QED BY <1>2, <3>5, <3>7 DEF EntryOK, IsOccupied
  <2> QED BY <2>2, <2>3 DEF StoreInv, ReadInv, IdxInv
<1> QED BY <1>2, <1>6, <1>7


\* A store begins: its number is new, and all that was stored is still there.
LEMMA BeginFrame ==
    ASSUME TypeOK, NEW n \in Node, NEW p \in Payload, SaveBegin(n, p)
    PROVE  /\ pc[n] = "node" /\ pc'[n] = "load" /\ idx'[n] = 2
           /\ tag'[n] = Len(saves) + 1 /\ saves'[tag'[n]].key = frag[n]
           /\ old'[n].key = entry[slot[n]].key
           /\ Len(saves) \in Nat /\ Len(saves') = Len(saves) + 1
           /\ \A t \in 1..Len(saves) : saves'[t] = saves[t]
           /\ UNCHANGED <<entry, frag, slot, found, data>>
           /\ \A m \in Node : m # n =>
                pc'[m] = pc[m] /\ idx'[m] = idx[m] /\ old'[m] = old[m] /\ tag'[m] = tag[m]
<1> DEFINE s == [key |-> frag[n], depth8 |-> p.depth - DEPTH_NONE,
                 gb |-> [gen |-> generation8, bound |-> p.bound, pv |-> p.pv],
                 move |-> p.move, born |-> searches]
<1>1. saves \in Seq(Save) /\ saves' = Append(saves, s)
  BY DEF TypeOK, SaveBegin
<1>2. s.key = frag[n]
  OBVIOUS
<1>3. s \in Save
  BY ConstantTypes DEF TypeOK, Save, GenBound
<1> HIDE DEF s
<1>4. /\ Len(saves) \in Nat /\ Len(saves') = Len(saves) + 1
      /\ \A t \in 1..Len(saves) : saves'[t] = saves[t]
      /\ saves'[Len(saves) + 1] = s
  <2> HIDE DEF Save
  <2> QED BY <1>1, <1>3
<1>5. /\ pc[n] = "node" /\ pc'[n] = "load" /\ idx'[n] = 2 /\ tag'[n] = Len(saves) + 1
      /\ UNCHANGED <<entry, frag, slot, found, data>>
      /\ old'[n] = Loaded(n, "key")
      /\ \A m \in Node : m # n =>
           pc'[m] = pc[m] /\ idx'[m] = idx[m] /\ old'[m] = old[m] /\ tag'[m] = tag[m]
  BY DEF TypeOK, SaveBegin, tableVars
<1>6. Loaded(n, "key").key = entry[slot[n]].key
  <2>1. old[n] \in Entries
    BY DEF TypeOK
  <2> QED BY <2>1 DEF Loaded, Entries
<1> QED BY <1>2, <1>4, <1>5, <1>6

\* How a store that begins marks the others.
LEMMA BeginMarks ==
    ASSUME TypeOK, NEW n \in Node, NEW p \in Payload, SaveBegin(n, p)
    PROVE  /\ alone'[n] <=> Saving(slot[n]) = {}
           /\ raced'[slot[n]] <=> raced[slot[n]] \/ Saving(slot[n]) # {}
           /\ \A e \in Slots : e # slot[n] => (raced'[e] <=> raced[e])
           /\ \A m \in Node : m # n => (alone'[m] <=> alone[m] /\ m \notin Saving(slot[n]))
           /\ \A m \in Node : quiet'[m] <=> quiet[m] /\ m \notin Reading(slot[n])
<1>1. /\ alone'[n] <=> Saving(slot[n]) = {}
      /\ \A m \in Node : m # n => (alone'[m] <=> alone[m] /\ m \notin Saving(slot[n]))
  BY DEF SaveBegin
<1>2. \A m \in Node : quiet'[m] <=> quiet[m] /\ m \notin Reading(slot[n])
  BY DEF SaveBegin
<1>3. /\ raced'[slot[n]] <=> raced[slot[n]] \/ Saving(slot[n]) # {}
      /\ \A e \in Slots : e # slot[n] => (raced'[e] <=> raced[e])
  BY DEF SaveBegin, TypeOK
<1> QED BY <1>1, <1>2, <1>3

\* What was whole stays whole, and is older than the store that begins.
LEMMA BeginKeepsWhole ==
    ASSUME TypeOK, NEW n \in Node, NEW p \in Payload, SaveBegin(n, p),
           NEW e \in Slots, EntryOK(entry[e])
    PROVE  /\ EntryOK(entry[e])'
           /\ entry[e].move <= Len(saves)
           /\ IsOccupied(entry[e]) => entry[e].value <= Len(saves)
<1>1. CASE IsOccupied(entry[e])
  <2>1. WholeFor(entry[e], entry[e].key)
    BY <1>1 DEF EntryOK
  <2>2. entry[e].value \in 1..Len(saves)
    BY <2>1 DEF WholeFor
  <2>3. entry[e].move # 0 => entry[e].move \in 1..Len(saves)
    BY <2>1 DEF WholeFor
  <2>4. WholeFor(entry[e], entry[e].key)'
    BY <2>1, <2>2, <2>3, BeginFrame DEF WholeFor
  <2>5. IsOccupied(entry[e])'
    BY <1>1, BeginFrame DEF IsOccupied
  <2>6. entry[e].move <= Len(saves) /\ entry[e].value <= Len(saves)
    BY <2>2, <2>3, BeginFrame
  <2> QED BY <2>4, <2>5, <2>6 DEF EntryOK
<1>2. CASE ~IsOccupied(entry[e])
  BY <1>2, BeginFrame DEF EntryOK, IsOccupied
<1> QED BY <1>1, <1>2

\* A store that begins elsewhere leaves what another node located.
LEMMA BeginKeepsLocated ==
    ASSUME TypeOK, NEW n \in Node, NEW p \in Payload, SaveBegin(n, p),
           NEW m \in Node, EntryOK(entry[slot[m]])
    PROVE  /\ EntryOK(entry[slot[m]])'
           /\ entry[slot[m]].move <= Len(saves)
           /\ IsOccupied(entry[slot[m]]) => entry[slot[m]].value <= Len(saves)
<1>1. PICK e \in Slots : e = slot[m]
  BY DEF TypeOK
<1>2. EntryOK(entry[e])
  BY <1>1
<1>3. /\ EntryOK(entry[e])'
      /\ entry[e].move <= Len(saves)
      /\ IsOccupied(entry[e]) => entry[e].value <= Len(saves)
  BY <1>2, BeginKeepsWhole
<1>4. slot'[m] = e
  BY <1>1, BeginFrame
<1> QED BY <1>1, <1>3, <1>4 DEF EntryOK, WholeFor, IsOccupied

\* The beginning of a store keeps the invariant.
LEMMA SaveBeginKeeps ==
    ASSUME IInv, NEW n \in Node, NEW p \in Payload, SaveBegin(n, p)
    PROVE  /\ \A m \in Node : IdxInv(m)' /\ StoreInv(m)' /\ ReadInv(m)'
           /\ \A e \in Slots : RestInv(e)'
<1>1. TypeOK /\ slot[n] \in Slots
  BY DEF IInv, TypeOK
<1>2. ASSUME NEW e \in Slots
      PROVE  RestInv(e)'
  <2>1. CASE e = slot[n]
    <3>1. n \in Saving(e)'
      BY <1>1, <2>1, BeginFrame DEF Saving
    <3> QED BY <3>1 DEF RestInv
  <2>2. CASE e # slot[n]
    <3>1. Saving(e)' = Saving(e)
      BY <1>1, <2>2, BeginFrame DEF Saving
    <3>2. raced'[e] <=> raced[e]
      BY <1>1, <2>2, BeginMarks
    <3>3. EntryOK(entry[e]) => EntryOK(entry[e])'
      BY <1>1, BeginKeepsWhole
    <3> QED BY <3>1, <3>2, <3>3 DEF RestInv, IInv
  <2> QED BY <2>1, <2>2
<1>3. StoreInv(n)'
  <2>1. tag'[n] \in 1..Len(saves') /\ Store(n)'.key = frag'[n]
    BY <1>1, BeginFrame DEF Store
  <2>2. ~alone'[n] => raced'[slot'[n]]
    BY <1>1, BeginMarks, BeginFrame
  <2>3. \A m \in Saving(slot[n])' : m # n => ~alone'[n]
    <3>1. Saving(slot[n])' = Saving(slot[n]) \cup {n}
      BY <1>1, BeginFrame DEF Saving
    <3> QED BY <1>1, <3>1, BeginMarks
  <2>4. ASSUME alone'[n]
        PROVE  ProgressInv(n, entry[slot[n]])'
    <3>1. ASSUME ~raced'[slot'[n]]
          PROVE  EntryOK(entry[slot[n]])' /\ entry[slot[n]].move <= Len(saves)
                 /\ (IsOccupied(entry[slot[n]]) => entry[slot[n]].value <= Len(saves))
      <4>1. EntryOK(entry[slot[n]])
        <5>1. Saving(slot[n]) = {} /\ ~raced[slot[n]]
          BY <1>1, <2>4, <3>1, BeginMarks, BeginFrame
        <5> QED BY <1>1, <5>1 DEF RestInv, IInv
      <4> QED BY <1>1, <4>1, BeginKeepsLocated
    <3>2. entry[slot[n]].move \in Nat /\ entry[slot[n]].value \in Nat
      BY <1>1 DEF TypeOK, Entries
    <3>3. ~raced'[slot'[n]] =>
            /\ EntryOK(entry[slot[n]])' /\ entry'[slot'[n]].move < tag'[n]
            /\ IsOccupied(entry[slot[n]])' => entry'[slot'[n]].value < tag'[n]
      BY <1>1, <3>1, <3>2, BeginFrame DEF IsOccupied
    <3>4. /\ pc'[n] = "load" /\ idx'[n] = 2 /\ old'[n].key = entry'[slot'[n]].key
      BY <1>1, BeginFrame
    <3> QED BY <3>3, <3>4 DEF ProgressInv
  <2> QED BY <2>1, <2>2, <2>3, <2>4 DEF StoreInv
<1>4. IdxInv(n)' /\ ReadInv(n)'
  BY <1>1, BeginFrame DEF IdxInv, ReadInv
<1>5. ASSUME NEW m \in Node, m # n
      PROVE  IdxInv(m)' /\ StoreInv(m)' /\ ReadInv(m)'
  <2>1. IdxInv(m) /\ StoreInv(m) /\ ReadInv(m) /\ slot[m] \in Slots
    BY <1>1 DEF IInv, TypeOK
  <2>2. /\ pc'[m] = pc[m] /\ idx'[m] = idx[m] /\ old'[m] = old[m] /\ tag'[m] = tag[m]
        /\ UNCHANGED <<entry, frag, slot, found, data>>
    BY <1>1, <1>5, BeginFrame
  <2>3. IdxInv(m)'
    BY <2>1, <2>2 DEF IdxInv
  <2>4. ReadInv(m)'
    <3>1. CASE pc[m] \in {"occupied", "read"} /\ quiet'[m]
      <4>1. quiet[m] /\ slot[m] # slot[n]
        BY <1>1, <3>1, BeginMarks DEF Reading
      <4>2. Saving(slot[m])' = Saving(slot[m])
        BY <1>1, <2>1, <4>1, BeginFrame DEF Saving
      <4> QED BY <2>1, <2>2, <3>1, <4>1, <4>2 DEF ReadInv, IsOccupied
    <3>2. CASE ~(pc[m] \in {"occupied", "read"} /\ quiet'[m])
      BY <2>2, <3>2 DEF ReadInv
    <3> QED BY <3>1, <3>2
  <2>5. StoreInv(m)'
    <3>1. CASE pc[m] \notin {"load", "move", "store"}
      BY <2>2, <3>1 DEF StoreInv
    <3>2. CASE pc[m] \in {"load", "move", "store"}
      <4>1. /\ tag[m] \in 1..Len(saves) /\ tag'[m] \in 1..Len(saves')
            /\ Store(m)' = Store(m) /\ Store(m).key = frag[m]
        BY <1>1, <2>1, <2>2, <3>2, BeginFrame DEF StoreInv, Store
      <4>2. CASE slot[m] = slot[n]
        <5>1. m \in Saving(slot[n])
          BY <3>2, <4>2 DEF Saving
        <5>2. ~alone'[m] /\ raced'[slot[m]]
          BY <1>1, <1>5, <4>2, <5>1, BeginMarks
        <5> QED BY <2>2, <4>1, <5>2 DEF StoreInv
      <4>3. CASE slot[m] # slot[n]
        <5>1. /\ m \notin Saving(slot[n]) /\ Saving(slot[m])' = Saving(slot[m])
              /\ n \notin Saving(slot[m])
              /\ raced'[slot[m]] <=> raced[slot[m]]
          <6>1. m \notin Saving(slot[n]) /\ n \notin Saving(slot[m])
            BY <4>3 DEF Saving
          <6>2. Saving(slot[m])' = Saving(slot[m])
            BY <1>1, <2>1, <4>3, BeginFrame DEF Saving
          <6>3. raced'[slot[m]] <=> raced[slot[m]]
            BY <1>1, <2>1, <4>3, BeginMarks
          <6> QED BY <6>1, <6>2, <6>3
        <5>2. alone'[m] <=> alone[m]
          BY <1>1, <1>5, <5>1, BeginMarks
        <5>3. ProgressInv(m, entry[slot[m]]) => ProgressInv(m, entry[slot[m]])'
          <6>1. EntryOK(entry[slot[m]]) => EntryOK(entry[slot[m]])'
            BY <1>1, BeginKeepsLocated
          <6>2. WritesMove(m)' <=> WritesMove(m)
            BY <2>2, <4>1 DEF WritesMove
          <6>3. IsOccupied(entry[slot[m]])' <=> IsOccupied(entry[slot[m]])
            BY <2>2 DEF IsOccupied
          <6>4. \A t \in 1..Len(saves) : t \in 1..Len(saves') /\ saves'[t] = saves[t]
            BY <1>1, BeginFrame
          <6>5. /\ pc'[m] = pc[m] /\ idx'[m] = idx[m] /\ old'[m] = old[m] /\ tag'[m] = tag[m]
                /\ frag'[m] = frag[m] /\ entry'[slot'[m]] = entry[slot[m]]
                /\ raced'[slot'[m]] <=> raced[slot[m]]
            BY <2>2, <5>1
          <6>6. HAVE ProgressInv(m, entry[slot[m]])
          <6>7. pc[m] \in {"load", "move"} =>
                  /\ ~raced[slot[m]] => EntryOK(entry[slot[m]])' /\ entry[slot[m]].move < tag[m]
                                        /\ (IsOccupied(entry[slot[m]]) => entry[slot[m]].value < tag[m])
            BY <6>1, <6>6 DEF ProgressInv
          <6>8. pc[m] = "store" =>
                  (~WritesMove(m) /\ ~raced[slot[m]] /\ entry[slot[m]].move # 0
                   => entry[slot[m]].move \in 1..Len(saves')
                      /\ saves'[entry[slot[m]].move].key = frag[m])
            BY <6>4, <6>6 DEF ProgressInv
          <6> QED BY <4>1, <6>2, <6>3, <6>5, <6>6, <6>7, <6>8 DEF ProgressInv
        <5> QED BY <2>1, <2>2, <3>2, <4>1, <5>1, <5>2, <5>3 DEF StoreInv
      <4> QED BY <4>2, <4>3
    <3> QED BY <3>1, <3>2
  <2> QED BY <2>3, <2>4, <2>5
<1> QED BY <1>2, <1>3, <1>4, <1>5


-----------------------------------------------------------------------------
(* The steps that store nothing. *)

\* A step of a node that stores nothing leaves stores and others as they are.
LEMMA LocateFrame ==
    ASSUME TypeOK, NEW n \in Node,
           \/ \E k \in Fragment : Visit(n, k)
           \/ LocateKey(n) \/ LocateOccupied(n) \/ LocateRead(n) \/ LocateVictim(n)
           \/ Leave(n)
    PROVE  /\ pc[n] \notin {"load", "move", "store"} /\ pc'[n] \notin {"load", "move", "store"}
           /\ UNCHANGED <<entry, old, tag, saves, raced, alone>>
           /\ \A m \in Node : m # n =>
                /\ pc'[m] = pc[m] /\ frag'[m] = frag[m] /\ slot'[m] = slot[m]
                /\ idx'[m] = idx[m] /\ data'[m] = data[m]
                /\ (found'[m] <=> found[m]) /\ (quiet'[m] <=> quiet[m])
<1>1. CASE \E k \in Fragment : Visit(n, k)
  BY <1>1 DEF Visit, TypeOK, tableVars, history
<1>2. CASE LocateKey(n)
  BY <1>2 DEF LocateKey, TypeOK, tableVars
<1>3. CASE LocateOccupied(n)
  BY <1>3 DEF LocateOccupied, TypeOK, tableVars, history
<1>4. CASE LocateRead(n)
  <2>1. CASE idx[n] < Len(ReadOrder)
    BY <1>4, <2>1, OrderFields DEF LocateRead, TypeOK, tableVars
  <2>2. CASE ~(idx[n] < Len(ReadOrder))
    <3>1. LocateReturn(n)
      BY <1>4, <2>2 DEF LocateRead
    <3> QED BY <1>4, <3>1 DEF LocateRead, LocateReturn, TypeOK, tableVars
  <2> QED BY <2>1, <2>2
<1>5. CASE LocateVictim(n)
  <2>1. CASE idx[n] <= CLUSTER_SIZE
    <3>1. ~(idx[n] > CLUSTER_SIZE)
      BY <2>1, ClusterAssumption DEF TypeOK
    <3> QED BY <1>5, <3>1 DEF LocateVictim, TypeOK, tableVars
  <2>2. CASE ~(idx[n] <= CLUSTER_SIZE)
    <3>1. LocateReturn(n) /\ UNCHANGED slot
      BY <1>5, <2>2 DEF LocateVictim
    <3> QED BY <1>5, <3>1 DEF LocateVictim, LocateReturn, TypeOK, tableVars
  <2> QED BY <2>1, <2>2
<1>6. CASE Leave(n)
  BY <1>6 DEF Leave, TypeOK, tableVars, history
<1> QED BY <1>1, <1>2, <1>3, <1>4, <1>5, <1>6

\* A step of a locate keeps what holds of the other nodes.
LEMMA LocateKeepsOthers ==
    ASSUME IInv, NEW n \in Node,
           \/ \E k \in Fragment : Visit(n, k)
           \/ LocateKey(n) \/ LocateOccupied(n) \/ LocateRead(n) \/ LocateVictim(n)
           \/ Leave(n)
    PROVE  /\ \A m \in Node : m # n => IdxInv(m)' /\ StoreInv(m)' /\ ReadInv(m)'
           /\ \A e \in Slots : RestInv(e)'
           /\ StoreInv(n)'
<1>1. TypeOK
  BY DEF IInv
<1>2. ASSUME NEW e \in Slots
      PROVE  Saving(e)' = Saving(e)
  BY <1>1, LocateFrame DEF Saving
<1>3. ASSUME NEW e \in Slots
      PROVE  RestInv(e)'
  <2>1. EntryOK(entry[e])' <=> EntryOK(entry[e])
    BY <1>1, LocateFrame DEF EntryOK, WholeFor, IsOccupied
  <2>2. raced' = raced
    BY <1>1, LocateFrame
  <2> QED BY <1>2, <2>1, <2>2 DEF RestInv, IInv
<1>4. StoreInv(n)'
  BY <1>1, LocateFrame DEF StoreInv
<1>5. ASSUME NEW m \in Node, m # n
      PROVE  IdxInv(m)' /\ StoreInv(m)' /\ ReadInv(m)'
  <2>1. IdxInv(m) /\ StoreInv(m) /\ ReadInv(m) /\ slot[m] \in Slots
    BY <1>1 DEF IInv, TypeOK
  <2>2. /\ pc'[m] = pc[m] /\ idx'[m] = idx[m] /\ frag'[m] = frag[m] /\ slot'[m] = slot[m]
        /\ data'[m] = data[m] /\ (found'[m] <=> found[m]) /\ (quiet'[m] <=> quiet[m])
        /\ UNCHANGED <<entry, old, tag, saves, raced, alone>>
    BY <1>1, <1>5, LocateFrame
  <2>3. Saving(slot[m])' = Saving(slot[m])
    BY <1>1, <2>2, LocateFrame DEF Saving
  <2>4. IdxInv(m)'
    BY <2>1, <2>2 DEF IdxInv
  <2>5. IsOccupied(entry[slot[m]])' <=> IsOccupied(entry[slot[m]])
    BY <2>2 DEF IsOccupied
  <2>6. ReadInv(m)'
    BY <2>1, <2>2, <2>3, <2>5 DEF ReadInv
  <2>7. StoreInv(m)'
    <3>1. EntryOK(entry[slot[m]])' <=> EntryOK(entry[slot[m]])
      BY <2>2 DEF EntryOK, WholeFor, IsOccupied
    <3>2. Store(m)' = Store(m) /\ (WritesMove(m)' <=> WritesMove(m))
      BY <2>2 DEF Store, WritesMove
    <3>3. ProgressInv(m, entry[slot[m]])' <=> ProgressInv(m, entry[slot[m]])
      BY <2>2, <2>5, <3>1, <3>2 DEF ProgressInv
    <3> QED BY <2>1, <2>2, <2>3, <3>2, <3>3 DEF StoreInv
  <2> QED BY <2>4, <2>6, <2>7
<1> QED BY <1>3, <1>4, <1>5

\* What the node that reads has in its hands afterwards.
LEMMA LocateKeepsOwn ==
    ASSUME IInv, NEW n \in Node,
           \/ \E k \in Fragment : Visit(n, k)
           \/ LocateKey(n) \/ LocateOccupied(n) \/ LocateRead(n) \/ LocateVictim(n)
           \/ Leave(n)
    PROVE  IdxInv(n)' /\ ReadInv(n)'
<1>1. TypeOK /\ IdxInv(n) /\ ReadInv(n) /\ slot[n] \in Slots
  BY DEF IInv, TypeOK
<1>2. tag'[n] = 0
  <2>1. pc[n] \notin {"load", "move", "store"} /\ tag' = tag
    BY <1>1, LocateFrame
  <2> QED BY <1>1, <2>1 DEF IdxInv
<1>3. CASE \E k \in Fragment : Visit(n, k)
  <2>1. pc'[n] = "scan" /\ idx'[n] = 1
    BY <1>1, <1>3 DEF Visit, TypeOK
  <2>2. 1 <= CLUSTER_SIZE
    BY ClusterAssumption
  <2> QED BY <1>2, <2>1, <2>2 DEF IdxInv, ReadInv
<1>4. CASE LocateKey(n)
  <2>1. CASE entry[idx[n]].key = frag[n]
    <3>1. /\ pc'[n] = "occupied" /\ slot'[n] = idx[n]
          /\ quiet'[n] <=> Saving(idx[n]) = {}
          /\ entry' = entry /\ frag' = frag
      BY <1>1, <1>4, <2>1 DEF LocateKey, TypeOK, tableVars
    <3>2. Saving(slot[n])' = Saving(idx[n])
      BY <1>1, <1>4, <3>1, LocateFrame DEF Saving
    <3> QED BY <1>2, <2>1, <3>1, <3>2 DEF IdxInv, ReadInv
  <2>2. CASE entry[idx[n]].key # frag[n] /\ idx[n] < CLUSTER_SIZE
    <3>1. idx[n] # CLUSTER_SIZE
      BY <1>1, <2>2, ClusterAssumption DEF TypeOK
    <3>2. pc'[n] = "scan" /\ idx'[n] = idx[n] + 1
      BY <1>1, <1>4, <2>2, <3>1 DEF LocateKey, TypeOK
    <3>3. idx'[n] <= CLUSTER_SIZE
      BY <1>1, <2>2, <3>2, ClusterAssumption DEF TypeOK
    <3> QED BY <1>2, <3>2, <3>3 DEF IdxInv, ReadInv
  <2>3. CASE entry[idx[n]].key # frag[n] /\ ~(idx[n] < CLUSTER_SIZE)
    <3>1. pc'[n] = "victim"
      BY <1>1, <1>4, <2>3 DEF LocateKey, TypeOK
    <3> QED BY <1>2, <3>1 DEF IdxInv, ReadInv
  <2> QED BY <2>1, <2>2, <2>3
<1>5. CASE LocateOccupied(n)
  <2>1. /\ pc[n] = "occupied" /\ pc'[n] = "read" /\ idx'[n] = 1
        /\ UNCHANGED <<entry, frag, slot, quiet>>
        /\ found'[n] <=> IsOccupied(entry[slot[n]])
    BY <1>1, <1>5 DEF LocateOccupied, TypeOK, tableVars, history
  <2>2. Saving(slot[n])' = Saving(slot[n])
    BY <1>1, <1>5, <2>1, LocateFrame DEF Saving
  <2> QED BY <1>1, <1>2, <2>1, <2>2 DEF IdxInv, ReadInv, IsOccupied
<1>6. CASE LocateRead(n)
  <2>1. CASE idx[n] < 4
    <3>1. /\ pc[n] = "read" /\ idx[n] \in 1..3 /\ pc' = pc /\ idx'[n] = idx[n] + 1
          /\ UNCHANGED <<entry, frag, slot, quiet, found>> /\ data'[n] = Copy(n)
      BY <1>1, <1>6, <2>1, OrderFields DEF LocateRead, TypeOK, tableVars, IdxInv
    <3>2. Saving(slot[n])' = Saving(slot[n])
      BY <1>1, <1>6, <3>1, LocateFrame DEF Saving
    <3>3. data[n] \in Entries
      BY <1>1 DEF TypeOK
    <3>4. \/ idx[n] = 1 /\ data'[n].gb = entry[slot[n]].gb
          \/ idx[n] = 2 /\ data'[n].gb = data[n].gb /\ data'[n].move = entry[slot[n]].move
          \/ idx[n] = 3 /\ data'[n].gb = data[n].gb /\ data'[n].move = data[n].move
             /\ data'[n].value = entry[slot[n]].value
      <4>1. CASE idx[n] = 1
        BY <1>1, <3>1, <3>3, <4>1, CopyField DEF Entries
      <4>2. CASE idx[n] = 2
        BY <1>1, <3>1, <3>3, <4>2, CopyField DEF Entries
      <4>3. CASE idx[n] = 3
        BY <1>1, <3>1, <3>3, <4>3, CopyField DEF Entries
      <4> QED BY <3>1, <4>1, <4>2, <4>3
    <3>5. idx'[n] \in 1..4
      BY <3>1
    <3>6. /\ quiet[n] /\ idx'[n] > 1 => data'[n].gb = entry[slot[n]].gb
          /\ quiet[n] /\ idx'[n] > 2 => data'[n].move = entry[slot[n]].move
          /\ quiet[n] /\ idx'[n] > 3 => data'[n].value = entry[slot[n]].value
      <4>1. /\ quiet[n] /\ idx[n] > 1 => data[n].gb = entry[slot[n]].gb
            /\ quiet[n] /\ idx[n] > 2 => data[n].move = entry[slot[n]].move
        BY <1>1, <3>1 DEF ReadInv
      <4> QED BY <3>1, <3>4, <4>1
    <3>7. quiet[n] => (found[n] <=> IsOccupied(entry[slot[n]]))
      BY <1>1, <3>1 DEF ReadInv
    <3> QED BY <1>1, <1>2, <3>1, <3>2, <3>5, <3>6, <3>7 DEF IdxInv, ReadInv, IsOccupied
  <2>2. CASE ~(idx[n] < 4)
    <3>1. LocateReturn(n)
      BY <1>6, <2>2, OrderFields DEF LocateRead
    <3>2. pc'[n] = "node"
      BY <1>1, <3>1 DEF LocateReturn, TypeOK
    <3> QED BY <1>2, <3>2 DEF IdxInv, ReadInv
  <2> QED BY <2>1, <2>2
<1>7. CASE LocateVictim(n)
  <2>1. pc'[n] \in {"victim", "node"}
    BY <1>1, <1>7 DEF LocateVictim, LocateReturn, TypeOK
  <2> QED BY <1>2, <2>1 DEF IdxInv, ReadInv
<1>8. CASE Leave(n)
  <2>1. pc'[n] = "idle"
    BY <1>1, <1>8 DEF Leave, TypeOK
  <2> QED BY <1>2, <2>1 DEF IdxInv, ReadInv
<1> QED BY <1>3, <1>4, <1>5, <1>6, <1>7, <1>8


-----------------------------------------------------------------------------
(* The steps between searches. *)

\* No node is at an entry: what is left of the invariant is about the entries.
LEMMA AtRest ==
    ASSUME IInv, NoSearch, UNCHANGED nodeVars
    PROVE  /\ \A n \in Node : IdxInv(n)' /\ StoreInv(n)' /\ ReadInv(n)'
           /\ \A e \in Slots : Saving(e) = {}
<1>1. \A n \in Node : pc[n] = "idle" /\ pc'[n] = "idle" /\ tag'[n] = 0
  BY DEF IInv, IdxInv, NoSearch, nodeVars
<1>2. \A n \in Node : IdxInv(n)' /\ StoreInv(n)' /\ ReadInv(n)'
  BY <1>1 DEF IdxInv, StoreInv, ReadInv
<1> QED BY <1>1, <1>2 DEF Saving

\* A new search, a clear and a resize keep the invariant.
LEMMA BetweenSearchesKeeps ==
    ASSUME IInv, NewSearch \/ Clear \/ Resize
    PROVE  /\ \A n \in Node : IdxInv(n)' /\ StoreInv(n)' /\ ReadInv(n)'
           /\ \A e \in Slots : RestInv(e)'
<1>1. NoSearch /\ UNCHANGED nodeVars
  BY DEF NewSearch, Clear, Resize
<1>2. ASSUME NEW e \in Slots
      PROVE  RestInv(e)'
  <2>1. CASE NewSearch
    <3>1. UNCHANGED <<entry, saves, raced>>
      BY <2>1 DEF NewSearch
    <3>2. ~raced[e] => EntryOK(entry[e])
      BY <1>1, AtRest DEF IInv, RestInv
    <3>3. EntryOK(entry[e])' <=> EntryOK(entry[e])
      BY <3>1 DEF EntryOK, WholeFor, IsOccupied
    <3> QED BY <3>1, <3>2, <3>3 DEF RestInv
  <2>2. CASE Clear \/ Resize
    <3>1. entry'[e] = Zero
      BY <2>2 DEF Clear, Resize, ZeroEntries
    <3>2. EntryOK(entry[e])'
      BY <3>1 DEF EntryOK, IsOccupied, Zero
    <3> QED BY <3>2 DEF RestInv
  <2> QED BY <2>1, <2>2
<1> QED BY <1>1, <1>2, AtRest

-----------------------------------------------------------------------------
(* The theorems. *)

\* The table starts with the invariant.
LEMMA InvInit == Init => IInv
<1> SUFFICES ASSUME Init PROVE IInv
  OBVIOUS
<1>1. TypeOK
  BY TypeInit
<1>2. ASSUME NEW n \in Node
      PROVE  IdxInv(n) /\ StoreInv(n) /\ ReadInv(n)
  BY DEF Init, IdxInv, StoreInv, ReadInv
<1>3. ASSUME NEW e \in Slots
      PROVE  RestInv(e)
  BY DEF Init, RestInv, EntryOK, IsOccupied, Zero
<1> QED BY <1>1, <1>2, <1>3 DEF IInv

\* Every step keeps it.
LEMMA InvStep == IInv /\ [Next]_vars => IInv'
<1> SUFFICES ASSUME IInv, [Next]_vars PROVE IInv'
  OBVIOUS
<1>1. TypeOK'
  BY TypeStep DEF IInv
<1> DEFINE Kept == /\ \A n \in Node : IdxInv(n)' /\ StoreInv(n)' /\ ReadInv(n)'
                   /\ \A e \in Slots : RestInv(e)'
<1>2. Kept
  <2>1. ASSUME NEW n \in Node, NEW p \in Payload, SaveBegin(n, p)
        PROVE  Kept
    BY <2>1, SaveBeginKeeps
  <2>2. ASSUME NEW n \in Node, SaveLoad(n) \/ SaveMove(n) \/ SaveStore(n)
        PROVE  Kept
    <3>1. /\ IdxInv(n)' /\ StoreInv(n)' /\ ReadInv(n)'
          /\ pc'[n] = "node" => RestInv(slot[n])'
      BY <2>2, SaveLoadKeepsOwn, SaveMoveKeepsOwn, SaveStoreKeepsOwn
    <3>2. \A m \in Node : m # n => IdxInv(m)' /\ StoreInv(m)' /\ ReadInv(m)'
      BY <2>2, SaveKeepsOthers
    <3>3. ASSUME NEW e \in Slots
          PROVE  RestInv(e)'
      <4>1. CASE e # slot[n] \/ pc'[n] # "node"
        BY <2>2, <4>1, SaveKeepsRest
      <4>2. CASE e = slot[n] /\ pc'[n] = "node"
        <5>1. RestInv(slot[n])' /\ slot'[n] = slot[n]
          BY <2>2, <3>1, <4>2, SaveFrame DEF IInv
        <5> QED BY <4>2, <5>1 DEF RestInv, EntryOK, WholeFor, IsOccupied, Saving
      <4> QED BY <4>1, <4>2
    <3> QED BY <3>1, <3>2, <3>3
  <2>3. ASSUME NEW n \in Node,
               \/ \E k \in Fragment : Visit(n, k)
               \/ LocateKey(n) \/ LocateOccupied(n) \/ LocateRead(n) \/ LocateVictim(n)
               \/ Leave(n)
        PROVE  Kept
    BY <2>3, LocateKeepsOthers, LocateKeepsOwn
  <2>4. CASE NewSearch \/ Clear \/ Resize
    BY <2>4, BetweenSearchesKeeps
  <2>5. CASE UNCHANGED vars
    <3>1. ASSUME NEW e \in Slots
          PROVE  (EntryOK(entry[e])' <=> EntryOK(entry[e])) /\ Saving(e)' = Saving(e)
      BY <2>5 DEF vars, EntryOK, WholeFor, IsOccupied, Saving
    <3>2. ASSUME NEW n \in Node
          PROVE  IdxInv(n)' /\ StoreInv(n)' /\ ReadInv(n)'
      <4>1. IdxInv(n)' /\ ReadInv(n)'
        BY <2>5 DEF vars, IInv, IdxInv, ReadInv, IsOccupied, Saving
      <4>2. StoreInv(n)'
        BY <2>5 DEF vars, IInv, StoreInv, ProgressInv, Store, WritesMove, EntryOK, WholeFor,
                    IsOccupied, Saving
      <4> QED BY <4>1, <4>2
    <3>3. raced' = raced
      BY <2>5 DEF vars
    <3> QED BY <3>1, <3>2, <3>3 DEF IInv, RestInv
  <2> QED BY <2>1, <2>2, <2>3, <2>4, <2>5 DEF Next
<1> QED BY <1>1, <1>2 DEF IInv

\* The table keeps its invariant in every behaviour.
THEOREM InvAlways == Spec => []IInv
BY InvInit, InvStep, PTL DEF Spec

\* Entries hold what stores carry and nodes stand where the code does, whatever
\* the interleaving of tt.rs's locate and save.
THEOREM TypeCorrect == Spec => []TypeOK
<1>1. IInv => TypeOK
  BY DEF IInv
<1> QED BY <1>1, InvAlways, PTL

\* tt.rs's relaxed stores mix two payloads only when they overlapped.
THEOREM TornOnlyByRaceAlways == Spec => []TornOnlyByRace
<1>1. IInv => TornOnlyByRace
  BY DEF IInv, RestInv, EntryOK, TornOnlyByRace
<1> QED BY <1>1, InvAlways, PTL

\* A quiet read that ends with a hit has copied one whole entry.
LEMMA HitStep ==
    ASSUME IInv, NEW n \in Node, LocateRead(n),
           pc[n] = "read", pc'[n] = "node", found[n], quiet[n], ~raced[slot[n]]
    PROVE  WholeFor(Copy(n), frag[n])
<1>1. TypeOK /\ IdxInv(n) /\ ReadInv(n) /\ slot[n] \in Slots /\ data[n] \in Entries
  BY DEF IInv, TypeOK
<1>2. idx[n] = 4
  BY <1>1, OrderFields DEF LocateRead, IdxInv, TypeOK
<1>3. /\ IsOccupied(entry[slot[n]]) /\ entry[slot[n]].key = frag[n] /\ Saving(slot[n]) = {}
      /\ data[n].gb = entry[slot[n]].gb /\ data[n].move = entry[slot[n]].move
      /\ data[n].value = entry[slot[n]].value
  BY <1>1, <1>2 DEF ReadInv
<1>4. Copy(n) = [data[n] EXCEPT !.depth8 = entry[slot[n]].depth8]
  BY <1>1, <1>2, CopyField
<1>5. /\ Copy(n).gb = entry[slot[n]].gb /\ Copy(n).move = entry[slot[n]].move
      /\ Copy(n).value = entry[slot[n]].value /\ Copy(n).depth8 = entry[slot[n]].depth8
  BY <1>1, <1>3, <1>4 DEF Entries
<1>6. WholeFor(entry[slot[n]], frag[n])
  BY <1>1, <1>3 DEF IInv, RestInv, EntryOK
<1> QED BY <1>5, <1>6 DEF WholeFor

\* What locate hands to the search on a hit is one store's payload for the
\* position's fragment, unless a store overlapped the read or left a mixture.
THEOREM HitsAreWhole == Spec => HitIsWhole
<1>1. IInv /\ [Next]_vars =>
        [\A n \in Node :
           pc[n] = "read" /\ pc'[n] = "node" /\ found[n] /\ quiet[n] /\ ~raced[slot[n]]
           => WholeFor(Copy(n), frag[n])]_vars
  <2> SUFFICES ASSUME IInv, [Next]_vars, NEW n \in Node,
                      pc[n] = "read", pc'[n] = "node", found[n], quiet[n], ~raced[slot[n]]
               PROVE  WholeFor(Copy(n), frag[n])
    OBVIOUS
  <2>1. LocateRead(n)
    <3>1. TypeOK
      BY DEF IInv
    <3>2. ASSUME NEW m \in Node, NEW p \in Payload, SaveBegin(m, p)
          PROVE  FALSE
      <4>1. pc[m] = "node" /\ pc'[m] = "load"
        BY <3>1, <3>2, BeginFrame
      <4>2. m # n => pc'[n] = pc[n]
        BY <3>1, <3>2, BeginFrame
      <4> QED BY <4>1, <4>2
    <3>3. ASSUME NEW m \in Node, SaveLoad(m) \/ SaveMove(m) \/ SaveStore(m)
          PROVE  FALSE
      BY <3>1, <3>3, SaveFrame
    <3>4. ASSUME NEW m \in Node,
                 \/ \E k \in Fragment : Visit(m, k)
                 \/ LocateKey(m) \/ LocateOccupied(m) \/ LocateRead(m) \/ LocateVictim(m)
                 \/ Leave(m)
          PROVE  LocateRead(n)
      <4>1. m = n
        BY <3>1, <3>4, LocateFrame
      <4> QED BY <3>4, <4>1 DEF Visit, LocateKey, LocateOccupied, LocateVictim, Leave
    <3>5. ~(NewSearch \/ Clear \/ Resize) /\ ~UNCHANGED vars
      BY DEF NewSearch, Clear, Resize, NoSearch, vars
    <3> QED BY <3>2, <3>3, <3>4, <3>5 DEF Next
  <2> QED BY <2>1, HitStep
<1> QED BY <1>1, InvAlways, PTL DEF Spec, HitIsWhole

-----------------------------------------------------------------------------
(* The age of entries. *)

\* Division with remainder by a positive number.
LEMMA DivMod ==
    ASSUME NEW G \in Nat \ {0}, NEW a \in Int
    PROVE  a \div G \in Int /\ a % G \in 0..(G - 1) /\ a = G * (a \div G) + (a % G)
  <1>1. a \div G \in Int
    OBVIOUS
  <1>2. a % G \in 0..(G - 1)
    OBVIOUS
  <1>3. a = G * (a \div G) + (a % G)
    OBVIOUS
  <1> QED
    BY <1>1, <1>2, <1>3

\* The remainder is the only one.
LEMMA ModUnique ==
    ASSUME NEW G \in Nat \ {0}, NEW a \in Int, NEW q \in Int, NEW r \in 0..(G - 1),
           a = G * q + r
    PROVE  a % G = r
  <1> DEFINE p == a \div G
             s == a % G
  <1>1. p \in Int /\ s \in 0..(G - 1) /\ a = G * p + s
    BY DivMod
  <1> HIDE DEF p, s
  <1>2. G * (q - p) = s - r
    BY <1>1
  <1>3. q - p \in Int /\ s - r < G /\ s - r > -G
    BY <1>1
  <1> DEFINE x == q - p
  <1>4. x \in Int /\ G * x = s - r
    BY <1>2, <1>3
  <1> HIDE DEF x
  <1>5. x < 1
    <2> SUFFICES ASSUME x >= 1 PROVE FALSE
      BY <1>4
    <2>1. G * x >= G
      BY <1>4
    <2> QED
      BY <2>1, <1>4, <1>3, <1>1
  <1>6. x > -1
    <2> SUFFICES ASSUME x <= -1 PROVE FALSE
      BY <1>4
    <2>1. G * x <= -G
      BY <1>4
    <2> QED
      BY <2>1, <1>4, <1>3, <1>1
  <1>7. x = 0
    BY <1>4, <1>5, <1>6
  <1>8. s = r
    BY <1>7, <1>4, <1>1
  <1> QED
    BY <1>8 DEF s

\* A sum may be reduced before it is taken.
LEMMA ModSum ==
    ASSUME NEW G \in Nat \ {0}, NEW a \in Int, NEW b \in Int
    PROVE  ((a % G) + b) % G = (a + b) % G
  <1> DEFINE q == a \div G
             r == a % G
             k == r + b
             p == k \div G
             s == k % G
  <1>1. q \in Int /\ r \in 0..(G - 1) /\ a = G * q + r
    BY DivMod
  <1>k. k \in Int
    BY <1>1
  <1> HIDE DEF k
  <1>2. p \in Int /\ s \in 0..(G - 1) /\ k = G * p + s
    BY DivMod, <1>k
  <1> HIDE DEF q, r, p, s
  <1> USE DEF k
  <1>3. a + b = G * (q + p) + s
    <2>1. a + b = G * q + (G * p + s)
      BY <1>1, <1>2
    <2>2. G * (q + p) = G * q + G * p
      BY <1>1, <1>2
    <2>3. G * q \in Int /\ G * p \in Int
      BY <1>1, <1>2
    <2> QED
      BY <2>1, <2>2, <2>3, <1>1, <1>2
  <1> DEFINE c == a + b
             x == q + p
  <1>4. c \in Int /\ x \in Int /\ c = G * x + s
    BY <1>1, <1>2, <1>3
  <1> HIDE DEF c, x
  <1>5. c % G = s
    BY <1>2, <1>4, ModUnique
  <1> QED
    BY <1>5 DEF s, r, c, k

\* So may a difference: what RelativeAge counts on.
LEMMA ModDifference ==
    ASSUME NEW G \in Nat \ {0}, NEW a \in Int, NEW b \in Int
    PROVE  ((a % G) - (b % G)) % G = (a - b) % G
  <1> DEFINE o == a % G
             q == b \div G
             r == b % G
             k == a - b
             p == k \div G
             s == k % G
  <1>1. q \in Int /\ r \in 0..(G - 1) /\ b = G * q + r
    BY DivMod
  <1>k. k \in Int
    OBVIOUS
  <1> HIDE DEF k
  <1>2. p \in Int /\ s \in 0..(G - 1) /\ k = G * p + s
    BY DivMod, <1>k
  <1> USE DEF k
  <1>3. a \div G \in Int /\ o \in 0..(G - 1) /\ a = G * (a \div G) + o
    BY DivMod
  <1> DEFINE c == a \div G
             x == p + q - c
             d == o - r
  <1>4. d = G * x + s
    <2>1. d = G * p + s + G * q - G * c
      BY <1>1, <1>2, <1>3
    <2>2. G * x = G * p + G * q - G * c
      BY <1>1, <1>2, <1>3
    <2> QED
      BY <2>1, <2>2, <1>1, <1>2, <1>3
  <1>5. d \in Int /\ x \in Int
    BY <1>1, <1>2, <1>3
  <1> HIDE DEF d, x, s, k
  <1>6. d % G = s
    BY <1>2, <1>4, <1>5, ModUnique
  <1> QED
    BY <1>6 DEF s, d, k

\* The table's clock shows the searches begun since the clear, and every store
\* has taken its generation from that clock.
OnTheClock ==
    /\ generation8 = searches % GENERATIONS
    /\ \A t \in 1..Len(saves) : saves[t].gb.gen = saves[t].born % GENERATIONS

\* Every step keeps the generations of the table and of its entries on one clock.
LEMMA ClockStep ==
    ASSUME TypeOK, OnTheClock, [Next]_vars
    PROVE  OnTheClock'
<1>0. 0 % GENERATIONS = 0
  BY GenerationsAssumption
<1>1. CASE UNCHANGED <<generation8, searches, saves>>
  BY <1>1 DEF OnTheClock
<1>2. CASE NewSearch
  <2>1. searches \in Int /\ UNCHANGED saves
    BY <1>2 DEF TypeOK, NewSearch
  <2>2. ((searches % GENERATIONS) + 1) % GENERATIONS = (searches + 1) % GENERATIONS
    <3>1. 1 \in Int
      OBVIOUS
    <3> QED BY <2>1, <3>1, ModSum, GenerationsAssumption, Zenon
  <2>3. generation8' = searches' % GENERATIONS
    BY <1>2, <2>2 DEF NewSearch, OnTheClock
  <2> QED BY <2>1, <2>3 DEF OnTheClock
<1>3. CASE Clear \/ Resize
  <2>1. generation8' = searches' % GENERATIONS
    BY <1>0, <1>3 DEF Clear, Resize, OnTheClock
  <2>2. Len(saves') = 0
    BY <1>3 DEF Clear, Resize, ZeroEntries
  <2> QED BY <2>1, <2>2 DEF OnTheClock
<1>4. CASE \E n \in Node : \E p \in Payload : SaveBegin(n, p)
  <2>1. PICK n \in Node, p \in Payload : SaveBegin(n, p)
    BY <1>4
  <2> DEFINE s == [key |-> frag[n], depth8 |-> p.depth - DEPTH_NONE,
                   gb |-> [gen |-> generation8, bound |-> p.bound, pv |-> p.pv],
                   move |-> p.move, born |-> searches]
  <2>2. /\ saves' = Append(saves, s)
        /\ UNCHANGED <<generation8, searches>>
    BY <2>1 DEF SaveBegin, tableVars
  <2>3. saves \in Seq(Save)
    BY DEF TypeOK
  <2>4. s.gb.gen = s.born % GENERATIONS
    BY DEF OnTheClock
  <2> HIDE DEF s
  <2>5. /\ Len(saves') = Len(saves) + 1 /\ saves'[Len(saves) + 1] = s
        /\ \A t \in 1..Len(saves) : saves'[t] = saves[t]
    BY <2>2, <2>3
  <2>6. ASSUME NEW t \in 1..Len(saves')
        PROVE  saves'[t].gb.gen = saves'[t].born % GENERATIONS
    BY <2>3, <2>4, <2>5 DEF OnTheClock
  <2> QED BY <2>2, <2>6 DEF OnTheClock
<1>5. ASSUME NEW n \in Node,
             \/ \E k \in Fragment : Visit(n, k)
             \/ LocateKey(n) \/ LocateOccupied(n) \/ LocateRead(n) \/ LocateVictim(n)
             \/ SaveLoad(n) \/ SaveMove(n) \/ SaveStore(n) \/ Leave(n)
      PROVE  UNCHANGED <<generation8, searches, saves>>
  BY <1>5 DEF Visit, LocateKey, LocateOccupied, LocateRead, LocateVictim, SaveLoad,
              SaveMove, SaveStore, Leave, tableVars, history
<1>6. CASE UNCHANGED vars
  BY <1>1, <1>6 DEF vars
<1> QED BY <1>1, <1>2, <1>3, <1>4, <1>5, <1>6 DEF Next

\* hashfull's age of an undisturbed entry is the number of searches begun since
\* it was stored, on a clock of any number of generations: the wrap of
\* relative_age, a clear and a resize lose none.
THEOREM AgesAreExact == Spec => []AgeExact
<1>1. Init => OnTheClock
  BY GenerationsAssumption DEF Init, OnTheClock
<1>2. Spec => []OnTheClock
  <2>1. IInv /\ OnTheClock /\ [Next]_vars => OnTheClock'
    BY ClockStep DEF IInv
  <2> QED BY <1>1, <2>1, InvAlways, PTL DEF Spec
<1>3. IInv /\ OnTheClock => AgeExact
  <2> SUFFICES ASSUME IInv, OnTheClock, NEW e \in Slots,
                      ~raced[e], Saving(e) = {}, IsOccupied(entry[e])
               PROVE  RelativeAge(entry[e].gb, generation8)
                        = (searches - saves[entry[e].value].born) % GENERATIONS
    BY DEF AgeExact, Young
  <2> DEFINE s == saves[entry[e].value]
  <2>1. WholeFor(entry[e], entry[e].key)
    BY DEF IInv, RestInv, EntryOK
  <2>2. entry[e].value \in 1..Len(saves) /\ entry[e].gb = s.gb
    BY <2>1 DEF WholeFor
  <2>3. s.born \in Int /\ searches \in Int
    <3>1. saves \in Seq(Save) /\ searches \in Nat
      BY DEF IInv, TypeOK
    <3>2. s \in Save
      BY <2>2, <3>1
    <3> QED BY <3>1, <3>2 DEF Save
  <2>4. s.gb.gen = s.born % GENERATIONS /\ generation8 = searches % GENERATIONS
    BY <2>2 DEF OnTheClock
  <2> HIDE DEF s
  <2>5. ((searches % GENERATIONS) - (s.born % GENERATIONS)) % GENERATIONS
          = (searches - s.born) % GENERATIONS
    BY <2>3, ModDifference, GenerationsAssumption
  <2> QED BY <2>2, <2>4, <2>5 DEF RelativeAge, s
<1> QED BY <1>2, <1>3, InvAlways, PTL

=============================================================================
