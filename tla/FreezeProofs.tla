---------------------------- MODULE FreezeProofs ----------------------------
(***************************************************************************)
(* Proofs about Freeze, for every set of writers, of rebuilds and of other *)
(* keys, and for every number of calls: no finished write is lost to a     *)
(* rebuild, store buffers and panics included.                             *)
(*                                                                         *)
(* That a finished write is in the reachable subtree is not inductive: a   *)
(* rebuild may be about to replace that subtree by its snapshot.  What is  *)
(* kept is that the snapshot agrees too, for every key whose writer has not*)
(* begun to write since it last found the pointer unfrozen.                *)
(***************************************************************************)
EXTENDS Freeze, FiniteSetTheorems, TLAPS

SlotStates == {"EMPTY", "WRITING", "DATA", "TOMBSTONE"}
WriterPcs  == {"idle", "descend", "insert", "remove", "publish", "count", "validate"}
RebuildPcs == {"idle", "freeze", "scan", "swap"}
Stores     == [node : Nodes, val : Nat]
Buffers    == {<<>>} \cup {<<e>> : e \in Stores}
Memory     == [Nodes -> [Keys -> [st : SlotStates, val : Nat]]]

\* Types; a buffer holds one store at most, as a claim waits for it to drain.
TypeOK ==
    /\ cell \in [node : Nodes, tag : {0, 1}]
    /\ slots \in Memory
    /\ buffer \in [Writers -> Buffers]
    /\ built \in Nodes
    /\ begun \in [Rebuilders -> 0..MaxRebuilds]
    /\ pc \in [Writers \cup Rebuilders -> WriterPcs \cup RebuildPcs]
    /\ \A p \in Writers : pc[p] \in WriterPcs
    /\ \A r \in Rebuilders : pc[r] \in RebuildPcs
    /\ op \in [Writers -> {"insert", "remove"}]
    /\ calls \in [Writers -> Nat]
    /\ seen \in [Writers -> Nodes]
    /\ fresh \in [Writers -> BOOLEAN]
    /\ done \in [Writers -> Nat]
    /\ victim \in [Rebuilders -> Nodes]
    /\ todo \in [Rebuilders -> SUBSET Keys]
    /\ pairs \in [Rebuilders -> [Keys -> Nat]]

\* The rebuild has the pointer frozen.
Freezing(r) == pc[r] \in {"scan", "swap"}

\* What the snapshot of r holds for p's key when it is complete, if the slots
\* stay as they are.
Snap(r, p) == IF p \in todo[r] THEN Final(p, victim[r]) ELSE pairs[r][p]

\* A frozen pointer has one owner, which finds it as it left it.
OwnerInv ==
    /\ \A r \in Rebuilders : Freezing(r) => cell = [node |-> victim[r], tag |-> 1]
    /\ \A r, s \in Rebuilders : Freezing(r) /\ Freezing(s) => r = s
    /\ cell.tag = 1 => \E r \in Rebuilders : Freezing(r)
    /\ \A r \in Rebuilders : pc[r] = "swap" => todo[r] = {}

\* Nobody holds a node that is not built yet; entries have a value.
NodeInv ==
    /\ cell.node <= built
    /\ \A p \in Writers : seen[p] <= built
    /\ \A p \in Writers : buffer[p] # <<>> =>
         buffer[p][1].node <= built /\ buffer[p][1].val # Absent
    /\ \A n \in Nodes, k \in Keys : slots[n][k].st = "DATA" => slots[n][k].val # Absent

\* A slot is WRITING while its writer is between the claim and the moment its
\* store leaves the buffer.
BufferInv(p) ==
    /\ pc[p] # "idle" => calls[p] # 0
    /\ pc[p] = "publish" => buffer[p] = <<>>
    /\ \A n \in Nodes :
         slots[n][p].st = "WRITING" <=>
           \/ pc[p] = "publish" /\ seen[p] = n
           \/ buffer[p] # <<>> /\ buffer[p][1].node = n

\* The reachable node and the snapshot of a rebuild agree on the value v of p's
\* key.
Agreed(p, v) ==
    /\ Current(p) = v
    /\ \A r \in Rebuilders : Freezing(r) => Snap(r, p) = v

\* Where a writer has not written since it found the pointer unfrozen, they
\* agree on what it finds; what it has written is in the node it saw.
WriterInv(p) ==
    /\ pc[p] = "idle" => Agreed(p, done[p])
    /\ pc[p] \in {"insert", "remove"} =>
         op[p] = pc[p] /\ Agreed(p, Final(p, seen[p]))
    /\ pc[p] \in {"publish", "count"} => op[p] = "insert"
    /\ pc[p] \in {"count", "validate"} =>
         Final(p, seen[p]) = IF op[p] = "insert" THEN calls[p] ELSE Absent

\* The subtrees built are the results of rebuilds that have begun and are over:
\* there is a node left for each rebuild that is running.
CountInv ==
    \E D \in SUBSET (Rebuilders \X (1..MaxRebuilds)) :
        /\ Cardinality(D) = built
        /\ \A d \in D : d[2] <= begun[d[1]]
        /\ \A r \in Rebuilders : pc[r] # "idle" =>
             begun[r] >= 1 /\ <<r, begun[r]>> \notin D

IInv ==
    /\ TypeOK /\ OwnerInv /\ NodeInv /\ CountInv
    /\ \A p \in Writers : BufferInv(p) /\ WriterInv(p)
-----------------------------------------------------------------------------
(***************************************************************************)
(* Lemmas about the operators.                                             *)
(***************************************************************************)
LEMMA NodesFacts ==
    /\ 0 \in Nodes /\ Nodes \subseteq Nat
    /\ \A n \in Nodes : \A i \in 0..n : i \in Nodes
<1>1. Cardinality(Rebuilders) \in Nat
  BY FreezeAssumption, FS_CardinalityType
<1>2. MaxRebuilds * Cardinality(Rebuilders) \in Nat
  BY <1>1, FreezeAssumption
<1> QED BY <1>2 DEF Nodes

\* A load finds the one store of the buffer if it is to the slot it reads.
LEMMA ForwardedValue ==
    ASSUME NEW b \in Buffers, NEW n \in Nodes, NEW s
    PROVE  /\ Forwarded(b, n, s) =
                IF b # <<>> /\ b[1].node = n THEN Slot("DATA", b[1].val) ELSE s
           /\ ValueOf(Forwarded(b, n, s)) =
                IF b # <<>> /\ b[1].node = n THEN b[1].val ELSE ValueOf(s)
<1>1. CASE b = <<>>
  BY <1>1 DEF Forwarded
<1>2. CASE b # <<>>
  <2>1. PICK e \in Stores : b = <<e>>
    BY <1>2 DEF Buffers
  <2>2. DOMAIN b = {1} /\ b[1] = e
    BY <2>1
  <2>3. CASE e.node = n
    <3>1. {i \in DOMAIN b : b[i].node = n} = {1}
      BY <2>2, <2>3
    <3>2. (CHOOSE i \in {1} : \A j \in {1} : j <= i) = 1
      OBVIOUS
    <3>3. Forwarded(b, n, s) = Slot("DATA", b[1].val)
      BY <3>1, <3>2 DEF Forwarded
    <3> QED BY <3>3, <1>2, <2>2, <2>3 DEF ValueOf, Slot
  <2>4. CASE e.node # n
    <3>1. {i \in DOMAIN b : b[i].node = n} = {}
      BY <2>2, <2>4
    <3> QED BY <3>1, <2>2, <2>4 DEF Forwarded
  <2> QED BY <2>3, <2>4
<1> QED BY <1>1, <1>2

\* What a store to a slot of memory leaves.
LEMMA StoreSlot ==
    ASSUME NEW M \in Memory, NEW n \in Nodes, NEW k \in Keys,
           NEW s \in [st : SlotStates, val : Nat]
    PROVE  /\ [M EXCEPT ![n][k] = s] \in Memory
           /\ \A m \in Nodes, j \in Keys :
                [M EXCEPT ![n][k] = s][m][j] = IF m = n /\ j = k THEN s ELSE M[m][j]
BY DEF Memory

LEMMA StoreState ==
    ASSUME NEW M \in Memory, NEW n \in Nodes, NEW k \in Keys, NEW t \in SlotStates
    PROVE  /\ [M EXCEPT ![n][k].st = t] \in Memory
           /\ \A m \in Nodes, j \in Keys :
                [M EXCEPT ![n][k].st = t][m][j] =
                  IF m = n /\ j = k THEN Slot(t, M[n][k].val) ELSE M[m][j]
BY DEF Memory, Slot

\* A swap finds a node left: its rebuild is not among those counted in D.
LEMMA NodeLeft ==
    ASSUME TypeOK, CountInv, NEW r \in Rebuilders, pc[r] # "idle"
    PROVE  built + 1 \in Nodes
<1> DEFINE All == Rebuilders \X (1..MaxRebuilds)
<1>1. PICK D \in SUBSET All :
        /\ Cardinality(D) = built
        /\ begun[r] >= 1 /\ <<r, begun[r]>> \notin D
  BY DEF CountInv
<1>2. begun[r] \in 1..MaxRebuilds
  BY <1>1, FreezeAssumption DEF TypeOK
<1>3. IsFiniteSet(1..MaxRebuilds) /\ Cardinality(1..MaxRebuilds) = MaxRebuilds
  BY FreezeAssumption, FS_Interval
<1>4. IsFiniteSet(All) /\ Cardinality(All) = Cardinality(Rebuilders) * MaxRebuilds
  BY <1>3, FreezeAssumption, FS_Product
<1>5. IsFiniteSet(D)
  BY <1>4, FS_Subset
<1>6. Cardinality(D \cup {<<r, begun[r]>>}) = built + 1
  BY <1>1, <1>5, FS_AddElement
<1>7. D \cup {<<r, begun[r]>>} \subseteq All
  BY <1>2
<1>8. built + 1 <= Cardinality(Rebuilders) * MaxRebuilds
  BY <1>4, <1>6, <1>7, FS_Subset
<1>9. Cardinality(Rebuilders) \in Nat /\ built \in Nat
  BY FreezeAssumption, FS_CardinalityType, NodesFacts DEF TypeOK
<1>10. Cardinality(Rebuilders) * MaxRebuilds = MaxRebuilds * Cardinality(Rebuilders)
  BY <1>9, FreezeAssumption
<1> QED BY <1>8, <1>9, <1>10, FreezeAssumption DEF Nodes
-----------------------------------------------------------------------------
(***************************************************************************)
(* Types.                                                                  *)
(***************************************************************************)
LEMMA InitTypes == Init => TypeOK
<1>1. Init => /\ slots \in Memory
              /\ buffer \in [Writers -> Buffers]
  BY DEF Init, Slot, SlotStates, Buffers, Memory, Absent
<1>2. \A p \in Writers : p \notin Rebuilders
  BY FreezeAssumption
<1> QED BY <1>1, <1>2, NodesFacts, FreezeAssumption
     DEF Init, TypeOK, WriterPcs, RebuildPcs, Absent

LEMMA WriterTypes ==
    ASSUME TypeOK, NEW p \in Writers, BufferInv(p), Write(p) \/ Flush(p)
    PROVE  TypeOK'
<1>1. p \in Keys /\ p \notin Rebuilders
  BY FreezeAssumption DEF Keys
<1>2. CASE Begin(p)
  BY <1>1, <1>2 DEF TypeOK, Begin, Goto, rebuilder, WriterPcs
<1>3. CASE Descend(p)
  BY <1>1, <1>3 DEF TypeOK, Descend, Goto, rebuilder, WriterPcs
<1>4. CASE Claim(p)
  <2>1. slots' \in Memory
    BY <1>1, <1>4, StoreState DEF TypeOK, Claim, SlotStates
  <2>2. fresh' \in [Writers -> BOOLEAN]
    BY <1>4 DEF TypeOK, Claim
  <2> QED BY <1>1, <1>4, <2>1, <2>2 DEF TypeOK, Claim, Goto, rebuilder, WriterPcs
<1>5. CASE Publish(p)
  <2>1. buffer' \in [Writers -> Buffers]
    <3> DEFINE e == [node |-> seen[p], val |-> calls[p]]
    <3>1. e \in Stores /\ Append(<<>>, e) = <<e>>
      BY DEF TypeOK, Stores
    <3>2. buffer' = [buffer EXCEPT ![p] = <<e>>]
      BY <1>5, <3>1 DEF TypeOK, BufferInv, Publish
    <3> HIDE DEF e
    <3> QED BY <3>1, <3>2 DEF TypeOK, Buffers
  <2> QED BY <1>1, <1>5, <2>1 DEF TypeOK, Publish, Goto, writer, rebuilder, WriterPcs
<1>6. CASE Count(p)
  BY <1>1, <1>6 DEF TypeOK, Count, Goto, writer, rebuilder, WriterPcs
<1>7. CASE RemoveAbsent(p)
  BY <1>1, <1>7, NodesFacts DEF TypeOK, RemoveAbsent, Return, Goto, rebuilder, WriterPcs, Absent
<1>8. CASE Remove(p)
  <2>1. slots' \in Memory
    BY <1>1, <1>8, StoreSlot DEF TypeOK, Remove, SlotStates, Slot, Absent
  <2> QED BY <1>1, <1>8, <2>1 DEF TypeOK, Remove, Goto, writer, rebuilder, WriterPcs
<1>9. CASE Validate(p)
  <2>1. CASE StillReachable(p)
    <3>1. done' \in [Writers -> Nat]
      BY <1>9, <2>1 DEF TypeOK, Validate, Return, Absent
    <3>2. /\ seen' \in [Writers -> Nodes] /\ op' \in [Writers -> {"insert", "remove"}]
          /\ fresh' \in [Writers -> BOOLEAN]
      <4>1. /\ seen' = [seen EXCEPT ![p] = 0] /\ op' = [op EXCEPT ![p] = "insert"]
            /\ fresh' = [fresh EXCEPT ![p] = FALSE]
        BY <1>9, <2>1 DEF Validate, Return
      <4> QED BY <4>1, NodesFacts DEF TypeOK
    <3>3. /\ pc' \in [Writers \cup Rebuilders -> WriterPcs \cup RebuildPcs]
          /\ pc'[p] = "idle" /\ \A q \in Writers \cup Rebuilders : q # p => pc'[q] = pc[q]
      BY <1>9, <2>1 DEF TypeOK, Validate, Return, Goto, WriterPcs
    <3> QED BY <1>1, <1>9, <3>1, <3>2, <3>3 DEF TypeOK, Validate, rebuilder, WriterPcs
  <2>2. CASE ~StillReachable(p)
    BY <1>1, <1>9, <2>2 DEF TypeOK, Validate, Goto, rebuilder, WriterPcs
  <2> QED BY <2>1, <2>2
<1>10. CASE Flush(p)
  <2>1. PICK e \in Stores : buffer[p] = <<e>>
    BY <1>10 DEF TypeOK, Flush, Buffers
  <2>2. slots' \in Memory
    <3>1. Head(buffer[p]) = e /\ e.node \in Nodes
      BY <2>1 DEF Stores
    <3>2. Slot("DATA", e.val) \in [st : SlotStates, val : Nat]
      BY <2>1 DEF Stores, Slot, SlotStates
    <3>3. slots' = [slots EXCEPT ![e.node][p] = Slot("DATA", e.val)]
      BY <1>10, <3>1 DEF Flush
    <3> QED BY <1>1, <3>1, <3>2, <3>3, StoreSlot DEF TypeOK
  <2>3. buffer' \in [Writers -> Buffers]
    BY <1>10, <2>1 DEF TypeOK, Flush, Buffers
  <2> QED BY <1>1, <1>10, <2>2, <2>3 DEF TypeOK, Flush, writer, rebuilder
<1> QED BY <1>2, <1>3, <1>4, <1>5, <1>6, <1>7, <1>8, <1>9, <1>10 DEF Write

LEMMA RebuildTypes ==
    ASSUME TypeOK, CountInv, NEW r \in Rebuilders, RbLoad(r) \/ Rebuild(r) \/ Panic(r)
    PROVE  TypeOK'
<1>1. r \notin Writers /\ NoPairs \in [Keys -> Nat]
  BY FreezeAssumption DEF NoPairs, Absent
<1>2. CASE RbLoad(r)
  BY <1>1, <1>2, FreezeAssumption DEF TypeOK, RbLoad, Goto, writer, RebuildPcs
<1>3. CASE RbFreeze(r)
  <2>1. CASE cell = [node |-> victim[r], tag |-> 0]
    <3>1. cell' \in [node : Nodes, tag : {0, 1}]
      BY <1>3, <2>1 DEF TypeOK, RbFreeze
    <3>2. /\ pc' = [pc EXCEPT ![r] = "scan"] /\ todo' = [todo EXCEPT ![r] = Keys]
          /\ UNCHANGED <<slots, buffer, built, begun, writer, victim, pairs>>
      BY <1>3, <2>1 DEF RbFreeze, Goto
    <3> QED BY <1>1, <3>1, <3>2 DEF TypeOK, writer, RebuildPcs
  <2>2. CASE cell # [node |-> victim[r], tag |-> 0]
    <3>1. RbReturn(r) /\ UNCHANGED <<cell, slots, buffer, built, begun, writer>>
      BY <1>3, <2>2 DEF RbFreeze
    <3> QED BY <1>1, <3>1, NodesFacts DEF TypeOK, RbReturn, Goto, writer, RebuildPcs
  <2> QED BY <2>1, <2>2
<1>4. CASE RbScan(r)
  <2> DEFINE k == NextSlot(todo[r])
  <2>1. pairs' \in [Rebuilders -> [Keys -> Nat]]
    <3> DEFINE v == IF slots[victim[r]][k].st = "DATA" THEN slots[victim[r]][k].val ELSE Absent
    <3>1. pairs' = [pairs EXCEPT ![r][k] = v]
      BY <1>4 DEF RbScan
    <3>2. k \in Keys => v \in Nat
      BY DEF TypeOK, Memory, Absent
    <3> HIDE DEF k, v
    <3> QED BY <3>1, <3>2 DEF TypeOK
  <2>2. todo' \in [Rebuilders -> SUBSET Keys]
    BY <1>4 DEF TypeOK, RbScan
  <2>3. pc' = [pc EXCEPT ![r] = IF todo[r] = {k} THEN "swap" ELSE "scan"]
    BY <1>4 DEF RbScan, Goto
  <2> HIDE DEF k
  <2> QED BY <1>1, <1>4, <2>1, <2>2, <2>3 DEF TypeOK, RbScan, writer, RebuildPcs
<1>5. CASE Panic(r)
  BY <1>1, <1>5, NodesFacts DEF TypeOK, Panic, Unfrozen, RbReturn, Goto, writer, RebuildPcs
<1>6. CASE TooSmall(r)
  BY <1>1, <1>6, NodesFacts DEF TypeOK, TooSmall, Unfrozen, RbReturn, Goto, writer, RebuildPcs
<1>7. CASE Swap(r)
  <2>1. built' \in Nodes
    BY <1>7, NodeLeft DEF Swap
  <2>2. slots' \in Memory
    <3> DEFINE f == [k \in Keys |-> IF k \in Snapshot(r) THEN Slot("DATA", pairs[r][k])
                                   ELSE Slot("EMPTY", Absent)]
    <3>1. f \in [Keys -> [st : SlotStates, val : Nat]]
      BY DEF TypeOK, Slot, SlotStates, Absent
    <3>2. slots' = [slots EXCEPT ![built'] = f]
      BY <1>7 DEF Swap
    <3> HIDE DEF f
    <3> QED BY <3>1, <3>2 DEF TypeOK, Memory
  <2> QED BY <1>1, <1>7, <2>1, <2>2, NodesFacts
       DEF TypeOK, Swap, RbReturn, Goto, writer, RebuildPcs
<1> QED BY <1>2, <1>3, <1>4, <1>5, <1>6, <1>7 DEF Rebuild
-----------------------------------------------------------------------------
(***************************************************************************)
(* What a step leaves alone.                                               *)
(***************************************************************************)
\* A writer has its own slots, buffer and locals.
LEMMA WriterFrame ==
    ASSUME TypeOK, NEW p \in Writers, Write(p) \/ Flush(p)
    PROVE  /\ UNCHANGED <<cell, built, rebuilder>>
           /\ \A r \in Rebuilders : pc'[r] = pc[r]
           /\ \A q \in Writers \ {p} :
                /\ pc'[q] = pc[q] /\ op'[q] = op[q] /\ calls'[q] = calls[q]
                /\ seen'[q] = seen[q] /\ done'[q] = done[q] /\ buffer'[q] = buffer[q]
           /\ \A n \in Nodes, k \in Keys \ {p} : slots'[n][k] = slots[n][k]
<1>1. p \in Keys /\ p \notin Rebuilders
  BY FreezeAssumption DEF Keys
<1>2. UNCHANGED <<cell, built, rebuilder>>
  BY DEF Write, Begin, Descend, Claim, Publish, Count, RemoveAbsent, Remove, Validate, Flush
<1>3. UNCHANGED pc \/ \E l : pc' = [pc EXCEPT ![p] = l]
  BY DEF Write, Begin, Descend, Claim, Publish, Count, RemoveAbsent, Remove, Validate,
         Return, Flush, Goto
<1>4. \A q \in Writers \cup Rebuilders : q # p => pc'[q] = pc[q]
  BY <1>3 DEF TypeOK
<1>5. UNCHANGED buffer \/ \E b : buffer' = [buffer EXCEPT ![p] = b]
  BY DEF Write, Begin, Descend, Claim, Publish, Count, RemoveAbsent, Remove, Validate, Flush
<1>6. \A q \in Writers \ {p} : buffer'[q] = buffer[q]
  BY <1>5 DEF TypeOK
<1>7. \/ UNCHANGED slots
      \/ \E n, s : slots' = [slots EXCEPT ![n][p] = s]
      \/ \E n, t : slots' = [slots EXCEPT ![n][p].st = t]
  BY DEF Write, Begin, Descend, Claim, Publish, Count, RemoveAbsent, Remove, Validate, Flush
<1>8. \A n \in Nodes, k \in Keys \ {p} : slots'[n][k] = slots[n][k]
  <2> SUFFICES ASSUME NEW m \in Nodes, NEW k \in Keys \ {p} PROVE slots'[m][k] = slots[m][k]
    OBVIOUS
  <2>0. slots[m] \in [Keys -> [st : SlotStates, val : Nat]]
    BY DEF TypeOK, Memory
  <2>1. ASSUME NEW n, NEW s, slots' = [slots EXCEPT ![n][p] = s]
        PROVE  slots'[m][k] = slots[m][k]
    BY <2>0, <2>1 DEF TypeOK, Memory
  <2>2. ASSUME NEW n, NEW t, slots' = [slots EXCEPT ![n][p].st = t]
        PROVE  slots'[m][k] = slots[m][k]
    BY <2>0, <2>2 DEF TypeOK, Memory
  <2> QED BY <1>7, <2>1, <2>2
<1>9. \A q \in Writers \ {p} :
        op'[q] = op[q] /\ calls'[q] = calls[q] /\ seen'[q] = seen[q] /\ done'[q] = done[q]
  <2>1. UNCHANGED op \/ \E v : op' = [op EXCEPT ![p] = v]
    BY DEF writer, Write, Begin, Descend, Claim, Publish, Count, RemoveAbsent, Remove,
           Validate, Return, Flush
  <2>2. UNCHANGED calls \/ \E v : calls' = [calls EXCEPT ![p] = v]
    BY DEF writer, Write, Begin, Descend, Claim, Publish, Count, RemoveAbsent, Remove,
           Validate, Flush
  <2>3. UNCHANGED seen \/ \E v : seen' = [seen EXCEPT ![p] = v]
    BY DEF writer, Write, Begin, Descend, Claim, Publish, Count, RemoveAbsent, Remove,
           Validate, Return, Flush
  <2>4. UNCHANGED done \/ \E v : done' = [done EXCEPT ![p] = v]
    BY DEF writer, Write, Begin, Descend, Claim, Publish, Count, RemoveAbsent, Remove,
           Validate, Return, Flush
  <2> QED BY <2>1, <2>2, <2>3, <2>4 DEF TypeOK
<1> QED BY <1>1, <1>2, <1>4, <1>6, <1>8, <1>9

\* A rebuild changes no writer's locals and no slot of a node that is built.
LEMMA RebuildFrame ==
    ASSUME TypeOK, NEW r \in Rebuilders, RbLoad(r) \/ Rebuild(r) \/ Panic(r)
    PROVE  /\ UNCHANGED <<buffer, writer>>
           /\ \A q \in (Writers \cup Rebuilders) \ {r} : pc'[q] = pc[q]
           /\ \A s \in Rebuilders \ {r} :
                /\ begun'[s] = begun[s] /\ victim'[s] = victim[s]
                /\ todo'[s] = todo[s] /\ pairs'[s] = pairs[s]
<1>1. UNCHANGED <<buffer, writer>>
  BY DEF RbLoad, Rebuild, RbFreeze, RbScan, TooSmall, Swap, Panic
<1>2. \E l : pc' = [pc EXCEPT ![r] = l]
  BY DEF RbLoad, Rebuild, RbFreeze, RbScan, TooSmall, Swap, Panic, RbReturn, Goto
<1>3. \A q \in (Writers \cup Rebuilders) \ {r} : pc'[q] = pc[q]
  BY <1>2 DEF TypeOK
<1>4. UNCHANGED begun \/ \E b : begun' = [begun EXCEPT ![r] = b]
  BY DEF RbLoad, Rebuild, RbFreeze, RbScan, TooSmall, Swap, Panic
<1>5. UNCHANGED victim \/ \E v : victim' = [victim EXCEPT ![r] = v]
  BY DEF RbLoad, Rebuild, RbFreeze, RbScan, TooSmall, Swap, Panic, RbReturn
<1>6. UNCHANGED todo \/ \E t : todo' = [todo EXCEPT ![r] = t]
  BY DEF RbLoad, Rebuild, RbFreeze, RbScan, TooSmall, Swap, Panic, RbReturn
<1>7. \/ UNCHANGED pairs \/ \E f : pairs' = [pairs EXCEPT ![r] = f]
      \/ \E k, v : pairs' = [pairs EXCEPT ![r][k] = v]
  BY DEF RbLoad, Rebuild, RbFreeze, RbScan, TooSmall, Swap, Panic, RbReturn
<1>8. \A s \in Rebuilders \ {r} :
        /\ begun'[s] = begun[s] /\ victim'[s] = victim[s]
        /\ todo'[s] = todo[s] /\ pairs'[s] = pairs[s]
  BY <1>4, <1>5, <1>6, <1>7 DEF TypeOK
<1> QED BY <1>1, <1>3, <1>8
-----------------------------------------------------------------------------
(***************************************************************************)
(* The steps of a writer.                                                  *)
(***************************************************************************)
\* Rebuilds are as they were.
LEMMA WriterOwner ==
    ASSUME IInv, NEW p \in Writers, Write(p) \/ Flush(p)
    PROVE  OwnerInv' /\ CountInv'
<1> USE DEF IInv
<1>1. OwnerInv'
  BY WriterFrame DEF OwnerInv, Freezing, rebuilder
<1>2. CountInv'
  BY WriterFrame DEF CountInv, rebuilder
<1> QED BY <1>1, <1>2

\* So are the other writers, and what rebuilds will find of their keys.
LEMMA WriterOthers ==
    ASSUME IInv, NEW p \in Writers, Write(p) \/ Flush(p), NEW q \in Writers \ {p}
    PROVE  BufferInv(q)' /\ WriterInv(q)'
<1> USE DEF IInv
<1>0. q \in Keys \ {p} /\ cell.node \in Nodes /\ seen[q] \in Nodes
  BY DEF Keys, TypeOK
<1>1. \A n \in Nodes : Final(q, n)' = Final(q, n)
  BY <1>0, WriterFrame DEF Final, Sees
<1>2. \A r \in Rebuilders : victim[r] \in Nodes
  BY DEF TypeOK
<1>3. \A r \in Rebuilders : /\ Freezing(r)' <=> Freezing(r)
                           /\ Snap(r, q)' = Snap(r, q)
  BY <1>1, <1>2, WriterFrame DEF Freezing, Snap, rebuilder
<1>4. Current(q)' = Current(q)
  BY <1>0, <1>1, WriterFrame DEF Current
<1>5. BufferInv(q)'
  BY <1>0, WriterFrame DEF BufferInv
<1>6. WriterInv(q)'
  BY <1>0, <1>1, <1>3, <1>4, WriterFrame DEF WriterInv, Agreed
<1> QED BY <1>5, <1>6

\* What a step of p leaves as it was, if p's slots and buffer are as they were.
LEMMA WriterView ==
    ASSUME IInv, NEW p \in Writers, Write(p) \/ Flush(p),
           \A n \in Nodes : Final(p, n)' = Final(p, n)
    PROVE  /\ Current(p)' = Current(p)
           /\ \A r \in Rebuilders : /\ Freezing(r)' <=> Freezing(r)
                                    /\ Snap(r, p)' = Snap(r, p)
<1>1. cell.node \in Nodes /\ \A r \in Rebuilders : victim[r] \in Nodes
  BY DEF TypeOK, IInv
<1> QED BY <1>1, WriterFrame DEF Current, Freezing, Snap, rebuilder, IInv

\* Where the pointer is not frozen, whoever finds it knows what all agree on.
LEMMA Unfrozen0 ==
    ASSUME IInv, cell.tag = 0, NEW p \in Writers
    PROVE  Agreed(p, Final(p, cell.node))
BY DEF IInv, OwnerInv, Agreed, Current

\* What the four steps that touch memory or the buffer leave there.
LEMMA WriterMemory ==
    ASSUME IInv, NEW p \in Writers
    PROVE  /\ Claim(p) => \A n \in Nodes, k \in Keys :
                slots'[n][k] = IF n = seen[p] /\ k = p THEN Slot("WRITING", slots[n][k].val)
                                                    ELSE slots[n][k]
           /\ Remove(p) => \A n \in Nodes, k \in Keys :
                slots'[n][k] = IF n = seen[p] /\ k = p THEN Slot("TOMBSTONE", Absent)
                                                    ELSE slots[n][k]
           /\ Flush(p) => \E e \in Stores :
                /\ buffer[p] = <<e>> /\ buffer'[p] = <<>>
                /\ \A n \in Nodes, k \in Keys :
                     slots'[n][k] = IF n = e.node /\ k = p THEN Slot("DATA", e.val)
                                                         ELSE slots[n][k]
           /\ Publish(p) =>
                /\ buffer[p] = <<>>
                /\ buffer'[p] = <<[node |-> seen[p], val |-> calls[p]]>>
<1> USE DEF IInv
<1>0. p \in Keys /\ seen[p] \in Nodes /\ slots \in Memory
  BY DEF Keys, TypeOK
<1>1. ASSUME Claim(p)
      PROVE  \A n \in Nodes, k \in Keys :
               slots'[n][k] = IF n = seen[p] /\ k = p THEN Slot("WRITING", slots[n][k].val)
                                                   ELSE slots[n][k]
  <2>1. slots' = [slots EXCEPT ![seen[p]][p].st = "WRITING"] /\ "WRITING" \in SlotStates
    BY <1>1 DEF Claim, SlotStates
  <2> QED BY <1>0, <2>1, StoreState
<1>2. ASSUME Remove(p)
      PROVE  \A n \in Nodes, k \in Keys :
               slots'[n][k] = IF n = seen[p] /\ k = p THEN Slot("TOMBSTONE", Absent)
                                                   ELSE slots[n][k]
  <2>1. slots' = [slots EXCEPT ![seen[p]][p] = Slot("TOMBSTONE", Absent)]
    BY <1>2 DEF Remove
  <2>2. Slot("TOMBSTONE", Absent) \in [st : SlotStates, val : Nat]
    BY DEF Slot, SlotStates, Absent
  <2> QED BY <1>0, <2>1, <2>2, StoreSlot
<1>3. ASSUME Flush(p)
      PROVE  \E e \in Stores :
                /\ buffer[p] = <<e>> /\ buffer'[p] = <<>>
                /\ \A n \in Nodes, k \in Keys :
                     slots'[n][k] = IF n = e.node /\ k = p THEN Slot("DATA", e.val)
                                                         ELSE slots[n][k]
  <2>1. PICK e \in Stores : buffer[p] = <<e>>
    BY <1>3 DEF TypeOK, Flush, Buffers
  <2>2. slots' = [slots EXCEPT ![e.node][p] = Slot("DATA", e.val)] /\ buffer'[p] = <<>>
    BY <1>3, <2>1 DEF Flush, TypeOK
  <2>3. e.node \in Nodes /\ Slot("DATA", e.val) \in [st : SlotStates, val : Nat]
    BY DEF Stores, Slot, SlotStates
  <2> QED BY <1>0, <2>1, <2>2, <2>3, StoreSlot
<1>4. ASSUME Publish(p)
      PROVE  /\ buffer[p] = <<>>
             /\ buffer'[p] = <<[node |-> seen[p], val |-> calls[p]]>>
  <2>1. buffer[p] = <<>> /\ buffer' = [buffer EXCEPT ![p] = Append(@, [node |-> seen[p], val |-> calls[p]])]
    BY <1>4 DEF Publish, BufferInv
  <2>2. buffer'[p] = Append(<<>>, [node |-> seen[p], val |-> calls[p]])
    BY <2>1 DEF TypeOK
  <2> QED BY <2>1, <2>2
<1> QED BY <1>1, <1>2, <1>3, <1>4

LEMMA WriterNodes ==
    ASSUME IInv, NEW p \in Writers, Write(p) \/ Flush(p)
    PROVE  NodeInv'
<1> USE DEF IInv
<1>0. p \in Keys
  BY DEF Keys
<1>1. CASE Begin(p)
  BY <1>1 DEF NodeInv, Begin
<1>2. CASE Descend(p)
  BY <1>2 DEF NodeInv, Descend, TypeOK
<1>3. CASE Claim(p)
  <2>0. \A n \in Nodes, k \in Keys :
          slots'[n][k] = IF n = seen[p] /\ k = p THEN Slot("WRITING", slots[n][k].val)
                                              ELSE slots[n][k]
    BY <1>3, WriterMemory
  <2>1. \A n \in Nodes, k \in Keys : slots'[n][k].st = "DATA" => slots'[n][k].val # Absent
    <3> SUFFICES ASSUME NEW n \in Nodes, NEW k \in Keys, slots'[n][k].st = "DATA"
                 PROVE  slots'[n][k].val # Absent
      OBVIOUS
    <3>1. CASE n = seen[p] /\ k = p
      <4>1. slots'[n][k] = Slot("WRITING", slots[n][k].val)
        BY <2>0, <3>1
      <4> QED BY <4>1 DEF Slot
    <3>2. CASE ~(n = seen[p] /\ k = p)
      <4>1. slots'[n][k] = slots[n][k]
        BY <2>0, <3>2
      <4> QED BY <4>1 DEF NodeInv
    <3> QED BY <3>1, <3>2
  <2> QED BY <1>3, <2>1 DEF NodeInv, Claim
<1>4. CASE Publish(p)
  <2>1. buffer'[p] = <<[node |-> seen[p], val |-> calls[p]]>> /\ calls[p] # 0
    BY <1>4, WriterMemory DEF Publish, BufferInv
  <2>2. seen[p] <= built
    BY DEF NodeInv
  <2>3. \A q \in Writers : buffer'[q] # <<>> =>
          buffer'[q][1].node <= built /\ buffer'[q][1].val # Absent
    BY <2>1, <2>2, WriterFrame DEF NodeInv, Absent
  <2> QED BY <1>4, <2>3 DEF NodeInv, Publish, writer
<1>5. CASE Count(p)
  BY <1>5 DEF NodeInv, Count, writer
<1>6. CASE RemoveAbsent(p)
  <2>1. \A q \in Writers : seen'[q] <= built
    BY <1>6, NodesFacts DEF NodeInv, RemoveAbsent, Return, TypeOK
  <2> QED BY <1>6, <2>1 DEF NodeInv, RemoveAbsent
<1>7. CASE Remove(p)
  <2>0. \A n \in Nodes, k \in Keys :
          slots'[n][k] = IF n = seen[p] /\ k = p THEN Slot("TOMBSTONE", Absent)
                                              ELSE slots[n][k]
    BY <1>7, WriterMemory
  <2>1. \A n \in Nodes, k \in Keys : slots'[n][k].st = "DATA" => slots'[n][k].val # Absent
    <3> SUFFICES ASSUME NEW n \in Nodes, NEW k \in Keys, slots'[n][k].st = "DATA"
                 PROVE  slots'[n][k].val # Absent
      OBVIOUS
    <3>1. CASE n = seen[p] /\ k = p
      <4>1. slots'[n][k] = Slot("TOMBSTONE", Absent)
        BY <2>0, <3>1
      <4> QED BY <4>1 DEF Slot
    <3>2. CASE ~(n = seen[p] /\ k = p)
      <4>1. slots'[n][k] = slots[n][k]
        BY <2>0, <3>2
      <4> QED BY <4>1 DEF NodeInv
    <3> QED BY <3>1, <3>2
  <2> QED BY <1>7, <2>1 DEF NodeInv, Remove, writer
<1>8. CASE Validate(p)
  <2>1. UNCHANGED seen \/ seen' = [seen EXCEPT ![p] = 0]
    BY <1>8 DEF Validate, Return
  <2>2. \A q \in Writers : seen'[q] <= built
    <3>1. built \in Nat /\ seen \in [Writers -> Nodes]
      BY NodesFacts DEF TypeOK
    <3>2. \A q \in Writers : seen[q] <= built
      BY DEF NodeInv
    <3>3. \A q \in Writers : seen'[q] = seen[q] \/ seen'[q] = 0
      BY <2>1, <3>1
    <3> QED BY <3>1, <3>2, <3>3
  <2> QED BY <1>8, <2>2 DEF NodeInv, Validate
<1>9. CASE Flush(p)
  <2>1. PICK e \in Stores :
          /\ buffer[p] = <<e>> /\ buffer'[p] = <<>>
          /\ \A n \in Nodes, k \in Keys :
               slots'[n][k] = IF n = e.node /\ k = p THEN Slot("DATA", e.val) ELSE slots[n][k]
    BY <1>9, WriterMemory
  <2>2. e.val # Absent
    <3>1. buffer[p] # <<>> /\ buffer[p][1] = e
      BY <2>1
    <3> QED BY <3>1 DEF NodeInv
  <2>3. \A n \in Nodes, k \in Keys : slots'[n][k].st = "DATA" => slots'[n][k].val # Absent
    BY <2>1, <2>2 DEF NodeInv, Slot
  <2> QED BY <1>9, <2>1, <2>3, WriterFrame DEF NodeInv, Flush, writer
<1> QED BY <1>1, <1>2, <1>3, <1>4, <1>5, <1>6, <1>7, <1>8, <1>9 DEF Write

\* The writer's own slots are WRITING exactly as long as it has a store to make.
LEMMA WriterBuffer ==
    ASSUME IInv, NEW p \in Writers, Write(p) \/ Flush(p)
    PROVE  BufferInv(p)'
<1>0. /\ TypeOK /\ BufferInv(p) /\ p \in Keys /\ p \in Writers \cup Rebuilders
      /\ calls[p] \in Nat /\ seen[p] \in Nodes
  BY DEF Keys, IInv, TypeOK
<1>1. ASSUME pc[p] # "publish", pc'[p] # "publish", UNCHANGED <<slots, buffer>>,
             pc'[p] # "idle" => calls'[p] # 0
      PROVE  BufferInv(p)'
  BY <1>0, <1>1 DEF BufferInv
<1>2. CASE Begin(p)
  <2>1. pc[p] = "idle" /\ pc'[p] = "descend" /\ calls'[p] = calls[p] + 1
    BY <1>0, <1>2 DEF Begin, Goto, TypeOK
  <2> QED BY <1>0, <1>1, <1>2, <2>1 DEF Begin
<1>3. CASE Descend(p)
  <2>1. pc[p] = "descend" /\ pc'[p] = op[p] /\ op[p] \in {"insert", "remove"}
    BY <1>0, <1>3 DEF Descend, Goto, TypeOK
  <2> QED BY <1>0, <1>1, <1>3, <2>1 DEF Descend, BufferInv
<1>4. CASE Claim(p)
  <2>1. \A n \in Nodes, k \in Keys :
          slots'[n][k] = IF n = seen[p] /\ k = p THEN Slot("WRITING", slots[n][k].val)
                                              ELSE slots[n][k]
    BY <1>4, WriterMemory
  <2>2. /\ pc[p] = "insert" /\ pc'[p] = "publish" /\ buffer[p] = <<>>
        /\ UNCHANGED <<buffer, calls, seen>>
    BY <1>0, <1>4 DEF Claim, Goto, TypeOK, Drained
  <2>3. \A n \in Nodes : slots[n][p].st # "WRITING"
    BY <1>0, <2>2 DEF BufferInv
  <2>4. \A n \in Nodes : slots'[n][p].st = "WRITING" <=> n = seen[p]
    <3> SUFFICES ASSUME NEW n \in Nodes PROVE slots'[n][p].st = "WRITING" <=> n = seen[p]
      OBVIOUS
    <3>1. CASE n = seen[p]
      <4>1. slots'[n][p] = Slot("WRITING", slots[n][p].val)
        BY <1>0, <2>1, <3>1
      <4> QED BY <3>1, <4>1 DEF Slot
    <3>2. CASE n # seen[p]
      <4>1. slots'[n][p] = slots[n][p]
        BY <1>0, <2>1, <3>2
      <4> QED BY <2>3, <3>2, <4>1
    <3> QED BY <3>1, <3>2
  <2> QED BY <1>0, <2>2, <2>4 DEF BufferInv
<1>5. CASE Publish(p)
  <2>1. /\ buffer[p] = <<>> /\ buffer'[p] = <<[node |-> seen[p], val |-> calls[p]]>>
        /\ pc[p] = "publish" /\ pc'[p] \in {"count", "validate"}
        /\ UNCHANGED <<slots, calls, seen>>
    BY <1>0, <1>5, WriterMemory DEF Publish, Goto, TypeOK, writer
  <2>2. buffer'[p] # <<>> /\ buffer'[p][1].node = seen[p]
    BY <2>1
  <2>3. \A n \in Nodes : slots[n][p].st = "WRITING" <=> n = seen[p]
    BY <1>0, <2>1 DEF BufferInv
  <2>4. calls[p] # 0
    BY <1>0, <2>1 DEF BufferInv
  <2> QED BY <2>1, <2>2, <2>3, <2>4 DEF BufferInv
<1>6. CASE Count(p)
  <2>1. pc[p] = "count" /\ pc'[p] = "validate" /\ UNCHANGED calls
    BY <1>0, <1>6 DEF Count, Goto, TypeOK, writer
  <2> QED BY <1>0, <1>1, <1>6, <2>1 DEF Count, BufferInv
<1>7. CASE RemoveAbsent(p)
  <2>1. pc[p] = "remove" /\ pc'[p] = "idle"
    BY <1>0, <1>7 DEF RemoveAbsent, Return, Goto, TypeOK
  <2> QED BY <1>1, <1>7, <2>1 DEF RemoveAbsent
<1>8. CASE Remove(p)
  <2>1. \A n \in Nodes, k \in Keys :
          slots'[n][k] = IF n = seen[p] /\ k = p THEN Slot("TOMBSTONE", Absent)
                                              ELSE slots[n][k]
    BY <1>8, WriterMemory
  <2>2. /\ pc[p] = "remove" /\ pc'[p] = "validate" /\ buffer[p] = <<>>
        /\ UNCHANGED <<buffer, calls, seen>>
    BY <1>0, <1>8 DEF Remove, Goto, TypeOK, Drained, writer
  <2>3. \A n \in Nodes : slots[n][p].st # "WRITING"
    BY <1>0, <2>2 DEF BufferInv
  <2>4. \A n \in Nodes : slots'[n][p].st # "WRITING"
    <3> SUFFICES ASSUME NEW n \in Nodes PROVE slots'[n][p].st # "WRITING"
      OBVIOUS
    <3>1. slots'[n][p] \in {Slot("TOMBSTONE", Absent), slots[n][p]}
      BY <1>0, <2>1
    <3> QED BY <2>3, <3>1 DEF Slot
  <2>5. calls[p] # 0
    BY <1>0, <2>2 DEF BufferInv
  <2> QED BY <2>2, <2>4, <2>5 DEF BufferInv
<1>9. CASE Validate(p)
  <2>1. pc[p] = "validate" /\ pc'[p] \in {"idle", "descend"} /\ UNCHANGED calls
    BY <1>0, <1>9 DEF Validate, Return, Goto, TypeOK
  <2> QED BY <1>0, <1>1, <1>9, <2>1 DEF Validate, BufferInv
<1>10. CASE Flush(p)
  <2>1. PICK e \in Stores :
          /\ buffer[p] = <<e>> /\ buffer'[p] = <<>>
          /\ \A n \in Nodes, k \in Keys :
               slots'[n][k] = IF n = e.node /\ k = p THEN Slot("DATA", e.val) ELSE slots[n][k]
    BY <1>10, WriterMemory
  <2>2. buffer[p] # <<>> /\ buffer[p][1] = e
    BY <2>1
  <2>3. \A n \in Nodes : slots[n][p].st = "WRITING" <=> n = e.node
    BY <1>0, <2>2 DEF BufferInv
  <2>4. \A n \in Nodes : slots'[n][p].st # "WRITING"
    <3> SUFFICES ASSUME NEW n \in Nodes PROVE slots'[n][p].st # "WRITING"
      OBVIOUS
    <3>1. n = e.node => slots'[n][p] = Slot("DATA", e.val)
      BY <1>0, <2>1
    <3>2. n # e.node => slots'[n][p] = slots[n][p]
      BY <1>0, <2>1
    <3> QED BY <2>3, <3>1, <3>2 DEF Slot
  <2>5. pc[p] # "publish" /\ UNCHANGED <<pc, calls>>
    BY <1>0, <1>10, <2>2 DEF Flush, writer, BufferInv
  <2> QED BY <1>0, <2>1, <2>4, <2>5 DEF BufferInv
<1> QED BY <1>2, <1>3, <1>4, <1>5, <1>6, <1>7, <1>8, <1>9, <1>10 DEF Write

\* The writer's own steps: what it will find of its key in each node changes
\* only when it publishes or removes, a flush does not change it.
LEMMA WriterKept ==
    ASSUME IInv, NEW p \in Writers, Write(p) \/ Flush(p)
    PROVE  WriterInv(p)'
<1>0. /\ TypeOK /\ BufferInv(p) /\ WriterInv(p) /\ p \in Keys
      /\ p \in Writers \cup Rebuilders /\ seen[p] \in Nodes /\ cell.node \in Nodes
      /\ buffer[p] \in Buffers /\ <<>> \in Buffers
  BY DEF Keys, IInv, TypeOK, Buffers
<1>1. \A n \in Nodes :
        Final(p, n) = IF buffer[p] # <<>> /\ buffer[p][1].node = n THEN buffer[p][1].val
                                                                 ELSE ValueOf(slots[n][p])
  BY <1>0, ForwardedValue DEF Final, Sees
<1>2. ASSUME UNCHANGED <<slots, buffer>>
      PROVE  /\ \A n \in Nodes : Final(p, n)' = Final(p, n)
             /\ Current(p)' = Current(p)
             /\ \A r \in Rebuilders : /\ Freezing(r)' <=> Freezing(r)
                                      /\ Snap(r, p)' = Snap(r, p)
  <2>1. \A n \in Nodes : Final(p, n)' = Final(p, n)
    BY <1>2 DEF Final, Sees
  <2> QED BY <2>1, WriterView
<1>3. CASE Begin(p)
  <2>1. pc'[p] = "descend"
    BY <1>0, <1>3 DEF Begin, Goto, TypeOK
  <2> QED BY <2>1 DEF WriterInv
<1>4. CASE Descend(p)
  <2>1. /\ cell.tag = 0 /\ seen'[p] = cell.node /\ pc'[p] = op[p] /\ UNCHANGED op
        /\ op[p] \in {"insert", "remove"} /\ UNCHANGED <<slots, buffer>>
    BY <1>0, <1>4 DEF Descend, Goto, TypeOK
  <2>2. Agreed(p, Final(p, cell.node))
    BY <2>1, Unfrozen0
  <2>3. Final(p, seen[p])' = Final(p, cell.node)
    BY <2>1 DEF Final, Sees
  <2>4. Agreed(p, Final(p, seen[p]))'
    BY <1>2, <2>1, <2>2, <2>3 DEF Agreed
  <2> QED BY <2>1, <2>4 DEF WriterInv
<1>5. CASE Claim(p)
  <2>1. pc[p] = "insert" /\ pc'[p] = "publish" /\ UNCHANGED op
    BY <1>0, <1>5 DEF Claim, Goto, TypeOK
  <2> QED BY <1>0, <2>1 DEF WriterInv
<1>6. CASE Publish(p)
  <2>1. /\ buffer'[p] = <<[node |-> seen[p], val |-> calls[p]]>>
        /\ pc[p] = "publish" /\ pc'[p] \in {"count", "validate"}
        /\ UNCHANGED <<slots, calls, seen, op>>
    BY <1>0, <1>6, WriterMemory DEF Publish, Goto, TypeOK, writer
  <2>2. buffer'[p] # <<>> /\ buffer'[p][1].node = seen[p] /\ buffer'[p][1].val = calls[p]
    BY <2>1
  <2>3. buffer'[p] \in Buffers
    <3>1. [node |-> seen[p], val |-> calls[p]] \in Stores
      BY <1>0 DEF Stores, TypeOK
    <3> QED BY <2>1, <3>1 DEF Buffers
  <2>4. Final(p, seen[p])' = calls[p]
    <3>1. Final(p, seen[p])' = ValueOf(Forwarded(buffer'[p], seen[p], slots[seen[p]][p]))
      BY <2>1 DEF Final, Sees
    <3> QED BY <1>0, <2>2, <2>3, <3>1, ForwardedValue
  <2> QED BY <1>0, <2>1, <2>4 DEF WriterInv
<1>7. CASE Count(p)
  <2>1. /\ pc[p] = "count" /\ pc'[p] = "validate"
        /\ UNCHANGED <<slots, buffer, op, calls, seen>>
    BY <1>0, <1>7 DEF Count, Goto, TypeOK, writer
  <2>2. Final(p, seen[p])' = Final(p, seen[p])
    BY <1>0, <2>1 DEF Final, Sees
  <2> QED BY <1>0, <2>1, <2>2 DEF WriterInv
<1>8. CASE RemoveAbsent(p)
  <2>1. /\ pc[p] = "remove" /\ pc'[p] = "idle" /\ done'[p] = Absent
        /\ UNCHANGED <<slots, buffer>>
        /\ Sees(p, seen[p]).st \in {"EMPTY", "TOMBSTONE"}
    BY <1>0, <1>8 DEF RemoveAbsent, Return, Goto, TypeOK
  <2>2. Final(p, seen[p]) = Absent
    BY <2>1 DEF Final, ValueOf
  <2>3. Agreed(p, Absent)
    BY <1>0, <2>1, <2>2 DEF WriterInv
  <2>4. Agreed(p, done[p])'
    BY <1>2, <2>1, <2>3 DEF Agreed
  <2> QED BY <2>1, <2>4 DEF WriterInv
<1>9. CASE Remove(p)
  <2>1. /\ pc[p] = "remove" /\ pc'[p] = "validate" /\ buffer[p] = <<>>
        /\ UNCHANGED <<buffer, op, seen>>
    BY <1>0, <1>9 DEF Remove, Goto, TypeOK, Drained, writer
  <2>2. slots'[seen[p]][p] = Slot("TOMBSTONE", Absent)
    BY <1>0, <1>9, WriterMemory
  <2>3. Final(p, seen[p])' = ValueOf(slots'[seen[p]][p])
    <3>1. Final(p, seen[p])' = ValueOf(Forwarded(<<>>, seen[p], slots'[seen[p]][p]))
      BY <2>1 DEF Final, Sees
    <3> QED BY <1>0, <3>1, ForwardedValue
  <2>4. Final(p, seen[p])' = Absent
    BY <2>2, <2>3 DEF ValueOf, Slot
  <2>5. op[p] = "remove"
    BY <1>0, <2>1 DEF WriterInv
  <2> QED BY <2>1, <2>4, <2>5 DEF WriterInv
<1>10. CASE Validate(p)
  <2>0. pc[p] = "validate" /\ UNCHANGED <<slots, buffer>>
    BY <1>10 DEF Validate
  <2>1. CASE StillReachable(p)
    <3>1. cell.tag = 0 /\ cell.node = seen[p]
      BY <2>1 DEF StillReachable
    <3>2. Agreed(p, IF op[p] = "insert" THEN calls[p] ELSE Absent)
      BY <1>0, <2>0, <3>1, Unfrozen0 DEF WriterInv
    <3>3. pc'[p] = "idle" /\ done'[p] = IF op[p] = "insert" THEN calls[p] ELSE Absent
      BY <1>0, <1>10, <2>1 DEF Validate, Return, Goto, TypeOK
    <3>4. Agreed(p, done[p])'
      BY <1>2, <2>0, <3>2, <3>3 DEF Agreed
    <3> QED BY <3>3, <3>4 DEF WriterInv
  <2>2. CASE ~StillReachable(p)
    <3>1. pc'[p] = "descend"
      BY <1>0, <1>10, <2>2 DEF Validate, Goto, TypeOK
    <3> QED BY <3>1 DEF WriterInv
  <2> QED BY <2>1, <2>2
<1>11. CASE Flush(p)
  <2>1. PICK e \in Stores :
          /\ buffer[p] = <<e>> /\ buffer'[p] = <<>>
          /\ \A n \in Nodes, k \in Keys :
               slots'[n][k] = IF n = e.node /\ k = p THEN Slot("DATA", e.val) ELSE slots[n][k]
    BY <1>11, WriterMemory
  <2>2. buffer[p] # <<>> /\ buffer[p][1] = e
    BY <2>1
  <2>3. ASSUME NEW n \in Nodes PROVE Final(p, n)' = Final(p, n)
    <3>1. Final(p, n)' = ValueOf(slots'[n][p])
      <4>1. Final(p, n)' = ValueOf(Forwarded(<<>>, n, slots'[n][p]))
        BY <2>1 DEF Final, Sees
      <4> QED BY <1>0, <4>1, ForwardedValue
    <3>2. CASE n = e.node
      <4>1. slots'[n][p] = Slot("DATA", e.val)
        BY <1>0, <2>1, <3>2
      <4> QED BY <1>1, <2>2, <3>1, <3>2, <4>1 DEF ValueOf, Slot
    <3>3. CASE n # e.node
      <4>1. slots'[n][p] = slots[n][p]
        BY <1>0, <2>1, <3>3
      <4> QED BY <1>1, <2>2, <3>1, <3>3, <4>1
    <3> QED BY <3>2, <3>3
  <2>4. /\ Current(p)' = Current(p)
        /\ \A r \in Rebuilders : (Freezing(r)' <=> Freezing(r)) /\ Snap(r, p)' = Snap(r, p)
    BY <2>3, WriterView
  <2>5. UNCHANGED <<pc, op, calls, seen, done>>
    BY <1>11 DEF Flush, writer
  <2>6. Final(p, seen[p])' = Final(p, seen[p])
    BY <1>0, <2>3, <2>5 DEF Final, Sees
  <2> QED BY <1>0, <2>4, <2>5, <2>6 DEF WriterInv, Agreed
<1> QED BY <1>3, <1>4, <1>5, <1>6, <1>7, <1>8, <1>9, <1>10, <1>11 DEF Write
-----------------------------------------------------------------------------
(***************************************************************************)
(* The steps of a rebuild.                                                 *)
(***************************************************************************)
\* A rebuild freezes a pointer that is not frozen, and nobody else thaws it.
LEMMA RebuildOwner ==
    ASSUME IInv, NEW r \in Rebuilders, RbLoad(r) \/ Rebuild(r) \/ Panic(r)
    PROVE  OwnerInv'
<1>0. TypeOK /\ OwnerInv /\ r \in Writers \cup Rebuilders
  BY DEF IInv
<1>1. \A s \in Rebuilders \ {r} :
        pc'[s] = pc[s] /\ victim'[s] = victim[s] /\ todo'[s] = todo[s]
  BY <1>0, RebuildFrame
<1>2. \A s \in Rebuilders \ {r} : Freezing(s)' <=> Freezing(s)
  BY <1>1 DEF Freezing
<1>3. ASSUME Freezing(r)
      PROVE  /\ cell = [node |-> victim[r], tag |-> 1]
             /\ \A s \in Rebuilders \ {r} : ~Freezing(s)
  BY <1>0, <1>3 DEF OwnerInv
<1>4. CASE RbLoad(r)
  <2>1. pc[r] = "idle" /\ pc'[r] = "freeze" /\ UNCHANGED <<cell, todo>>
    BY <1>0, <1>4 DEF RbLoad, Goto, TypeOK
  <2>2. ~Freezing(r) /\ ~Freezing(r)'
    BY <2>1 DEF Freezing
  <2> QED BY <1>0, <1>1, <1>2, <2>1, <2>2 DEF OwnerInv
<1>5. CASE RbFreeze(r)
  <2>1. CASE cell = [node |-> victim[r], tag |-> 0]
    <3>1. /\ cell' = [node |-> victim'[r], tag |-> 1] /\ pc'[r] = "scan"
          /\ \A s \in Rebuilders : ~Freezing(s)
      <4>1. cell' = [cell EXCEPT !.tag = 1] /\ UNCHANGED victim
        BY <1>5, <2>1 DEF RbFreeze
      <4>2. pc'[r] = "scan"
        BY <1>0, <1>5, <2>1 DEF RbFreeze, Goto, TypeOK
      <4>3. cell.tag = 0
        BY <2>1
      <4>4. \A s \in Rebuilders : ~Freezing(s)
        BY <1>0, <4>3 DEF OwnerInv
      <4> QED BY <2>1, <4>1, <4>2, <4>4
    <3>2. Freezing(r)' /\ \A s \in Rebuilders \ {r} : ~Freezing(s)'
      BY <1>2, <3>1 DEF Freezing
    <3> QED BY <1>0, <1>1, <3>1, <3>2 DEF OwnerInv
  <2>2. CASE cell # [node |-> victim[r], tag |-> 0]
    <3>1. pc[r] = "freeze" /\ pc'[r] = "idle" /\ UNCHANGED cell
      BY <1>0, <1>5, <2>2 DEF RbFreeze, RbReturn, Goto, TypeOK
    <3>2. ~Freezing(r) /\ ~Freezing(r)'
      BY <3>1 DEF Freezing
    <3> QED BY <1>0, <1>1, <1>2, <3>1, <3>2 DEF OwnerInv
  <2> QED BY <2>1, <2>2
<1>6. CASE RbScan(r)
  <2>1. /\ pc[r] = "scan" /\ UNCHANGED <<cell, victim>>
        /\ todo'[r] = todo[r] \ {NextSlot(todo[r])}
        /\ pc'[r] = IF todo[r] = {NextSlot(todo[r])} THEN "swap" ELSE "scan"
    BY <1>0, <1>6 DEF RbScan, Goto, TypeOK
  <2>2. Freezing(r) /\ Freezing(r)'
    BY <2>1 DEF Freezing
  <2>3. pc'[r] = "swap" => todo'[r] = {}
    BY <2>1
  <2>4. \A s \in Rebuilders \ {r} : ~Freezing(s)'
    BY <1>2, <1>3, <2>2
  <2>5. \A s \in Rebuilders : pc'[s] = "swap" => todo'[s] = {}
    BY <1>0, <1>1, <2>3 DEF OwnerInv
  <2>6. cell' = [node |-> victim'[r], tag |-> 1]
    BY <1>3, <2>1, <2>2
  <2> QED BY <2>2, <2>4, <2>5, <2>6 DEF OwnerInv
<1>7. ASSUME Freezing(r), pc'[r] = "idle", cell'.tag = 0 PROVE OwnerInv'
  <2>1. \A s \in Rebuilders : ~Freezing(s)'
    BY <1>2, <1>3, <1>7 DEF Freezing
  <2>2. \A s \in Rebuilders : pc'[s] = "swap" => todo'[s] = {}
    BY <1>0, <1>1, <1>7 DEF OwnerInv
  <2> QED BY <1>7, <2>1, <2>2 DEF OwnerInv
<1>8. CASE Panic(r)
  <2>1. pc[r] = "scan" /\ pc'[r] = "idle" /\ cell' = [node |-> victim[r], tag |-> 0]
    BY <1>0, <1>8 DEF Panic, RbReturn, Goto, TypeOK, Unfrozen
  <2> QED BY <1>7, <2>1 DEF Freezing
<1>9. CASE TooSmall(r)
  <2>1. pc[r] = "swap" /\ pc'[r] = "idle" /\ cell' = [node |-> victim[r], tag |-> 0]
    BY <1>0, <1>9 DEF TooSmall, RbReturn, Goto, TypeOK, Unfrozen
  <2> QED BY <1>7, <2>1 DEF Freezing
<1>10. CASE Swap(r)
  <2>1. pc[r] = "swap" /\ pc'[r] = "idle" /\ cell' = [node |-> built', tag |-> 0]
    BY <1>0, <1>10 DEF Swap, RbReturn, Goto, TypeOK
  <2> QED BY <1>7, <2>1 DEF Freezing
<1> QED BY <1>4, <1>5, <1>6, <1>8, <1>9, <1>10 DEF Rebuild

\* The rebuilds that are over are counted once each.
LEMMA RebuildCount ==
    ASSUME IInv, NEW r \in Rebuilders, RbLoad(r) \/ Rebuild(r) \/ Panic(r)
    PROVE  CountInv'
<1>0. TypeOK /\ CountInv /\ r \in Writers \cup Rebuilders
  BY DEF IInv
<1> DEFINE All == Rebuilders \X (1..MaxRebuilds)
<1>1. PICK D \in SUBSET All :
        /\ Cardinality(D) = built
        /\ \A d \in D : d[2] <= begun[d[1]]
        /\ \A s \in Rebuilders : pc[s] # "idle" => begun[s] >= 1 /\ <<s, begun[s]>> \notin D
  BY <1>0 DEF CountInv
<1>2. \A s \in Rebuilders \ {r} : pc'[s] = pc[s] /\ begun'[s] = begun[s]
  BY <1>0, RebuildFrame
<1>3. begun \in [Rebuilders -> Nat]
  BY <1>0, FreezeAssumption DEF TypeOK
<1>4. CASE RbLoad(r)
  <2>1. built' = built /\ begun'[r] = begun[r] + 1
    BY <1>0, <1>4 DEF RbLoad, TypeOK
  <2>2. \A d \in D : d[2] <= begun'[d[1]]
    <3> SUFFICES ASSUME NEW d \in D PROVE d[2] <= begun'[d[1]]
      OBVIOUS
    <3>1. d[1] \in Rebuilders /\ d[2] \in Nat
      BY DEF All
    <3> QED BY <1>1, <1>2, <1>3, <2>1, <3>1
  <2>3. <<r, begun'[r]>> \notin D
    <3>1. ASSUME NEW d \in D, d = <<r, begun[r] + 1>> PROVE FALSE
      <4>1. d[1] = r /\ d[2] = begun[r] + 1
        BY <3>1
      <4>2. d[2] <= begun[r]
        BY <1>1, <4>1
      <4> QED BY <1>3, <4>1, <4>2
    <3> QED BY <2>1, <3>1
  <2>4. begun'[r] >= 1
    BY <1>3, <2>1
  <2>5. \A s \in Rebuilders : pc'[s] # "idle" => begun'[s] >= 1 /\ <<s, begun'[s]>> \notin D
    BY <1>1, <1>2, <2>3, <2>4
  <2> QED BY <1>1, <2>1, <2>2, <2>5 DEF CountInv
<1>5. ASSUME pc[r] # "idle", UNCHANGED <<begun, built>> PROVE CountInv'
  <2>1. \A s \in Rebuilders : pc'[s] # "idle" => begun'[s] >= 1 /\ <<s, begun'[s]>> \notin D
    BY <1>1, <1>2, <1>5
  <2> QED BY <1>1, <1>5, <2>1 DEF CountInv
<1>6. CASE RbFreeze(r) \/ RbScan(r) \/ Panic(r) \/ TooSmall(r)
  BY <1>5, <1>6 DEF RbFreeze, RbScan, Panic, TooSmall
<1>7. CASE Swap(r)
  <2> DEFINE E == D \cup {<<r, begun[r]>>}
  <2>1. pc[r] # "idle" /\ pc'[r] = "idle" /\ begun' = begun /\ built' = built + 1
    BY <1>0, <1>7 DEF Swap, RbReturn, Goto, TypeOK
  <2>2. begun[r] \in 1..MaxRebuilds /\ <<r, begun[r]>> \notin D
    BY <1>0, <1>1, <2>1, FreezeAssumption DEF TypeOK
  <2>3. E \in SUBSET All
    BY <2>2
  <2>4. Cardinality(E) = built'
    <3>1. IsFiniteSet(All)
      <4>1. IsFiniteSet(1..MaxRebuilds)
        BY FreezeAssumption, FS_Interval
      <4> QED BY <4>1, FreezeAssumption, FS_Product
    <3>2. IsFiniteSet(D)
      BY <3>1, FS_Subset
    <3>3. Cardinality(D \cup {<<r, begun[r]>>}) = Cardinality(D) + 1
      BY <2>2, <3>2, FS_AddElement
    <3> QED BY <1>1, <2>1, <3>3
  <2>5. \A d \in E : d[2] <= begun'[d[1]]
    BY <1>1, <1>3, <2>1
  <2>6. \A s \in Rebuilders : pc'[s] # "idle" => begun'[s] >= 1 /\ <<s, begun'[s]>> \notin E
    BY <1>1, <1>2, <2>1
  <2> QED BY <2>3, <2>4, <2>5, <2>6 DEF CountInv
<1> QED BY <1>4, <1>6, <1>7 DEF Rebuild

\* What a swap puts into the new node: the snapshot, and nothing half-written.
LEMMA SwapMemory ==
    ASSUME IInv, NEW r \in Rebuilders, Swap(r)
    PROVE  /\ built' = built + 1 /\ built' \in Nodes
           /\ \A n \in Nodes, k \in Keys : n # built' => slots'[n][k] = slots[n][k]
           /\ \A k \in Keys :
                /\ slots'[built'][k].st \in {"DATA", "EMPTY"}
                /\ slots'[built'][k].st = "DATA" => slots'[built'][k].val # Absent
                /\ ValueOf(slots'[built'][k]) = pairs[r][k]
<1>0. TypeOK /\ CountInv /\ slots \in Memory
  BY DEF IInv, TypeOK
<1> DEFINE f == [k \in Keys |-> IF k \in Snapshot(r) THEN Slot("DATA", pairs[r][k])
                               ELSE Slot("EMPTY", Absent)]
<1>1. built' = built + 1 /\ slots' = [slots EXCEPT ![built'] = f] /\ pc[r] # "idle"
  BY DEF Swap
<1>2. built' \in Nodes
  BY <1>0, <1>1, NodeLeft
<1>3. slots'[built'] = f /\ \A n \in Nodes : n # built' => slots'[n] = slots[n]
  <2> HIDE DEF f
  <2> QED BY <1>0, <1>1, <1>2 DEF Memory
<1>4. ASSUME NEW k \in Keys
      PROVE  /\ f[k].st \in {"DATA", "EMPTY"}
             /\ f[k].st = "DATA" => f[k].val # Absent
             /\ ValueOf(f[k]) = pairs[r][k]
  <2>1. CASE k \in Snapshot(r)
    BY <2>1 DEF Snapshot, Slot, ValueOf
  <2>2. CASE k \notin Snapshot(r)
    <3>1. pairs[r][k] = Absent
      BY <2>2 DEF Snapshot
    <3> QED BY <2>2, <3>1 DEF Slot, ValueOf
  <2> QED BY <2>1, <2>2
<1> QED BY <1>1, <1>2, <1>3, <1>4

LEMMA RebuildNodes ==
    ASSUME IInv, NEW r \in Rebuilders, RbLoad(r) \/ Rebuild(r) \/ Panic(r)
    PROVE  NodeInv'
<1>0. TypeOK /\ NodeInv /\ OwnerInv /\ built \in Nat /\ seen \in [Writers -> Nodes]
  BY NodesFacts DEF IInv, TypeOK
<1>1. UNCHANGED <<buffer, seen>>
  BY <1>0, RebuildFrame DEF writer
<1>2. CASE RbLoad(r) \/ RbScan(r)
  BY <1>0, <1>1, <1>2 DEF NodeInv, RbLoad, RbScan
<1>3. CASE RbFreeze(r)
  <2>1. cell'.node = cell.node
    BY <1>0, <1>3 DEF RbFreeze, TypeOK
  <2> QED BY <1>0, <1>1, <1>3, <2>1 DEF NodeInv, RbFreeze
<1>4. CASE Panic(r) \/ TooSmall(r)
  <2>1. cell' = [node |-> victim[r], tag |-> 0] /\ UNCHANGED <<slots, built>> /\ Freezing(r)
    BY <1>4 DEF Panic, TooSmall, Unfrozen, Freezing
  <2>2. cell'.node = cell.node
    BY <1>0, <2>1 DEF OwnerInv
  <2> QED BY <1>0, <1>1, <2>1, <2>2 DEF NodeInv
<1>5. CASE Swap(r)
  <2>1. cell'.node = built'
    BY <1>5 DEF Swap
  <2>2. \A p \in Writers : seen[p] <= built /\ seen[p] \in Nat
    BY <1>0, NodesFacts DEF NodeInv
  <2>3. \A n \in Nodes, k \in Keys : slots'[n][k].st = "DATA" => slots'[n][k].val # Absent
    BY <1>0, <1>5, SwapMemory DEF NodeInv
  <2>4. ASSUME NEW p \in Writers, buffer[p] # <<>>
        PROVE  buffer[p][1].node <= built' /\ buffer[p][1].val # Absent
    <3>1. PICK e \in Stores : buffer[p] = <<e>>
      BY <1>0, <2>4 DEF TypeOK, Buffers
    <3>2. buffer[p][1] = e /\ e.node \in Nat
      <4>1. buffer[p][1] = e
        BY <3>1
      <4>2. e.node \in Nodes
        BY DEF Stores
      <4> QED BY <4>1, <4>2, NodesFacts
    <3>3. e.node <= built /\ e.val # Absent
      BY <1>0, <2>4, <3>2 DEF NodeInv
    <3> QED BY <1>0, <1>5, <3>2, <3>3, SwapMemory
  <2> QED BY <1>0, <1>1, <1>5, <2>1, <2>2, <2>3, <2>4, SwapMemory DEF NodeInv
<1> QED BY <1>2, <1>3, <1>4, <1>5 DEF Rebuild

\* A writer's slots are not touched by a rebuild, those of the new node are not
\* in anybody's hands.
LEMMA RebuildBuffer ==
    ASSUME IInv, NEW r \in Rebuilders, RbLoad(r) \/ Rebuild(r) \/ Panic(r),
           NEW p \in Writers
    PROVE  BufferInv(p)'
<1>0. /\ TypeOK /\ BufferInv(p) /\ NodeInv /\ p \in Keys /\ p # r /\ built \in Nat
      /\ seen[p] \in Nat /\ buffer[p] \in Buffers
  BY FreezeAssumption, NodesFacts DEF IInv, TypeOK, Keys
<1>1. UNCHANGED <<buffer, calls, seen>> /\ pc'[p] = pc[p]
  BY <1>0, RebuildFrame DEF writer
<1>2. CASE UNCHANGED slots
  BY <1>0, <1>1, <1>2 DEF BufferInv
<1>3. CASE Swap(r)
  <2>1. seen[p] # built'
    <3>1. seen[p] <= built
      BY <1>0 DEF NodeInv
    <3> QED BY <1>0, <1>3, <3>1, SwapMemory
  <2>2. ~(buffer[p] # <<>> /\ buffer[p][1].node = built')
    <3>1. buffer[p] # <<>> => buffer[p][1].node <= built
      BY <1>0 DEF NodeInv
    <3> QED BY <1>0, <1>3, <3>1, SwapMemory
  <2>3. slots'[built'][p].st # "WRITING"
    BY <1>0, <1>3, SwapMemory
  <2>4. \A n \in Nodes : n # built' => slots'[n][p] = slots[n][p]
    BY <1>0, <1>3, SwapMemory
  <2> QED BY <1>0, <1>1, <2>1, <2>2, <2>3, <2>4 DEF BufferInv
<1> QED BY <1>2, <1>3 DEF RbLoad, Rebuild, RbFreeze, RbScan, Panic, TooSmall

\* The heart of the handshake.  Whatever value the reachable node and the
\* snapshots agree on stays agreed: the rebuild scans no slot that is WRITING,
\* and the node it puts in place holds the snapshot.
LEMMA RebuildAgrees ==
    ASSUME IInv, NEW r \in Rebuilders, RbLoad(r) \/ Rebuild(r) \/ Panic(r),
           NEW p \in Writers, NEW v, Agreed(p, v)
    PROVE  Current(p)' = v /\ \A s \in Rebuilders : Freezing(s)' => Snap(s, p)' = v
<1>0. /\ TypeOK /\ OwnerInv /\ NodeInv /\ BufferInv(p) /\ p \in Keys
      /\ buffer[p] \in Buffers /\ r \in Writers \cup Rebuilders /\ built \in Nat
      /\ cell.node \in Nodes /\ victim[r] \in Nodes
  BY NodesFacts DEF IInv, TypeOK, Keys
<1>1. /\ UNCHANGED buffer
      /\ \A s \in Rebuilders \ {r} :
           /\ pc'[s] = pc[s] /\ victim'[s] = victim[s] /\ todo'[s] = todo[s]
           /\ pairs'[s] = pairs[s]
  BY <1>0, RebuildFrame
<1>2. ASSUME Freezing(r)
      PROVE  /\ cell = [node |-> victim[r], tag |-> 1] /\ Snap(r, p) = v
             /\ \A s \in Rebuilders \ {r} : ~Freezing(s)'
  <2>1. \A s \in Rebuilders \ {r} : ~Freezing(s)
    BY <1>0, <1>2 DEF OwnerInv
  <2> QED BY <1>0, <1>1, <1>2, <2>1 DEF OwnerInv, Agreed, Freezing
<1>3. CASE RbLoad(r)
  <2>1. pc'[r] = "freeze" /\ UNCHANGED <<cell, slots>>
    BY <1>0, <1>3 DEF RbLoad, Goto, TypeOK
  <2>2. Current(p)' = Current(p)
    BY <1>1, <2>1 DEF Current, Final, Sees
  <2>3. ~Freezing(r)'
    BY <2>1 DEF Freezing
  <2>4. \A s \in Rebuilders \ {r} : Snap(s, p)' = Snap(s, p) /\ (Freezing(s)' <=> Freezing(s))
    BY <1>1, <2>1 DEF Snap, Final, Sees, Freezing
  <2> QED BY <2>2, <2>3, <2>4 DEF Agreed
<1>4. CASE RbFreeze(r)
  <2>1. CASE cell = [node |-> victim[r], tag |-> 0]
    <3>1. /\ cell' = [cell EXCEPT !.tag = 1] /\ todo'[r] = Keys
          /\ UNCHANGED <<slots, victim>>
      BY <1>0, <1>4, <2>1 DEF RbFreeze, TypeOK
    <3>2. cell'.node = cell.node /\ cell.node = victim[r] /\ cell.tag = 0
      BY <1>0, <2>1, <3>1 DEF TypeOK
    <3>3. Current(p)' = Current(p) /\ Snap(r, p)' = Current(p)
      BY <1>0, <1>1, <3>1, <3>2 DEF Current, Snap, Final, Sees
    <3>4. \A s \in Rebuilders \ {r} : ~Freezing(s)'
      BY <1>0, <1>1, <3>2 DEF OwnerInv, Freezing
    <3> QED BY <3>3, <3>4 DEF Agreed
  <2>2. CASE cell # [node |-> victim[r], tag |-> 0]
    <3>1. pc'[r] = "idle" /\ UNCHANGED <<cell, slots>>
      BY <1>0, <1>4, <2>2 DEF RbFreeze, RbReturn, Goto, TypeOK
    <3>2. Current(p)' = Current(p)
      BY <1>1, <3>1 DEF Current, Final, Sees
    <3>3. ~Freezing(r)'
      BY <3>1 DEF Freezing
    <3>4. \A s \in Rebuilders \ {r} : Snap(s, p)' = Snap(s, p) /\ (Freezing(s)' <=> Freezing(s))
      BY <1>1, <3>1 DEF Snap, Final, Sees, Freezing
    <3> QED BY <3>2, <3>3, <3>4 DEF Agreed
  <2> QED BY <2>1, <2>2
<1>5. CASE RbScan(r)
  <2> DEFINE k == NextSlot(todo[r])
             s0 == slots[victim[r]][k]
  <2>1. /\ pc[r] = "scan" /\ Readable(s0) /\ UNCHANGED <<cell, slots, victim>>
        /\ todo' = [todo EXCEPT ![r] = @ \ {k}]
        /\ pairs' = [pairs EXCEPT ![r][k] = ValueOf(s0)]
    BY <1>5 DEF RbScan, ValueOf
  <2> HIDE DEF k
  <2>2. Freezing(r)
    BY <2>1 DEF Freezing
  <2>3. Current(p)' = Current(p) /\ \A n \in Nodes : Final(p, n)' = Final(p, n)
    BY <1>1, <2>1 DEF Current, Final, Sees
  <2>4. Final(p, victim[r]) = v
    BY <1>2, <2>2 DEF Agreed, Current
  <2>5. todo'[r] = todo[r] \ {k} /\ pairs'[r] = [pairs[r] EXCEPT ![k] = ValueOf(s0)]
    BY <1>0, <2>1 DEF TypeOK
  <2>6. Snap(r, p)' = v
    <3>1. CASE p = k
      <4>1. slots[victim[r]][p].st # "WRITING"
        BY <2>1, <3>1 DEF Readable
      <4>2. ~(buffer[p] # <<>> /\ buffer[p][1].node = victim[r])
        BY <1>0, <4>1 DEF BufferInv
      <4>3. Final(p, victim[r]) = ValueOf(s0)
        BY <1>0, <3>1, <4>2, ForwardedValue DEF Final, Sees
      <4>4. pairs'[r][p] = ValueOf(s0)
        BY <1>0, <2>5, <3>1 DEF TypeOK
      <4>5. p \notin todo'[r]
        BY <2>5, <3>1
      <4> QED BY <2>4, <4>3, <4>4, <4>5 DEF Snap
    <3>2. CASE p # k
      <4>1. pairs'[r][p] = pairs[r][p]
        BY <1>0, <2>5, <3>2 DEF TypeOK
      <4>2. p \in todo'[r] <=> p \in todo[r]
        BY <2>5, <3>2
      <4>3. Final(p, victim[r])' = Final(p, victim[r])
        BY <1>1, <2>1 DEF Final, Sees
      <4>4. Snap(r, p) = v
        BY <1>2, <2>2
      <4> QED BY <4>1, <4>2, <4>3, <4>4 DEF Snap
    <3> QED BY <3>1, <3>2
  <2> QED BY <1>2, <2>2, <2>3, <2>6 DEF Agreed
<1>6. CASE Panic(r) \/ TooSmall(r)
  <2>1. /\ cell' = [node |-> victim[r], tag |-> 0] /\ UNCHANGED slots /\ Freezing(r)
        /\ pc'[r] = "idle"
    BY <1>0, <1>6 DEF Panic, TooSmall, Unfrozen, Freezing, RbReturn, Goto, TypeOK
  <2>2. cell'.node = cell.node
    BY <1>2, <2>1
  <2>3. Current(p)' = Current(p)
    BY <1>1, <2>1, <2>2 DEF Current, Final, Sees
  <2>4. ~Freezing(r)'
    BY <2>1 DEF Freezing
  <2> QED BY <1>2, <2>1, <2>3, <2>4 DEF Agreed
<1>7. CASE Swap(r)
  <2>1. /\ cell' = [node |-> built', tag |-> 0] /\ pc[r] = "swap" /\ pc'[r] = "idle"
    BY <1>0, <1>7 DEF Swap, RbReturn, Goto, TypeOK
  <2>2. Freezing(r) /\ ~Freezing(r)' /\ todo[r] = {}
    BY <1>0, <2>1 DEF Freezing, OwnerInv
  <2>3. pairs[r][p] = v
    BY <1>2, <2>2 DEF Snap
  <2>4. ~(buffer[p] # <<>> /\ buffer[p][1].node = built')
    <3>1. buffer[p] # <<>> => buffer[p][1].node <= built
      BY <1>0 DEF NodeInv
    <3> QED BY <1>0, <1>7, <3>1, SwapMemory
  <2>5. Current(p)' = ValueOf(Forwarded(buffer[p], built', slots'[built'][p]))
    BY <1>1, <2>1 DEF Current, Final, Sees
  <2>6. built' \in Nodes
    BY <1>7, SwapMemory
  <2>7. Current(p)' = ValueOf(slots'[built'][p])
    BY <1>0, <2>4, <2>5, <2>6, ForwardedValue
  <2>8. Current(p)' = pairs[r][p]
    BY <1>0, <1>7, <2>7, SwapMemory
  <2> QED BY <1>2, <2>2, <2>3, <2>8
<1> QED BY <1>3, <1>4, <1>5, <1>6, <1>7 DEF Rebuild

LEMMA RebuildKept ==
    ASSUME IInv, NEW r \in Rebuilders, RbLoad(r) \/ Rebuild(r) \/ Panic(r),
           NEW p \in Writers
    PROVE  WriterInv(p)'
<1>0. /\ TypeOK /\ NodeInv /\ WriterInv(p) /\ p \in Keys /\ p # r /\ seen[p] \in Nodes
      /\ seen[p] \in Nat /\ built \in Nat
  BY FreezeAssumption, NodesFacts DEF IInv, TypeOK, Keys
<1>1. UNCHANGED <<buffer, op, calls, seen, done>> /\ pc'[p] = pc[p]
  BY <1>0, RebuildFrame DEF writer
<1>2. slots'[seen[p]][p] = slots[seen[p]][p]
  <2>1. CASE UNCHANGED slots
    BY <2>1
  <2>2. CASE Swap(r)
    <3>1. seen[p] # built'
      <4>1. seen[p] <= built
        BY <1>0 DEF NodeInv
      <4> QED BY <1>0, <2>2, <4>1, SwapMemory
    <3> QED BY <1>0, <2>2, <3>1, SwapMemory
  <2> QED BY <2>1, <2>2 DEF RbLoad, Rebuild, RbFreeze, RbScan, Panic, TooSmall
<1>3. Final(p, seen[p])' = Final(p, seen[p])
  BY <1>1, <1>2 DEF Final, Sees
<1>4. \A v : Agreed(p, v) =>
        Current(p)' = v /\ \A s \in Rebuilders : Freezing(s)' => Snap(s, p)' = v
  BY RebuildAgrees
<1>5. Agreed(p, done[p]) => Agreed(p, done[p])'
  <2>1. Agreed(p, done[p]) =>
          /\ Current(p)' = done[p]
          /\ \A s \in Rebuilders : Freezing(s)' => Snap(s, p)' = done[p]
    BY <1>4
  <2> QED BY <1>1, <2>1 DEF Agreed
<1>6. Agreed(p, Final(p, seen[p])) => Agreed(p, Final(p, seen[p]))'
  <2>1. Agreed(p, Final(p, seen[p])) =>
          /\ Current(p)' = Final(p, seen[p])
          /\ \A s \in Rebuilders : Freezing(s)' => Snap(s, p)' = Final(p, seen[p])
    BY <1>4
  <2> QED BY <1>3, <2>1 DEF Agreed
<1> QED BY <1>0, <1>1, <1>3, <1>5, <1>6 DEF WriterInv
-----------------------------------------------------------------------------
(***************************************************************************)
(* The invariant and the theorems.                                         *)
(***************************************************************************)
LEMMA InitInv == Init => IInv
<1> SUFFICES ASSUME Init PROVE IInv
  OBVIOUS
<1>1. TypeOK
  BY InitTypes
<1>2. \A q \in Writers \cup Rebuilders : pc[q] = "idle"
  BY DEF Init
<1>3. \A r \in Rebuilders : ~Freezing(r)
  BY <1>2 DEF Freezing
<1>4. OwnerInv
  BY <1>2, <1>3 DEF Init, OwnerInv
<1>5. \A n \in Nodes, k \in Keys :
        /\ slots[n][k].st \in {"DATA", "EMPTY"}
        /\ slots[n][k].st = "DATA" => k \in Others /\ slots[n][k].val = 1
  BY DEF Init, Slot
<1>6. NodeInv
  BY <1>5 DEF Init, NodeInv, Absent
<1>7. CountInv
  <2>1. Cardinality({}) = 0
    BY FS_EmptySet
  <2>2. {} \in SUBSET (Rebuilders \X (1..MaxRebuilds)) /\ built = 0
    BY DEF Init
  <2> QED BY <1>2, <2>1, <2>2 DEF CountInv
<1>8. ASSUME NEW p \in Writers PROVE BufferInv(p) /\ WriterInv(p)
  <2>1. /\ buffer[p] = <<>> /\ pc[p] = "idle" /\ done[p] = Absent /\ cell.node = 0
        /\ p \in Keys /\ p \notin Others
    BY FreezeAssumption DEF Init, Keys
  <2>2. BufferInv(p)
    BY <1>5, <2>1 DEF BufferInv
  <2>3. Current(p) = ValueOf(slots[0][p])
    <3>1. <<>> \in Buffers
      BY DEF Buffers
    <3> QED BY <2>1, <3>1, ForwardedValue, NodesFacts DEF Current, Final, Sees
  <2>4. Current(p) = Absent
    BY <1>5, <2>1, <2>3, NodesFacts DEF ValueOf
  <2> QED BY <1>3, <2>1, <2>2, <2>4 DEF WriterInv, Agreed
<1> QED BY <1>1, <1>4, <1>6, <1>7, <1>8 DEF IInv

LEMMA StutterInv == IInv /\ UNCHANGED vars => IInv'
<1> SUFFICES ASSUME IInv, UNCHANGED vars PROVE IInv'
  OBVIOUS
<1> USE DEF IInv, vars, writer, rebuilder
<1>1. TypeOK'
  BY DEF TypeOK
<1>2. OwnerInv' /\ NodeInv' /\ CountInv'
  BY DEF OwnerInv, NodeInv, CountInv, Freezing
<1>3. ASSUME NEW p \in Writers PROVE BufferInv(p)' /\ WriterInv(p)'
  BY <1>3 DEF BufferInv, WriterInv, Agreed, Current, Snap, Freezing, Final, Sees
<1> QED BY <1>1, <1>2, <1>3

LEMMA NextInv == IInv /\ [Next]_vars => IInv'
<1> SUFFICES ASSUME IInv, [Next]_vars PROVE IInv'
  OBVIOUS
<1>1. CASE UNCHANGED vars
  BY <1>1, StutterInv
<1>2. ASSUME NEW p \in Writers, Write(p) \/ Flush(p) PROVE IInv'
  <2>1. TypeOK'
    BY <1>2, WriterTypes DEF IInv
  <2>2. OwnerInv' /\ CountInv' /\ NodeInv'
    BY <1>2, WriterOwner, WriterNodes
  <2>3. ASSUME NEW q \in Writers PROVE BufferInv(q)' /\ WriterInv(q)'
    <3>1. CASE q = p
      BY <1>2, <3>1, WriterBuffer, WriterKept
    <3>2. CASE q # p
      BY <1>2, <3>2, WriterOthers
    <3> QED BY <3>1, <3>2
  <2> QED BY <2>1, <2>2, <2>3 DEF IInv
<1>3. ASSUME NEW r \in Rebuilders, RbLoad(r) \/ Rebuild(r) \/ Panic(r) PROVE IInv'
  <2>1. TypeOK'
    BY <1>3, RebuildTypes DEF IInv
  <2>2. OwnerInv' /\ CountInv' /\ NodeInv'
    BY <1>3, RebuildOwner, RebuildCount, RebuildNodes
  <2>3. \A p \in Writers : BufferInv(p)' /\ WriterInv(p)'
    BY <1>3, RebuildBuffer, RebuildKept
  <2> QED BY <2>1, <2>2, <2>3 DEF IInv
<1> QED BY <1>1, <1>2, <1>3 DEF Next

\* The inductive invariant: what the threads' store buffers hold, who owns the
\* frozen pointer, and what a rebuild has copied, at each step of
\* try_rebuild_subtree and of a write with its validation.
THEOREM Invariance == Spec => []IInv
BY InitInv, NextInv, PTL DEF Spec

\* The values of all variables have the types the code gives them, and a
\* thread's store buffer never holds a second store to a slot: every claim is a
\* locked instruction, which waits for the buffer to drain.
THEOREM TypeCorrect == Spec => []TypeOK
BY Invariance, PTL DEF IInv

\* What a finished insert or remove did is in the subtree the pointer leads to,
\* for any number of writers and rebuilds, with store buffers and panics.
THEOREM FinishedWritesKept == Spec => []FinishedKept
<1>1. IInv => FinishedKept
  BY DEF IInv, WriterInv, Agreed, FinishedKept
<1> QED BY <1>1, Invariance, PTL

\* FreezeGuard: the tag is there exactly while one rebuild holds the pointer,
\* which finds the node it froze, and a panic does not leave it behind.
THEOREM FreezeOwned == Spec => []OwnerInv
BY Invariance, PTL DEF IInv
=============================================================================
