------------------------------- MODULE Freeze -------------------------------
(***************************************************************************)
(* The handshake between writers and rebuilds over one child pointer       *)
(* (rebuild.rs, insert.rs, remove.rs, node.rs), on a machine with store    *)
(* buffers and with rebuilds that may panic.                               *)
(*                                                                         *)
(* A writer changes a slot and then loads the pointer again; a rebuild tags*)
(* the pointer and then reads the slots.  Nothing is SeqCst: a Release     *)
(* store may stay in its thread's buffer while the thread's later loads run*)
(* (x86-TSO); a compare_exchange or fetch_add waits for the buffer to be   *)
(* empty.  LearnedTree has the handshake inside whole operations, with     *)
(* sequentially consistent memory; this module has one slot per key and    *)
(* leaves the shape of the subtree out: a slot stands for the deepest slot *)
(* of its key.  A key is written by one thread, which is its name.         *)
(***************************************************************************)
EXTENDS Integers, Sequences, FiniteSets

CONSTANTS
    Writers,      \* threads that insert and remove, each its own key
    Others,       \* keys that are there from the beginning and stay
    Rebuilders,   \* threads that call try_rebuild_subtree
    MaxCalls,     \* bound: calls of a writer
    MaxRebuilds   \* bound: rebuilds a rebuilder begins

ASSUME FreezeAssumption ==
    /\ Writers \cap Others = {} /\ Writers \cap Rebuilders = {}
    /\ IsFiniteSet(Writers \cup Others) /\ IsFiniteSet(Rebuilders)
    /\ MaxCalls \in Nat /\ MaxRebuilds \in Nat

Keys  == Writers \cup Others
Nodes == 0..(MaxRebuilds * Cardinality(Rebuilders))
Absent == 0   \* the value of a key that has none; calls store their number

VARIABLES
    cell,    \* the child pointer: a node and the tag
    slots,   \* slots[n][k]: state and value in memory
    buffer,  \* buffer[p]: the writer's stores that have not reached memory
    built,   \* the number of subtrees built
    begun,   \* begun[r]: the number of rebuilds begun
    pc,
    op, calls,
    seen,    \* the pointer a writer descended through
    fresh,   \* the writer's insert found no entry
    done,    \* history: the key's value after the writer's last finished call
    victim, todo, pairs  \* a rebuild's node, the slots it has yet to scan, its snapshot

vars == <<cell, slots, buffer, built, begun, pc, op, calls, seen, fresh, done,
          victim, todo, pairs>>
writer    == <<op, calls, seen, fresh, done>>
rebuilder == <<begun, victim, todo, pairs>>

Slot(st, v) == [st |-> st, val |-> v]
Goto(p, l)  == pc' = [pc EXCEPT ![p] = l]

\* What a load of a slot of node n gives that is s in memory: the last store to
\* it in the thread's own buffer b, if there is one.
Forwarded(b, n, s) ==
    LET mine == {i \in DOMAIN b : b[i].node = n}
        last == CHOOSE i \in mine : \A j \in mine : j <= i
    IN  IF mine = {} THEN s ELSE Slot("DATA", b[last].val)

\* What writer p sees in its slot of node n.
Sees(p, n) == Forwarded(buffer[p], n, slots[n][p])

\* A locked instruction is executed with an empty buffer.
Drained(p) == buffer[p] = <<>>

Init ==
    /\ cell = [node |-> 0, tag |-> 0]
    /\ slots = [n \in Nodes |-> [k \in Keys |->
                  IF n = 0 /\ k \in Others THEN Slot("DATA", 1)
                                           ELSE Slot("EMPTY", Absent)]]
    /\ buffer = [p \in Writers |-> <<>>]
    /\ built = 0
    /\ begun = [r \in Rebuilders |-> 0]
    /\ pc = [p \in Writers \cup Rebuilders |-> "idle"]
    /\ op = [p \in Writers |-> "insert"]
    /\ calls = [p \in Writers |-> 0]
    /\ seen = [p \in Writers |-> 0]
    /\ fresh = [p \in Writers |-> FALSE]
    /\ done = [p \in Writers |-> Absent]
    /\ victim = [r \in Rebuilders |-> 0]
    /\ todo = [r \in Rebuilders |-> {}]
    /\ pairs = [r \in Rebuilders |-> [k \in Keys |-> Absent]]
-----------------------------------------------------------------------------
(***************************************************************************)
(* Writers.                                                                *)
(***************************************************************************)
Begin(p) ==
    /\ pc[p] = "idle"
    /\ calls[p] < MaxCalls
    /\ calls' = [calls EXCEPT ![p] = @ + 1]
    /\ \E o \in {"insert", "remove"} : op' = [op EXCEPT ![p] = o]
    /\ Goto(p, "descend")
    /\ UNCHANGED <<cell, slots, buffer, built, seen, fresh, done, rebuilder>>

\* A tagged pointer is loaded again until it is not.
Descend(p) ==
    /\ pc[p] = "descend"
    /\ cell.tag = 0
    /\ seen' = [seen EXCEPT ![p] = cell.node]
    /\ Goto(p, op[p])
    /\ UNCHANGED <<cell, slots, buffer, built, op, calls, fresh, done, rebuilder>>

\* cas_empty_to_data, cas_tombstone_to_child_stale, cas_data_to_child_stale: the
\* slot is claimed; a slot that is being written is read again.
Claim(p) ==
    /\ pc[p] = "insert"
    /\ Drained(p)
    /\ slots[seen[p]][p].st # "WRITING"
    /\ fresh' = [fresh EXCEPT ![p] = slots[seen[p]][p].st # "DATA"]
    /\ slots' = [slots EXCEPT ![seen[p]][p].st = "WRITING"]
    /\ Goto(p, "publish")
    /\ UNCHANGED <<cell, buffer, built, op, calls, seen, done, rebuilder>>

\* The Release store that ends the claim.
Publish(p) ==
    /\ pc[p] = "publish"
    /\ buffer' = [buffer EXCEPT ![p] = Append(@, [node |-> seen[p], val |-> calls[p]])]
    /\ Goto(p, IF fresh[p] THEN "count" ELSE "validate")
    /\ UNCHANGED <<cell, slots, built, writer, rebuilder>>

\* inc_keys, dec_tombstones: a fetch_add, which an update of a present key lacks.
Count(p) ==
    /\ pc[p] = "count"
    /\ Drained(p)
    /\ Goto(p, "validate")
    /\ UNCHANGED <<cell, slots, buffer, built, writer, rebuilder>>

\* The call returns, having left value v for the key, and its locals are gone.
Return(p, v) ==
    /\ Goto(p, "idle")
    /\ done' = [done EXCEPT ![p] = v]
    /\ op' = [op EXCEPT ![p] = "insert"]
    /\ seen' = [seen EXCEPT ![p] = 0]
    /\ fresh' = [fresh EXCEPT ![p] = FALSE]

\* remove::remove at the slot: nothing to do, or cas_data_to_tombstone.
RemoveAbsent(p) ==
    /\ pc[p] = "remove"
    /\ Sees(p, seen[p]).st \in {"EMPTY", "TOMBSTONE"}
    /\ Return(p, Absent)
    /\ UNCHANGED <<cell, slots, buffer, built, calls, rebuilder>>
Remove(p) ==
    /\ pc[p] = "remove"
    /\ Drained(p)
    /\ slots[seen[p]][p].st = "DATA"
    /\ slots' = [slots EXCEPT ![seen[p]][p] = Slot("TOMBSTONE", Absent)]
    /\ Goto(p, "validate")
    /\ UNCHANGED <<cell, buffer, built, writer, rebuilder>>

\* The pointer must still be the one descended through, untagged.
SameNode(p) == cell.node = seen[p]
StillReachable(p) == cell = [node |-> seen[p], tag |-> 0]
Validate(p) ==
    /\ pc[p] = "validate"
    /\ IF StillReachable(p)
       THEN Return(p, IF op[p] = "insert" THEN calls[p] ELSE Absent)
       ELSE Goto(p, "descend") /\ UNCHANGED <<op, seen, fresh, done>>
    /\ UNCHANGED <<cell, slots, buffer, built, calls, rebuilder>>

\* The oldest store of the buffer reaches memory.
Flush(p) ==
    /\ buffer[p] # <<>>
    /\ slots' = [slots EXCEPT ![Head(buffer[p]).node][p] =
                   Slot("DATA", Head(buffer[p]).val)]
    /\ buffer' = [buffer EXCEPT ![p] = Tail(@)]
    /\ UNCHANGED <<cell, built, pc, writer, rebuilder>>
-----------------------------------------------------------------------------
(***************************************************************************)
(* try_rebuild_subtree.                                                    *)
(***************************************************************************)
NoPairs == [k \in Keys |-> Absent]

\* The rebuild returns, or unwinds, and its locals are gone.
RbReturn(r) ==
    /\ Goto(r, "idle")
    /\ victim' = [victim EXCEPT ![r] = 0]
    /\ todo' = [todo EXCEPT ![r] = {}]
    /\ pairs' = [pairs EXCEPT ![r] = NoPairs]

RbLoad(r) ==
    /\ pc[r] = "idle"
    /\ begun[r] < MaxRebuilds
    /\ cell.tag = 0
    /\ begun' = [begun EXCEPT ![r] = @ + 1]
    /\ victim' = [victim EXCEPT ![r] = cell.node]
    /\ Goto(r, "freeze")
    /\ UNCHANGED <<cell, slots, buffer, built, writer, todo, pairs>>

RbFreeze(r) ==
    /\ pc[r] = "freeze"
    /\ IF cell = [node |-> victim[r], tag |-> 0]
       THEN /\ cell' = [cell EXCEPT !.tag = 1]
            /\ todo' = [todo EXCEPT ![r] = Keys]
            /\ Goto(r, "scan")
            /\ UNCHANGED <<victim, pairs>>
       ELSE RbReturn(r) /\ UNCHANGED cell
    /\ UNCHANGED <<slots, buffer, built, begun, writer>>

\* The slots are visited in one order; which one does not matter here.
NextSlot(S) == CHOOSE k \in S : TRUE

\* sorted_pairs waits on a slot that is being written.
Anything(s) == TRUE
Readable(s) == s.st # "WRITING"
RbScan(r) ==
    LET k == NextSlot(todo[r])
        s == slots[victim[r]][k]
    IN
    /\ pc[r] = "scan"
    /\ Readable(s)
    /\ pairs' = [pairs EXCEPT ![r][k] = IF s.st = "DATA" THEN s.val ELSE Absent]
    /\ todo' = [todo EXCEPT ![r] = @ \ {k}]
    /\ Goto(r, IF todo[r] = {k} THEN "swap" ELSE "scan")
    /\ UNCHANGED <<cell, slots, buffer, built, begun, writer, victim>>

\* FreezeGuard::drop: the pointer without its tag.
LeftFrozen(r) == cell
Unfrozen(r) == [node |-> victim[r], tag |-> 0]

\* The clone of a key or of a value panics and the guard is dropped; the caller
\* catches the panic or the thread ends.
Panic(r) ==
    /\ pc[r] = "scan"
    /\ slots[victim[r]][NextSlot(todo[r])].st = "DATA"
    /\ cell' = Unfrozen(r)
    /\ RbReturn(r)
    /\ UNCHANGED <<slots, buffer, built, begun, writer>>

Snapshot(r) == {k \in Keys : pairs[r][k] # Absent}

TooSmall(r) ==
    /\ pc[r] = "swap"
    /\ Cardinality(Snapshot(r)) <= 1
    /\ cell' = Unfrozen(r)
    /\ RbReturn(r)
    /\ UNCHANGED <<slots, buffer, built, begun, writer>>

\* The new subtree takes the place of the old one.
Swap(r) ==
    /\ pc[r] = "swap"
    /\ Cardinality(Snapshot(r)) > 1
    /\ built' = built + 1
    /\ slots' = [slots EXCEPT ![built'] = [k \in Keys |->
                   IF k \in Snapshot(r) THEN Slot("DATA", pairs[r][k])
                                        ELSE Slot("EMPTY", Absent)]]
    /\ cell' = [node |-> built', tag |-> 0]
    /\ RbReturn(r)
    /\ UNCHANGED <<buffer, begun, writer>>
-----------------------------------------------------------------------------
Write(p) ==
    \/ Begin(p) \/ Descend(p) \/ Claim(p) \/ Publish(p) \/ Count(p)
    \/ RemoveAbsent(p) \/ Remove(p) \/ Validate(p)
Rebuild(r) == RbFreeze(r) \/ RbScan(r) \/ TooSmall(r) \/ Swap(r)

Next ==
    \/ \E p \in Writers : Write(p) \/ Flush(p)
    \/ \E r \in Rebuilders : RbLoad(r) \/ Rebuild(r) \/ Panic(r)

Spec == Init /\ [][Next]_vars

\* Threads are scheduled and buffers drain; whether a rebuild starts or panics
\* is open.
FairSpec ==
    /\ Spec
    /\ \A p \in Writers : WF_vars(Write(p)) /\ WF_vars(Flush(p))
    /\ \A r \in Rebuilders : WF_vars(Rebuild(r))
-----------------------------------------------------------------------------
(***************************************************************************)
(* Properties.                                                             *)
(***************************************************************************)
\* The value of p's key in node n, once the buffer has drained, and in the
\* reachable subtree.
ValueOf(s)  == IF s.st = "DATA" THEN s.val ELSE Absent
Final(p, n) == ValueOf(Sees(p, n))
Current(p)  == Final(p, cell.node)

\* What a finished insert or remove did is in the subtree the pointer leads to,
\* whatever rebuilds ran since: one that froze the pointer after the writer's
\* validation finds the slot written, or WRITING while the store is still in
\* the writer's buffer, and waits; a failed rebuild gives back the very node.
FinishedKept == \A p \in Writers : pc[p] = "idle" => Current(p) = done[p]

\* Writers and rebuilds that have begun come to an end: no freeze outlives its
\* rebuild, panics included, and no rebuild waits on a slot nobody publishes.
AllReturn ==
    \A p \in Writers \cup Rebuilders : pc[p] # "idle" ~> pc[p] = "idle"
=============================================================================
