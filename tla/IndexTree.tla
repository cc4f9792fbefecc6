----------------------------- MODULE IndexTree -----------------------------
(***************************************************************************)
(* The tree of the index as a value, and its algorithms as one thread runs *)
(* them: build.rs, lookup.rs, insert.rs, remove.rs, rebuild.rs, iter.rs.   *)
(* LearnedTree looks at the interleavings of several threads and takes the *)
(* models of nodes as tables; this module has the construction itself, keys*)
(* that coincide as f64, binary splits and split keys, and all the reads.  *)
(*                                                                         *)
(* A node is its model, its capacity and its slots; a slot outside the     *)
(* domain of `slots' is EMPTY, and WRITING is never seen by a lone thread. *)
(* A CHILD_STALE or TOMBSTONE slot keeps its old inline pair.  The number  *)
(* of tombstones is what the slots say.  A call's configuration is a record*)
(* [factor, headroom, auto_rebuild, depth, tomb]: the expansion factor in  *)
(* halves, and the tombstone threshold in hundredths.                      *)
(***************************************************************************)
EXTENDS Keys, LinearModel

CONSTANT Nil   \* no value

Node(model, cap)  == [model |-> model, cap |-> cap, slots |-> <<>>]
LinearNode(line)  == Node([kind |-> "linear", line |-> line], line.cap)
\* LinearModel::binary_split and Node::with_split_key.
BinaryNode(mid, cap) == Node([kind |-> "binary", mid |-> mid], cap)
SplitNode(key, cap)  == Node([kind |-> "split", key |-> key], cap)

Data(k, v)   == [st |-> "DATA", key |-> k, val |-> v]
Child(n)     == [st |-> "CHILD", child |-> n]
Stale(s, n)  == [st |-> "CHILD_STALE", key |-> s.key, val |-> s.val, child |-> n]
Tombstone(s) == [st |-> "TOMBSTONE", key |-> s.key, val |-> s.val]
is_child(s)  == s.st \in {"CHILD", "CHILD_STALE"}

Store(n, i, s) == [n EXCEPT !.slots = (i :> s) @@ @]
Slot(n, i) == IF i \in DOMAIN n.slots THEN n.slots[i] ELSE [st |-> "EMPTY"]

\* Node::predict_slot and LinearModel::predict.
predict_slot(n, k) ==
    CASE n.model.kind = "split" ->
           IF Less(n.model.key, k) THEN n.cap - 1 ELSE 0
      [] n.model.kind = "binary" ->
           IF to_exact_ordinal(k) <= n.model.mid THEN 0 ELSE n.cap - 1
      [] OTHER -> predict(n.model.line, to_model_input(k))
-----------------------------------------------------------------------------
(***************************************************************************)
(* Building.                                                               *)
(***************************************************************************)
\* A node of cap slots for two neighbouring keys that coincide as f64: their
\* ordinals are separated in the middle, or the smaller key is the boundary.
Middle(l, h) == l + (h - l) \div 2
SeparatingNode(lo, hi, cap) ==
    IF to_exact_ordinal(lo) = to_exact_ordinal(hi) THEN SplitNode(lo, cap)
    ELSE BinaryNode(Middle(to_exact_ordinal(lo), to_exact_ordinal(hi)), cap)

is_degenerate_group(ps) ==
    Len(ps) > 1 /\ to_model_input(ps[1].key) = to_model_input(ps[Len(ps)].key)

\* A balanced binary tree over pairs that share their model input.
RECURSIVE build_degenerate(_)
build_degenerate(ps) ==
    LET mid     == Len(ps) \div 2
        Half(h) == IF Len(h) = 1 THEN Data(h[1].key, h[1].val)
                                 ELSE Child(build_degenerate(h))
    IN  IF Len(ps) = 1
        THEN Store(LinearNode(ConstantModel(1)), 0, Data(ps[1].key, ps[1].val))
        ELSE [SeparatingNode(ps[mid].key, ps[mid + 1].key, 2) EXCEPT !.slots =
                (0 :> Half(SubSeq(ps, 1, mid)))
                  @@ (1 :> Half(SubSeq(ps, mid + 1, Len(ps))))]

\* fit_fmcd over pairs of which some may share their model input: each of
\* those adds the same conflict to every candidate.
Fit(ps, cfg) ==
    LET n  == Len(ps)
        xs == {to_model_input(ps[i].key) : i \in DOMAIN ps}
    IN  IF n = 1 THEN ConstantModel(1)
        ELSE CandidateFit(xs, Max({n, Ceil(n * cfg.factor * (1 + cfg.headroom), 2)}),
                          cfg.headroom)

\* The run of the pairs predicted into slot i.  The code sorts the predictions
\* with sort_unstable_by_key and then needs every run in key order; it has it
\* because the predictions ascend already, and a sort moves nothing then.
UnstableRun(node, ps, i) == \* a run the sort has turned around
    Reverse(SelectSeq(ps, LAMBDA e : predict_slot(node, e.key) = i))
Run(node, ps, i) == SelectSeq(ps, LAMBDA e : predict_slot(node, e.key) = i)

RECURSIVE build_recursive(_, _)
\* The slot of a run: its only pair, or a child.
SlotOf(run, cfg) ==
    IF Len(run) = 1 THEN Data(run[1].key, run[1].val)
                    ELSE Child(build_recursive(run, cfg))
\* One slot per run.
Filled(node, ps, cfg) ==
    [node EXCEPT !.slots =
       [i \in {predict_slot(node, ps[j].key) : j \in DOMAIN ps} |->
          SlotOf(Run(node, ps, i), cfg)]]
build_recursive(ps, cfg) ==
    IF is_degenerate_group(ps) THEN build_degenerate(ps)
    ELSE Filled(LinearNode(Fit(ps, cfg)), ps, cfg)

Ascending(ps)    == \A i \in 1..(Len(ps) - 1) : Less(ps[i].key, ps[i + 1].key)
NonDecreasing(ps) == \A i \in 1..(Len(ps) - 1) : ~Less(ps[i + 1].key, ps[i].key)

\* The root of an empty map.
EmptyRoot == LinearNode(EmptyRootModel)

\* build_single_entry_child.
SingleEntryChild(k, v) ==
    Store(LinearNode(SingleEntryModel(to_model_input(k))), 0, Data(k, v))
-----------------------------------------------------------------------------
(***************************************************************************)
(* Reads.                                                                  *)
(***************************************************************************)
\* The descent, and what the slot it ends in answers.
RECURSIVE get(_, _)
Answer(s, k) ==
    CASE is_child(s) -> get(s.child, k)
      [] s.st = "DATA" /\ s.key = k -> s.val
      [] OTHER -> Nil
get(n, k) == Answer(Slot(n, predict_slot(n, k)), k)

\* The pairs of the slots from i on, in slot order: Iter and Range::next walk
\* a node this way and push the children they meet.
RECURSIVE EntriesFrom(_, _)
EntriesFrom(n, i) ==
    LET js == {j \in DOMAIN n.slots : j >= i}
        j  == Min(js)
        s  == n.slots[j]
        at == CASE is_child(s)    -> EntriesFrom(s.child, 0)
                [] s.st = "DATA"  -> <<[key |-> s.key, val |-> s.val]>>
                [] OTHER          -> <<>>
    IN  IF js = {} THEN <<>> ELSE at \o EntriesFrom(n, j + 1)

\* Iter, sorted_pairs, iter_sorted.
sorted_pairs(n) == EntriesFrom(n, 0)

SeekBeside(n, i, k) == \* the child the key is in is left out
    EntriesFrom(n, IF is_child(Slot(n, i)) THEN i + 1 ELSE i)
\* Range::seek_to: what the stack it leaves will yield, i being k's slot in n.
RECURSIVE seek_to(_, _)
SeekAt(n, i, k) ==
    IF is_child(Slot(n, i)) THEN seek_to(n.slots[i].child, k) \o EntriesFrom(n, i + 1)
    ELSE EntriesFrom(n, i)
seek_to(n, k) == SeekAt(n, predict_slot(n, k), k)

\* Range::past_end and before_start; a bound is [kind, key].
past_end(hi, k) ==
    CASE hi.kind = "included" -> Less(hi.key, k)
      [] hi.kind = "excluded" -> ~Less(k, hi.key)
      [] OTHER                -> FALSE
before_start(lo, k) ==
    CASE lo.kind = "included" -> Less(k, lo.key)
      [] lo.kind = "excluded" -> ~Less(lo.key, k)
      [] OTHER                -> FALSE

\* The pairs a Range has before it when it is made.
Seek(n, lo) == IF lo.kind = "unbounded" THEN EntriesFrom(n, 0)
                                        ELSE seek_to(n, lo.key)

\* Of those, the ones it yields: it stops for good at the first pair past the
\* end; from the first pair that is not before the start on, the start is not
\* looked at any more.
Upto(es, hi) ==
    LET past == {i \in DOMAIN es : past_end(hi, es[i].key)}
    IN  IF past = {} THEN es ELSE SubSeq(es, 1, Min(past) - 1)
From(es, lo) ==
    LET begun == {i \in DOMAIN es : ~before_start(lo, es[i].key)}
    IN  IF begun = {} THEN <<>> ELSE SubSeq(es, Min(begun), Len(es))
range(es, lo, hi) == From(Upto(es, hi), lo)

first_entry(n) ==
    LET es == sorted_pairs(n) IN IF es = <<>> THEN Nil ELSE es[1]

RECURSIVE LastOnPath(_, _)
LastOnPath(n, i) == \* no way back out of a child
    LET js == {j \in DOMAIN n.slots : j < i}
        s  == n.slots[Max(js)]
    IN  IF js = {} THEN Nil
        ELSE CASE s.st = "DATA" -> [key |-> s.key, val |-> s.val]
               [] is_child(s)   -> LastOnPath(s.child, s.child.cap)
               [] OTHER         -> LastOnPath(n, Max(js))
\* last_entry: slots from the last to the first, backtracking out of a child
\* that has nothing left.
RECURSIVE LastBelow(_, _)
LastBelow(n, i) ==
    LET js == {j \in DOMAIN n.slots : j < i}
        j  == Max(js)
        s  == n.slots[j]
        in == IF is_child(s) THEN LastBelow(s.child, s.child.cap) ELSE Nil
    IN  IF js = {} THEN Nil
        ELSE IF s.st = "DATA" THEN [key |-> s.key, val |-> s.val]
        ELSE IF in # Nil THEN in
        ELSE LastBelow(n, j)
last_entry(n) == LastBelow(n, n.cap)

RECURSIVE total_keys(_)
total_keys(n) ==
    MapThenSumSet(LAMBDA i : LET s == n.slots[i] IN
                    IF is_child(s) THEN total_keys(s.child)
                    ELSE IF s.st = "DATA" THEN 1 ELSE 0,
                  DOMAIN n.slots)
-----------------------------------------------------------------------------
(***************************************************************************)
(* Writes.  Each descends to the slot of the key and then rebuilds the     *)
(* child of the root it went through, if it went deep enough.              *)
(***************************************************************************)
\* try_rebuild_subtree: not for fewer than two pairs.
try_rebuild_subtree(n, i, cfg) ==
    LET ps == sorted_pairs(n.slots[i].child) IN
    IF ~is_child(n.slots[i]) \/ Len(ps) <= 1 THEN n
    ELSE [n EXCEPT !.slots[i].child =
            build_recursive(ps, [cfg EXCEPT !.factor = Min({(3 * @) \div 2, 8})])]

RECURSIVE InsertInto(_, _, _)
\* The four slots of a node for two keys, the smaller first.
ConflictNode(lo, hi) ==
    IF to_model_input(lo) = to_model_input(hi) THEN SeparatingNode(lo, hi, 4)
    ELSE LinearNode(ConflictNodeModel(to_model_input(lo), to_model_input(hi)))

\* The smaller key is stored in the node, then the larger; were they to collide,
\* it would be inserted below the smaller.
Placed(node, lo, hi) ==
    InsertInto(Store(node, predict_slot(node, lo.key), lo), hi.key, hi.val).node

\* build_conflict_node.
build_conflict_node(s, t) ==
    IF Less(s.key, t.key) THEN Placed(ConflictNode(s.key, t.key), s, t)
                          ELSE Placed(ConflictNode(t.key, s.key), t, s)

\* The descent of insert::insert: the new node, whether the key was new, and
\* the number of children it went through.
Below(n, i, r) == \* n with the result of a call on its child i
    [r EXCEPT !.node = [n EXCEPT !.slots[i].child = r.node], !.depth = @ + 1]
InsertInSlot(n, i, k, v) ==
    LET s == Slot(n, i)
        Put(t, is_new) == [node |-> Store(n, i, t), new |-> is_new, depth |-> 0]
    IN  CASE s.st = "EMPTY" -> Put(Data(k, v), TRUE)
          [] is_child(s)    -> Below(n, i, InsertInto(s.child, k, v))
          [] s.st = "TOMBSTONE" \/ (s.st = "DATA" /\ s.key = k) ->
               Put(Stale(s, SingleEntryChild(k, v)), s.st = "TOMBSTONE")
          [] OTHER ->
               Put(Stale(s, build_conflict_node(Data(s.key, s.val), Data(k, v))), TRUE)
InsertInto(n, k, v) == InsertInSlot(n, predict_slot(n, k), k, v)

\* insert::insert.  An update of a present key never rebuilds.
RebuildIfDeep(r, i, cfg) ==
    [node |-> IF r.new /\ cfg.auto_rebuild /\ r.depth > cfg.depth
              THEN try_rebuild_subtree(r.node, i, cfg) ELSE r.node,
     new  |-> r.new]
insert(n, k, v, cfg) ==
    RebuildIfDeep(InsertInto(n, k, v), predict_slot(n, k), cfg)

\* insert::get_or_insert: a present key is left alone.
get_or_insert(n, k, v, cfg) ==
    IF get(n, k) # Nil THEN [node |-> n, new |-> FALSE, val |-> get(n, k)]
    ELSE insert(n, k, v, cfg) @@ [val |-> v]

\* The descent of remove::remove; `full' if the tombstones of the node that had
\* the key are too many.
RECURSIVE RemoveFrom(_, _, _)
TooManyTombstones(n, cfg) ==
    100 * Cardinality({i \in DOMAIN n.slots : n.slots[i].st = "TOMBSTONE"})
      > cfg.tomb * n.cap
RemoveFromSlot(n, i, k, cfg) ==
    LET s == Slot(n, i)
        t == Store(n, i, Tombstone(s))
    IN  CASE is_child(s) -> Below(n, i, RemoveFrom(s.child, k, cfg))
          [] s.st = "DATA" /\ s.key = k ->
               [node |-> t, removed |-> TRUE, full |-> TooManyTombstones(t, cfg),
                depth |-> 0]
          [] OTHER -> [node |-> n, removed |-> FALSE, full |-> FALSE, depth |-> 0]
RemoveFrom(n, k, cfg) == RemoveFromSlot(n, predict_slot(n, k), k, cfg)

\* remove::remove.
RebuildIfFull(r, i, cfg) ==
    [node    |-> IF r.removed /\ cfg.auto_rebuild /\ r.full /\ r.depth > 0
                 THEN try_rebuild_subtree(r.node, i, cfg) ELSE r.node,
     removed |-> r.removed]
remove(n, k, cfg) ==
    RebuildIfFull(RemoveFrom(n, k, cfg), predict_slot(n, k), cfg)
=============================================================================
