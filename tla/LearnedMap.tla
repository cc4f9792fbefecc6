---------------------------- MODULE LearnedMap -----------------------------
(***************************************************************************)
(* LearnedMap and LearnedSet (src/map.rs, src/set.rs) as a single-threaded *)
(* program uses them: the constructors, one call after the other, and what *)
(* every read would return in between.  The tree and its algorithms are    *)
(* IndexTree's.  A set is a map to the unit value that lacks some calls.   *)
(***************************************************************************)
EXTENDS IndexTree

CONSTANTS
    KeyTypes,    \* the key types a map may be made for
    Universe,    \* Universe[t]: the keys of that type the program uses
    Loads,       \* Loads[t]: the sequences of keys it constructs a map from
    Batches,     \* Batches[t]: the sequences of keys it extends a map with
    Configs,     \* the configurations it passes
    MaxCalls     \* bound: calls after the construction

\* What the methods of Config let through, and its default.
IsConfig(c) ==
    /\ c.factor >= 2 /\ c.headroom >= 0 /\ c.auto_rebuild \in BOOLEAN
    /\ c.depth \in Nat /\ c.tomb \in 1..100
DefaultConfig ==
    [factor |-> 4, headroom |-> 0, auto_rebuild |-> TRUE, depth |-> 8, tomb |-> 50]

ASSUME LearnedMapAssumption ==
    /\ MaxCalls \in Nat
    /\ \A c \in Configs \cup {DefaultConfig} : IsConfig(c)

VARIABLES
    ty,      \* the key type
    made,    \* "no" before a constructor has succeeded, then "map" or "set"
    config,
    root,
    len,
    next_root_rebuild,
    found,   \* observed after each call: what get answers, of the keys it finds
    last,    \* the call just made: its name, its argument, its answer
    calls    \* the number of calls since the construction

vars == <<ty, made, config, root, len, next_root_rebuild, found, last, calls>>

INITIAL_ROOT_REBUILD_THRESHOLD == 64
ROOT_REBUILD_GROWTH_FACTOR == 2
Unit == 0

\* The value the next call stores: a fresh one, so that every write is told
\* from the others.
Value(i) == IF made = "set" THEN Unit ELSE 10 * (calls + 1) + i
Pairs(ks) == [i \in DOMAIN ks |-> [key |-> ks[i], val |-> Value(i)]]
UnitPairs(ks) == [i \in DOMAIN ks |-> [key |-> ks[i], val |-> Unit]]

Called(op, arg, ret) ==
    /\ last' = [op |-> op, arg |-> arg, ret |-> ret]
    /\ calls' = IF made = "no" THEN 0 ELSE calls + 1

\* A map as a value: what the operations below return.
Map(r, n, next) == [root |-> r, len |-> n, next |-> next]
This == Map(root, len, next_root_rebuild)
Present(got) == [k \in {k \in DOMAIN got : got[k] # Nil} |-> got[k]]
Contents(r)  == Present([k \in Universe[ty] |-> get(r, k)])
Becomes(m) ==
    /\ root' = m.root
    /\ len' = m.len
    /\ next_root_rebuild' = m.next
    /\ found' = Contents(root')
-----------------------------------------------------------------------------
(***************************************************************************)
(* Constructors.                                                           *)
(***************************************************************************)
EmptyMap == Map(EmptyRoot, 0, INITIAL_ROOT_REBUILD_THRESHOLD)

\* bulk_load_with_config, of pairs that build::bulk_load accepts.
Loaded(ps, c) ==
    Map(build_recursive(ps, [c EXCEPT !.headroom = Max({@, 1})]), Len(ps),
        ROOT_REBUILD_GROWTH_FACTOR * Len(ps))

\* build::bulk_load's checks, and those of bulk_load_dedup_with_config.
Accepts(ps) == IF ps = <<>> THEN "EmptyData"
               ELSE IF Ascending(ps) THEN "Ok" ELSE "NotSorted"
AcceptsDups(ps) == IF ps = <<>> THEN "EmptyData"
                   ELSE IF NonDecreasing(ps) THEN "Ok" ELSE "NotSorted"

FirstOfEach(ps) == \* the first value of a key instead of the last
    LET kept == SelectSeq([i \in DOMAIN ps |-> i],
                          LAMBDA i : i = 1 \/ ps[i].key # ps[i - 1].key)
    IN  [i \in DOMAIN kept |-> ps[kept[i]]]
\* A pair is kept if the next one has another key.
Dedup(ps) ==
    LET kept == SelectSeq([i \in DOMAIN ps |-> i],
                          LAMBDA i : i = Len(ps) \/ ps[i].key # ps[i + 1].key)
    IN  [i \in DOMAIN kept |-> ps[kept[i]]]

Init ==
    /\ ty \in KeyTypes
    /\ made = "no"
    /\ config = DefaultConfig
    /\ root = EmptyRoot
    /\ len = 0
    /\ next_root_rebuild = INITIAL_ROOT_REBUILD_THRESHOLD
    /\ found = Contents(root)
    /\ last = [op |-> "none", arg |-> <<>>, ret |-> "none"]
    /\ calls = 0

\* A constructor that gave an error leaves no map; another may be tried.
Construct(op, arg, answer, m, c, kind) ==
    /\ made = "no"
    /\ Called(op, arg, answer)
    /\ IF answer = "Ok" THEN Becomes(m) /\ config' = c /\ made' = kind
       ELSE UNCHANGED <<root, len, next_root_rebuild, found, config, made>>
    /\ UNCHANGED ty

with_config ==
    \E c \in Configs, kind \in {"map", "set"} :
        Construct("new", <<>>, "Ok", EmptyMap, c, kind)

bulk_load ==
    \E ks \in Loads[ty], c \in Configs :
        LET ps == Pairs(ks) IN
        Construct("bulk_load", ps, Accepts(ps), Loaded(ps, c), c, "map")

bulk_load_dedup ==
    \E ks \in Loads[ty], c \in Configs :
        LET ps == Pairs(ks) IN
        Construct("bulk_load_dedup", ps, AcceptsDups(ps), Loaded(Dedup(ps), c), c,
                  "map")

\* LearnedSet::bulk_load.
set_bulk_load ==
    \E ks \in Loads[ty] :
        LET ps == UnitPairs(ks) IN
        Construct("bulk_load_dedup", ps, AcceptsDups(ps),
                  Loaded(Dedup(ps), DefaultConfig), DefaultConfig, "set")
-----------------------------------------------------------------------------
(***************************************************************************)
(* Calls.                                                                  *)
(***************************************************************************)
\* LearnedMap::rebuild.
Rebuilt(m) ==
    LET ps == sorted_pairs(m.root) IN
    IF ps = <<>> THEN m
    ELSE Map(build_recursive(ps, [config EXCEPT !.headroom = 1]), m.len,
             ROOT_REBUILD_GROWTH_FACTOR * Len(ps))

maybe_rebuild_root(m) ==
    IF config.auto_rebuild /\ m.len >= m.next
    THEN Rebuilt([m EXCEPT !.next = ROOT_REBUILD_GROWTH_FACTOR * @])
    ELSE m

\* m with the tree of the result r, counting the key if it is new.
Counted(m, r) ==
    IF r.new THEN maybe_rebuild_root([m EXCEPT !.root = r.node, !.len = @ + 1])
    ELSE [m EXCEPT !.root = r.node]

Inserted(m, e) == Counted(m, insert(m.root, e.key, e.val, config))

\* The methods of LearnedMap, which a MapRef forwards, and those LearnedSet and
\* a SetRef have too.
MayCall     == made = "map" /\ calls < MaxCalls
MayCallBoth == made # "no" /\ calls < MaxCalls
Rest        == UNCHANGED <<ty, made, config>>

Insert(k) ==
    LET e == [key |-> k, val |-> Value(0)] IN
    /\ MayCallBoth
    /\ Becomes(Inserted(This, e))
    /\ Called("insert", e, insert(root, k, e.val, config).new)
    /\ Rest

GetOrInsert(k) ==
    LET r == get_or_insert(root, k, Value(0), config) IN
    /\ MayCall
    /\ Becomes(Counted(This, r))
    /\ Called("get_or_insert", [key |-> k, val |-> Value(0)], r.val)
    /\ Rest

RemoveKey(k) ==
    LET r == remove(root, k, config) IN
    /\ MayCallBoth
    /\ Becomes([This EXCEPT !.root = r.node,
                            !.len = IF r.removed THEN @ - 1 ELSE @])
    /\ Called("remove", k, r.removed)
    /\ Rest

\* Extend::extend; FromIterator is the same on a new map.
extend ==
    /\ MayCallBoth
    /\ \E ks \in Batches[ty] :
         /\ Becomes(FoldLeft(Inserted, This, Pairs(ks)))
         /\ Called("extend", Pairs(ks), "Ok")
    /\ Rest

rebuild ==
    /\ MayCall
    /\ Becomes(Rebuilt(This))
    /\ Called("rebuild", <<>>, "Ok")
    /\ Rest

drain ==
    LET ps == sorted_pairs(root) IN
    /\ MayCall
    /\ Becomes(Map(EmptyRoot, len - Len(ps), INITIAL_ROOT_REBUILD_THRESHOLD))
    /\ Called("drain", <<>>, ps)
    /\ Rest

clear ==
    /\ MayCall
    /\ Becomes(Map(EmptyRoot, len - Len(sorted_pairs(root)),
                   INITIAL_ROOT_REBUILD_THRESHOLD))
    /\ Called("clear", <<>>, "Ok")
    /\ Rest

\* Deserialize: a map with the default configuration.
Restored(ps) ==
    IF ps = <<>> THEN EmptyMap ELSE Loaded(Dedup(ps), DefaultConfig)

\* Serialize, which writes the pairs as Iter yields them, then Deserialize, whose
\* bulk_load_dedup does not refuse them.
reload ==
    LET ps == sorted_pairs(root) IN
    /\ MayCallBoth
    /\ Becomes(Restored(ps))
    /\ config' = DefaultConfig
    /\ Called("reload", <<>>, IF ps = <<>> THEN "Ok" ELSE AcceptsDups(ps))
    /\ UNCHANGED <<ty, made>>

Next ==
    \/ with_config \/ bulk_load \/ bulk_load_dedup \/ set_bulk_load
    \/ \E k \in Universe[ty] : Insert(k) \/ GetOrInsert(k) \/ RemoveKey(k)
    \/ extend \/ rebuild \/ drain \/ clear \/ reload

Spec == Init /\ [][Next]_vars
-----------------------------------------------------------------------------
(***************************************************************************)
(* Properties.                                                             *)
(***************************************************************************)
Abstract == INSTANCE SortedMap WITH
    map <- found,
    InitialLast <- [op |-> "none", arg |-> <<>>, ret |-> "none"]

\* Every call answers as the sorted map would, and a get finds after it exactly
\* what the sorted map holds: no conflict, split, rebuild or reload loses, brings
\* back or mixes up a key, keys that coincide as f64 or in 16 bytes included.
Refines == Abstract!Spec

\* Iteration, and with it every snapshot a rebuild takes, yields exactly the
\* pairs get finds, in ascending order; len and total_keys count them.
OrderedScan ==
    /\ sorted_pairs(root) = Abstract!InOrder(found)
    /\ len = Cardinality(DOMAIN found)
    /\ total_keys(root) = len

Bounds == [kind : {"included", "excluded"}, key : Universe[ty]]
            \cup {[kind |-> "unbounded"]}

\* A range yields the pairs between its bounds, for any two bounds, though it
\* starts at the slot its lower bound predicts and stops at the first key above
\* the upper one.
RangeExact ==
    LET inorder == Abstract!InOrder(found) IN
    \A lo \in Bounds :
        LET es   == Seek(root, lo)
            upon == SelectSeq(inorder, LAMBDA e : ~before_start(lo, e.key))
        IN  \A hi \in Bounds :
                range(es, lo, hi) = SelectSeq(upon, LAMBDA e : ~past_end(hi, e.key))

\* first_key_value and last_key_value are the ends of the map, also when the
\* outer slots lead to children that removes have emptied.
EndsExact ==
    LET es == Abstract!InOrder(found) IN
    /\ first_entry(root) = IF es = <<>> THEN Nil ELSE es[1]
    /\ last_entry(root) = IF es = <<>> THEN Nil ELSE es[Len(es)]
=============================================================================
