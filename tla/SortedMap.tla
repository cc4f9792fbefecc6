----------------------------- MODULE SortedMap -----------------------------
(***************************************************************************)
(* What a LearnedMap promises a program that uses it from one thread: the  *)
(* BTreeMap the fuzz targets (fuzz/fuzz_targets) compare it with.  `last'  *)
(* is the call just made, with its arguments and its answer: every call is *)
(* allowed, its answer and its effect are fixed.                           *)
(***************************************************************************)
EXTENDS Sequences, SequencesExt, FiniteSets

CONSTANTS
    Less(_, _),   \* the order of the keys
    InitialLast   \* `last' before the first call

VARIABLES map, last

\* The pairs of m in key order.
InOrder(m) ==
    LET Rank(k) == Cardinality({j \in DOMAIN m : Less(j, k)})
    IN  [i \in 1..Cardinality(DOMAIN m) |->
           LET k == CHOOSE k \in DOMAIN m : Rank(k) = i - 1
           IN  [key |-> k, val |-> m[k]]]

\* m after inserting a sequence of pairs: the last value of a key counts.
Updated(m, ps) ==
    [k \in DOMAIN m \cup {ps[i].key : i \in DOMAIN ps} |->
       LET at == {i \in DOMAIN ps : ps[i].key = k}
       IN  IF at = {} THEN m[k] ELSE ps[CHOOSE i \in at : \A j \in at : j <= i].val]

Init == map = <<>> /\ last = InitialLast

\* The constructors; the ones that take sorted pairs refuse anything else.
Refusal(ps, strict) ==
    IF ps = <<>> THEN "EmptyData"
    ELSE IF \E i, j \in DOMAIN ps :
              /\ i < j
              /\ Less(ps[j].key, ps[i].key) \/ (strict /\ ps[i].key = ps[j].key)
    THEN "NotSorted" ELSE "Ok"
New == last'.op = "new" /\ map' = <<>>
Load(op, strict) ==
    /\ last'.op = op
    /\ last'.ret = Refusal(last'.arg, strict)
    /\ map' = IF last'.ret = "Ok" THEN Updated(<<>>, last'.arg) ELSE map

Insert ==
    /\ last'.op = "insert"
    /\ last'.ret = (last'.arg.key \notin DOMAIN map)
    /\ map' = Updated(map, <<last'.arg>>)

Extend == last'.op = "extend" /\ map' = Updated(map, last'.arg)

GetOrInsert ==
    LET k == last'.arg.key IN
    /\ last'.op = "get_or_insert"
    /\ map' = IF k \in DOMAIN map THEN map ELSE Updated(map, <<last'.arg>>)
    /\ last'.ret = map'[k]

RemoveKey ==
    /\ last'.op = "remove"
    /\ last'.ret = (last'.arg \in DOMAIN map)
    /\ map' = [k \in DOMAIN map \ {last'.arg} |-> map[k]]

Drain == last'.op = "drain" /\ last'.ret = InOrder(map) /\ map' = <<>>
Clear == last'.op = "clear" /\ map' = <<>>

\* Rebuilding, and writing the map out and reading it back, change nothing.
Same == last'.op \in {"rebuild", "reload"} /\ map' = map

Next ==
    \/ New \/ Load("bulk_load", TRUE) \/ Load("bulk_load_dedup", FALSE)
    \/ Insert \/ Extend \/ GetOrInsert \/ RemoveKey \/ Drain \/ Clear \/ Same

Spec == Init /\ [][Next]_<<map, last>>
=============================================================================
