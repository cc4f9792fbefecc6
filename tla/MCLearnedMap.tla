---------------------------- MODULE MCLearnedMap ----------------------------
(***************************************************************************)
(* An instance of LearnedMap for TLC.  An f64 of three bits makes 16, 17   *)
(* and 18 coincide, and 19, 20 and 21; one byte of model input and two of  *)
(* ordinal make strings coincide in either.                                *)
(***************************************************************************)
EXTENDS LearnedMap

Ints(t, ns) == {IntKey(t, n) : n \in ns}
Strings(bs) == {BytesKey(b) : b \in bs}

MCUniverse ==
    [t \in KeyTypes |->
       CASE t = "u64"   -> Ints(t, {2, 16, 17, 18, 20})
         [] t = "i64"   -> Ints(t, {-17, -16, -1, 0, 3})
         [] t = "u128"  -> Ints(t, {3, 15, 16, 17, 18})
         [] t = "bytes" -> Strings({<<1>>, <<1, 0>>, <<1, 2>>, <<1, 2, 1>>, <<2>>})]

\* The keys of t in order.
AllKeys(t) ==
    LET U == MCUniverse[t]
    IN  [i \in 1..Cardinality(U) |->
           CHOOSE k \in U : Cardinality({j \in U : Less(j, k)}) = i - 1]

\* All keys, some, one; with duplicates; and what is refused.
MCLoads ==
    [t \in KeyTypes |->
       LET s == AllKeys(t) IN
       { s, <<s[2], s[3], s[5]>>, <<s[2]>>, <<s[1], s[1], s[4], s[4]>>,
         <<s[2], s[1]>>, <<>> }]

MCBatches == [t \in KeyTypes |-> LET s == AllKeys(t) IN {<<s[4], s[2], s[3], s[4]>>}]

Config(factor, headroom, auto, depth, tomb) ==
    [factor |-> factor, headroom |-> headroom, auto_rebuild |-> auto,
     depth |-> depth, tomb |-> tomb]

MCConfigs == {DefaultConfig, Config(2, 0, TRUE, 0, 10)}

\* No action reads `last', and `found' is a function of the tree: states that
\* differ in the call that led to them have the same futures.
View == <<ty, made, config, root, len, next_root_rebuild, calls>>
=============================================================================
