--------------------------- MODULE MCLearnedTree ---------------------------
(***************************************************************************)
(* Instances of LearnedTree for TLC: keys, linear models computed by the   *)
(* code's own formulas, and the calls of each thread.                      *)
(*                                                                         *)
(* The keys from 63 on all clamp to slot 63 of a new map's root, so that   *)
(* they share one child chain, as neighbouring keys of a large map do.     *)
(***************************************************************************)
EXTENDS LearnedTree, LinearModel, TLC

CONSTANTS t1, t2, t3,
          ExpansionHalves   \* Config::expansion_factor, in halves

\* A linear model, tabulated over the keys.
Table(m) ==
    [cap  |-> m.cap,
     slot |-> [k \in Keys |-> predict(m, k)],
     scan |-> SelectSeq([i \in 1..m.cap |-> i - 1],
                        LAMBDA i : \E k \in Keys : predict(m, k) = i)]

\* The models of the code, computed once.
KeySets       == SUBSET Keys \ {{}}
EmptyTable    == Table(EmptyRootModel)
SingleTable   == [k \in Keys |-> Table(SingleEntryModel(k))]
ConflictTable == [a \in Keys |-> [b \in Keys \ {a} |-> Table(ConflictNodeModel(a, b))]]
SubtreeTable  == [S \in KeySets |-> Table(SubtreeModel(S, ExpansionHalves))]
RootTable     == [S \in KeySets |-> Table(RootModel(S, ExpansionHalves))]

MCEmptyModel          == EmptyTable
MCSingleModel(k)      == SingleTable[k]
MCConflictModel(a, b) == ConflictTable[a][b]
MCSubtreeFit(S)       == SubtreeTable[S]
MCRootFit(S)          == RootTable[S]

\* The models of 63..65 spelled out, for tree_live: TLC keeps no tables when it
\* evaluates the fairness conditions.
Spelled(cap, a, b, c, scan) ==
    [cap |-> cap, slot |-> [k \in Keys |-> CASE k = 63 -> a [] k = 64 -> b [] k = 65 -> c],
     scan |-> scan]
LiveSubtreeFit(S) ==
    CASE S = {63, 64, 65} -> Spelled(5, 0, 2, 4, <<0, 2, 4>>)
      [] S = {63, 64}     -> Spelled(3, 0, 2, 2, <<0, 2>>)
      [] S = {63, 65}     -> Spelled(3, 0, 1, 2, <<0, 1, 2>>)
      [] S = {64, 65}     -> Spelled(3, 0, 0, 2, <<0, 2>>)
      [] OTHER            -> Spelled(1, 0, 0, 0, <<0>>)
LiveRootFit(S) ==
    CASE S = {63, 64, 65} -> Spelled(6, 0, 1, 3, <<0, 1, 3>>)
      [] S = {63, 64}     -> Spelled(4, 0, 2, 3, <<0, 2, 3>>)
      [] S = {63, 65}     -> Spelled(4, 0, 1, 2, <<0, 1, 2>>)
      [] S = {64, 65}     -> Spelled(4, 0, 0, 2, <<0, 2>>)
      [] OTHER            -> Spelled(1, 0, 0, 0, <<0>>)
ASSUME SpelledOut ==
    Keys = {63, 64, 65} =>
      \A S \in KeySets :
        LiveSubtreeFit(S) = SubtreeTable[S] /\ LiveRootFit(S) = RootTable[S]

\* Calls.
ins(k) == [op |-> "insert", key |-> k]
rem(k) == [op |-> "remove", key |-> k]
goi(k) == [op |-> "get_or_insert", key |-> k]
get(k) == [op |-> "get", key |-> k]
do(op) == [op |-> op, key |-> 63]

\* Two writers against an insert that rebuilds the subtree they write to, or a
\* rebuild of the root, a clear or a drain: 63 and 64 share a conflict child of
\* the root, and every insert of a new key below the root rebuilds that child.
PWrite ==
    (t1 :> <<{ins(63)}, {ins(64)},
             {ins(65), do("rebuild"), do("clear"), do("drain")}>>) @@
    (t2 :> <<{ins(63), rem(63), ins(65)}>>) @@
    (t3 :> <<{rem(64), rem(65), goi(64)}>>)

\* Rebuilds of both kinds that meet: the insert rebuilds the subtree and then,
\* by the growth of len, the root, while a remove compacts the same subtree.
\* For 63, 64 and 100 FMCD finds no slope that keeps 63 and 64 apart in 5 slots
\* or in 6, so that the rebuilt subtree and the rebuilt root nest a child.
PGrowth ==
    (t1 :> <<{ins(63)}, {ins(64)}, {ins(100)}>>) @@
    (t2 :> <<{rem(63), rem(100)}>>) @@
    (t3 :> <<{goi(64)}>>)

\* Readers under both kinds of rebuild.
PRead ==
    (t1 :> <<{ins(63)}, {ins(64)}, {ins(65)}, {do("rebuild")}>>) @@
    (t2 :> <<{rem(63), ins(64)}>>) @@
    (t3 :> <<{do("iter"), get(63), get(64)}>>)

\* Two threads, for liveness.
PLive ==
    (t1 :> <<{ins(63)}, {ins(64), goi(64)}, {ins(65), rem(63)}, {do("rebuild")}>>) @@
    (t2 :> <<{rem(63), goi(65)}, {ins(64), do("clear")}>>)

\* A reader and an insert that collides with the key being read.
PGet ==
    (t1 :> <<{ins(63)}, {ins(64)}>>) @@
    (t2 :> <<{get(63)}>>)
============================================================================
