---------------------------- MODULE LinearModel ----------------------------
(***************************************************************************)
(* The linear models of the index (src/model.rs) and the four ways the     *)
(* tree makes one: for an empty map, for a one-entry child, for a two-entry*)
(* conflict child (src/insert.rs) and by FMCD fitting (src/model.rs).      *)
(*                                                                         *)
(* The code computes with f64.  Every model it builds has the shape        *)
(* slope * (x - origin), with intercept = -slope * origin, so a model is   *)
(* kept here as the rational slope num/den, the origin and the array size. *)
(* For the small integer keys of the runs the products are exact in f64,   *)
(* so that the rational arithmetic and the code agree slot for slot.       *)
(* The f64-collision variants (binary_split, split_key) belong to keys that*)
(* integers of this size never are, and are not part of this module.       *)
(***************************************************************************)
EXTENDS Integers, FiniteSets, FiniteSetsExt

\* MAX_FMCD_CANDIDATES
MaxCandidates == 32

Model(num, den, origin, cap) ==
    [num |-> num, den |-> den, origin |-> origin, cap |-> cap]

\* LinearModel::constant(): slope 0.
ConstantModel(cap) == Model(0, 1, 0, cap)

\* f64::round (half away from zero) of a non-negative rational, and the
\* `.max(0.0)' that sends the negative ones to 0.
RoundMax0(num, den) ==
    IF num <= 0 THEN 0 ELSE (2 * num + den) \div (2 * den)

\* LinearModel::predict / predict_raw: round, then clamp into the array.
predict(m, x) ==
    LET pos == RoundMax0(m.num * (x - m.origin), m.den)
    IN  IF pos < m.cap THEN pos ELSE m.cap - 1

\* The root of LearnedMap::with_config, and of clear and drain: 64 slots,
\* slope 1, intercept 0.
EmptyRootModel == Model(1, 1, 0, 64)

\* build_single_entry_child: two slots, slope 1, the key itself in slot 0.
SingleEntryModel(k) == Model(1, 1, k, 2)

\* build_conflict_node: four slots, the smaller key in slot 0, the larger in 3.
ConflictNodeModel(k1, k2) ==
    LET lo == IF k1 < k2 THEN k1 ELSE k2
        hi == IF k1 < k2 THEN k2 ELSE k1
    IN  Model(3, hi - lo, lo, 4)

\* The pairs of neighbours among the keys of S in their sorted order.
Adjacent(S) ==
    {ab \in S \X S : ab[1] < ab[2] /\ \A c \in S : c <= ab[1] \/ ab[2] <= c}

\* count_conflicts_fast: neighbours that share a slot.
count_conflicts_fast(m, S) ==
    Cardinality({ab \in Adjacent(S) : predict(m, ab[1]) = predict(m, ab[2])})

Ceil(num, den) == (num + den - 1) \div den

(***************************************************************************)
(* fit_fmcd over a non-empty set S of keys; `factor' is the expansion      *)
(* factor in halves, `headroom' the range headroom.  Linear interpolation  *)
(* if it has no conflicts; otherwise the best of it and of the slopes      *)
(* j / max_gap up to max_slope, the first of equals.                       *)
(***************************************************************************)
ArraySize(S, factor, headroom) ==
    LET n == Cardinality(S) IN Max({n, Ceil(n * factor * (1 + headroom), 2)})

LinearFit(S, cap, headroom) ==
    Model(cap - 1, (Max(S) - Min(S)) * (1 + headroom), Min(S), cap)

GapFit(S, cap, j) ==
    Model(j, Max({ab[2] - ab[1] : ab \in Adjacent(S)}), Min(S), cap)

CandidateFit(S, cap, headroom) ==
    LET max_gap  == Max({ab[2] - ab[1] : ab \in Adjacent(S)})
        slopes   == {j \in 1..MaxCandidates :
                       j * (Max(S) - Min(S)) <= (cap - 1) * max_gap}
        cand(j)  == IF j = 0 THEN LinearFit(S, cap, headroom) ELSE GapFit(S, cap, j)
        costs    == {<<count_conflicts_fast(cand(j), S), j>> : j \in slopes \cup {0}}
        best     == CHOOSE c \in costs : \A d \in costs :
                      c[1] < d[1] \/ (c[1] = d[1] /\ c[2] <= d[2])
    IN  cand(best[2])

fit_fmcd(S, factor, headroom) ==
    LET cap    == ArraySize(S, factor, headroom)
        linear == LinearFit(S, cap, headroom)
    IN  IF Cardinality(S) = 1 THEN ConstantModel(1)
        ELSE IF count_conflicts_fast(linear, S) = 0 THEN linear
        ELSE CandidateFit(S, cap, headroom)

\* try_rebuild_subtree: the expansion factor boosted by 1.5, at most 4.0.
SubtreeModel(S, factor) ==
    fit_fmcd(S, Min({(3 * factor) \div 2, 8}), 0)

\* LearnedMap::rebuild: the configured factor with a range headroom of 1.0.
RootModel(S, factor) == fit_fmcd(S, factor, 1)
=============================================================================
