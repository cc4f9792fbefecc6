--------------------------- MODULE LearnedTreeWalks ---------------------------
(***************************************************************************)
(* Proofs about the walks of LearnedTree's calls, for every set of threads,*)
(* keys and programs, every configuration and every family of models.      *)
(*                                                                         *)
(* Where a walk of a key ends below a node is its leaf, and what that slot *)
(* holds is the value of the key there.  Most steps change no value; the   *)
(* three that write an entry change it for the call's key and the nodes    *)
(* whose walks end where the call stands, and for nothing else.            *)
(*                                                                         *)
(* A writer validates against one pointer, that in the root's slot of its  *)
(* key.  So each node that is not a root, present or past, has a home: the *)
(* child of a root that it is below.  The function H gives the homes, as R *)
(* of LearnedTreeRouting gives the keys; the invariant says that both exist*)
(* and that a writer which has entered a child is below it.                *)
(***************************************************************************)
EXTENDS LearnedTreeRouting
-----------------------------------------------------------------------------
(***************************************************************************)
(* What a walk finds: the leaf and the value of a key below a node.        *)
(***************************************************************************)
\* The node at which a call of key k that starts at node n writes or reads.
Leaf(k) ==
    LET leaf[n \in Nodes] ==
          LET c == predict_slot(n, k) IN
          IF IsChild(st[c]) THEN leaf[ptr[c].node] ELSE n
    IN  leaf

\* The slot holds an entry, also while an insert that moves it to a child owns
\* the slot.
ClaimedData(c) ==
    \E p \in Threads : pc[p] = "publish" /\ Here(p) = c /\ walk[p].from = "DATA"
Holding(c) == st[c] = "DATA" \/ ClaimedData(c)
ValueAt(c, k) == IF Holding(c) /\ inline[c].key = k THEN inline[c].val ELSE Nil

\* What the tree from node n on holds for key k.
Value(k, n) == ValueAt(predict_slot(Leaf(k)[n], k), k)

\* One level of that walk, where f says where the walks of the children end.
LeafOf(k, f, n) ==
    LET c == predict_slot(n, k) IN IF IsChild(st[c]) THEN f[ptr[c].node] ELSE n

\* What a walk of key k does at each node.
LeafSpec == \A k \in Keys : \A n \in Nodes : Leaf(k)[n] = LeafOf(k, Leaf(k), n)

\* Where it may go from a slot.
LEMMA ChildFacts ==
    ASSUME IInv, OwnInv, NEW k \in Keys, NEW n \in Nodes,
           NEW c, c = predict_slot(n, k)
    PROVE  /\ c \in SlotCells /\ c \in Cells /\ c # RootCell /\ c[1] = n
           /\ IsChild(st[c]) => /\ ptr[c].node \in Nodes /\ ptr[c].node # Nil
                                /\ ptr[c].node \in (n + 1)..MaxNodes
                                /\ ptr[c].node <= used
                                /\ n <= used
<1>1. c \in SlotsOf(n) /\ c \in SlotCells /\ c[1] = n
  BY PredictCell DEF IInv, SlotsOf, SlotCells
<1>2. IsChild(st[c]) => ptr[c].node \in Nodes /\ ptr[c].node \in (n + 1)..MaxNodes
  BY <1>1, SlotFacts
<1>3. Nil \notin Nodes
  BY ConstantsAssumption
<1>4. IsChild(st[c]) => ptr[c].node <= used /\ c[1] <= used
  BY <1>1, <1>2, <1>3, Allocated
<1> QED BY <1>1, <1>2, <1>3, <1>4, CellFacts

\* Every walk ends.
LEMMA LeafSolved == IInv /\ OwnInv => LeafSpec
<1> SUFFICES ASSUME IInv, OwnInv, NEW k \in Keys
             PROVE  \A n \in Nodes : Leaf(k)[n] = LeafOf(k, Leaf(k), n)
  BY DEF LeafSpec
<1> DEFINE Solves(f) == f = [n \in Nodes |-> LeafOf(k, f, n)]
           F == [n \in Nodes |-> [f \in [Nodes -> Nodes] |-> LeafOf(k, f, n)]]
<1>1. Leaf(k) = CHOOSE f : Solves(f)
  BY DEF Leaf, LeafOf
<1>2. Nodes = 1..MaxNodes /\ MaxNodes \in Nat /\ 1 \in Nodes
  BY UsedFacts DEF IInv
<1>3. F \in [Nodes -> [[Nodes -> Nodes] -> Nodes]]
  <2> SUFFICES ASSUME NEW n \in Nodes, NEW f \in [Nodes -> Nodes]
               PROVE  LeafOf(k, f, n) \in Nodes
    OBVIOUS
  <2> QED BY ChildFacts DEF LeafOf
<1>4. \A i \in Nodes : \A f, g \in [Nodes -> Nodes] :
        (\A j \in (i + 1)..MaxNodes : f[j] = g[j]) => F[i][f] = F[i][g]
  <2> SUFFICES ASSUME NEW i \in Nodes, NEW f \in [Nodes -> Nodes],
                      NEW g \in [Nodes -> Nodes],
                      \A j \in (i + 1)..MaxNodes : f[j] = g[j]
               PROVE  F[i][f] = F[i][g]
    OBVIOUS
  <2>1. LeafOf(k, f, i) = LeafOf(k, g, i)
    BY ChildFacts DEF LeafOf
  <2> QED BY <2>1
<1>5. PICK f \in [Nodes -> Nodes] : \A i \in Nodes : f[i] = F[i][f]
  <2> HIDE DEF F
  <2>1. Recursion(MaxNodes, Nodes, F)
    BY <1>2, <1>3, <1>4 DEF Recursion, Nodes
  <2>2. \E f : Solution(MaxNodes, Nodes, F, f)
    BY <1>2, <2>1, Solvable
  <2> QED BY <1>2, <2>2 DEF Solution
<1>6. Solves(f)
  <2>1. \A i \in Nodes : f[i] = LeafOf(k, f, i)
    BY <1>5
  <2> QED BY <2>1
<1>7. Solves(Leaf(k))
  <2> HIDE DEF Solves
  <2> QED BY <1>1, <1>6, Zenon
<1> DEFINE leaf == Leaf(k)
<1>8. Solves(leaf)
  BY <1>7
<1> HIDE DEF leaf
<1>9. \A n \in Nodes : leaf[n] = LeafOf(k, leaf, n)
  BY <1>8
<1> QED BY <1>9 DEF leaf

\* It ends at an allocated node where the key's slot is not a child slot.
Ends(k, n) ==
    /\ Leaf(k)[n] \in Nodes /\ Leaf(k)[n] >= n
    /\ ~IsChild(st[predict_slot(Leaf(k)[n], k)])
    /\ Leaf(k)[Leaf(k)[n]] = Leaf(k)[n]
    /\ n <= used => Leaf(k)[n] <= used

\* A walk that starts at a node ends below it, at a slot that holds no child: the
\* loops of insert.rs, remove.rs and lookup.rs end.
LEMMA LeafEnds ==
    ASSUME IInv, OwnInv, NEW k \in Keys, NEW n \in Nodes
    PROVE  Ends(k, n)
<1> DEFINE S == {i \in Nodes : Ends(k, i)}
<1>1. Nodes = 1..MaxNodes /\ MaxNodes \in Nat /\ used \in Nat
  BY UsedFacts DEF IInv
<1>2. ASSUME NEW i \in 1..MaxNodes, \A j \in (i + 1)..MaxNodes : j \in S
      PROVE  i \in S
  <2> DEFINE c == predict_slot(i, k)
  <2>1. Leaf(k)[i] = IF IsChild(st[c]) THEN Leaf(k)[ptr[c].node] ELSE i
    BY <1>1, LeafSolved DEF LeafSpec, LeafOf
  <2>2. CASE IsChild(st[c])
    <3>1. /\ ptr[c].node \in Nodes /\ ptr[c].node \in (i + 1)..MaxNodes
          /\ ptr[c].node <= used
      BY <1>1, <2>2, ChildFacts
    <3>2. Ends(k, ptr[c].node)
      BY <1>2, <3>1
    <3> QED BY <1>1, <2>1, <2>2, <3>1, <3>2 DEF Ends
  <2>3. CASE ~IsChild(st[c])
    BY <1>1, <2>1, <2>3 DEF Ends
  <2> QED BY <2>2, <2>3
<1>3. 1..MaxNodes \subseteq S
  <2> HIDE DEF S
  <2> QED BY <1>1, <1>2, Downwards
<1> QED BY <1>1, <1>3

\* Every walk ends, in every node.
LeafEverywhere == \A k \in Keys : \A n \in Nodes : Ends(k, n)

\* Both, as facts to cite of a state and of the next one.
LEMMA LeafNow == IInv /\ OwnInv => LeafSpec /\ LeafEverywhere
BY LeafSolved, LeafEnds DEF LeafEverywhere

\* The same of the state after a step.
LEMMA LeafNext == IInv' /\ OwnInv' => LeafSpec' /\ LeafEverywhere'
BY LeafNow, PTL

\* The step leaves the models and, but for slot d, the paths of the allocated
\* nodes alone.
PathsKept(d) ==
    /\ \A n \in 1..used : model'[n] = model[n]
    /\ \A c \in SlotCells : c[1] <= used /\ c # d =>
         /\ IsChild(st'[c]) <=> IsChild(st[c])
         /\ ptr'[c].node = ptr[c].node

\* One level of a walk, before and after such a step.
LEMMA LeafTwice ==
    ASSUME IInv, OwnInv, IInv', OwnInv', NEW d, PathsKept(d), NEW k \in Keys,
           NEW n \in 1..used, NEW c, c = predict_slot(n, k)
    PROVE  /\ n \in Nodes /\ predict_slot(n, k)' = c /\ c[1] = n /\ c \in SlotCells
           /\ Leaf(k)[n] = IF IsChild(st[c]) THEN Leaf(k)[ptr[c].node] ELSE n
           /\ Leaf(k)'[n] = IF IsChild(st'[c]) THEN Leaf(k)'[ptr'[c].node] ELSE n
           /\ c # d => /\ IsChild(st'[c]) <=> IsChild(st[c])
                       /\ ptr'[c].node = ptr[c].node
           /\ IsChild(st[c]) => ptr[c].node \in (n + 1)..used
<1>1. used \in 1..MaxNodes /\ MaxNodes \in Nat /\ Nodes = 1..MaxNodes
  BY UsedFacts DEF IInv
<1>2. n \in Nodes
  BY <1>1
<1>3. c \in SlotCells /\ c[1] = n
  BY <1>2, ChildFacts
<1>4. predict_slot(n, k)' = c
  BY DEF PathsKept, predict_slot
<1>5. Leaf(k)[n] = IF IsChild(st[c]) THEN Leaf(k)[ptr[c].node] ELSE n
  BY <1>2, LeafNow DEF LeafSpec, LeafOf
<1>6. Leaf(k)'[n] = IF IsChild(st'[c]) THEN Leaf(k)'[ptr'[c].node] ELSE n
  <2>1. LeafSpec'
    BY LeafNext
  <2>2. Leaf(k)'[n] = LeafOf(k, Leaf(k), n)'
    BY <1>2, <2>1 DEF LeafSpec
  <2> QED BY <1>4, <2>2 DEF LeafOf, IsChild
<1>7. c # d => /\ IsChild(st'[c]) <=> IsChild(st[c])
               /\ ptr'[c].node = ptr[c].node
  BY <1>3 DEF PathsKept
<1>8. IsChild(st[c]) => ptr[c].node \in (n + 1)..used
  <2> SUFFICES ASSUME IsChild(st[c]) PROVE ptr[c].node \in (n + 1)..used
    OBVIOUS
  <2>1. ptr[c].node \in (n + 1)..MaxNodes /\ ptr[c].node <= used
    BY <1>2, ChildFacts
  <2> QED BY <1>1, <2>1
<1> QED BY <1>2, <1>3, <1>4, <1>5, <1>6, <1>7, <1>8

\* A step that changes no path.
LEMMA LeafKept ==
    ASSUME IInv, OwnInv, IInv', OwnInv', PathsKept(RootCell), NEW k \in Keys
    PROVE  \A n \in 1..used : Leaf(k)'[n] = Leaf(k)[n]
<1> DEFINE S == {n \in 1..used : Leaf(k)'[n] = Leaf(k)[n]}
<1>1. used \in Nat
  BY UsedFacts DEF IInv
<1>2. ASSUME NEW n \in 1..used, \A j \in (n + 1)..used : j \in S
      PROVE  n \in S
  <2>1. PICK c : c = predict_slot(n, k)
    OBVIOUS
  <2>2. c # RootCell
    BY <2>1, LeafTwice, CellFacts
  <2> QED BY <1>2, <2>1, <2>2, LeafTwice
<1>3. 1..used \subseteq S
  <2> HIDE DEF S
  <2> QED BY <1>1, <1>2, Downwards
<1> QED BY <1>3

\* A step that makes slot d a child slot, with a new node below it.
LEMMA LeafGrown ==
    ASSUME IInv, OwnInv, IInv', OwnInv', NEW d, PathsKept(d),
           ~IsChild(st[d]), IsChild(st'[d]), ptr'[d].node = Fresh, NEW k \in Keys,
           Leaf(k)'[Fresh] = Fresh
    PROVE  \A n \in 1..used :
             Leaf(k)'[n] = IF predict_slot(Leaf(k)[n], k) = d THEN Fresh
                                                              ELSE Leaf(k)[n]
<1> DEFINE After(n) == IF predict_slot(Leaf(k)[n], k) = d THEN Fresh ELSE Leaf(k)[n]
           S == {n \in 1..used : Leaf(k)'[n] = After(n)}
<1>1. used \in Nat
  BY UsedFacts DEF IInv
<1>2. ASSUME NEW n \in 1..used, \A j \in (n + 1)..used : j \in S
      PROVE  n \in S
  <2>1. PICK c : c = predict_slot(n, k)
    OBVIOUS
  <2>2. CASE c = d
    BY <1>2, <2>1, <2>2, LeafTwice
  <2>3. CASE c # d
    BY <1>2, <2>1, <2>3, LeafTwice
  <2> QED BY <2>2, <2>3
<1>3. 1..used \subseteq S
  <2> HIDE DEF S
  <2> QED BY <1>1, <1>2, Downwards
<1> QED BY <1>3

\* A step that replaces the node below child slot d of a node with no parent.
LEMMA LeafSwapped ==
    ASSUME IInv, OwnInv, IInv', OwnInv', NEW d, PathsKept(d),
           IsChild(st'[d]), ptr'[d].node = Fresh, NEW k \in Keys,
           \A c \in SlotCells : ptr[c].node # d[1],
           NEW x, x = Fresh
    PROVE  \A n \in 1..used :
             Leaf(k)'[n] = IF predict_slot(n, k) = d THEN Leaf(k)'[x] ELSE Leaf(k)[n]
<1> DEFINE After(n) == IF predict_slot(n, k) = d THEN Leaf(k)'[x] ELSE Leaf(k)[n]
           S == {n \in 1..used : Leaf(k)'[n] = After(n)}
<1>1. used \in Nat
  BY UsedFacts DEF IInv
<1>2. ASSUME NEW n \in 1..used, \A j \in (n + 1)..used : j \in S
      PROVE  n \in S
  <2>1. PICK c : c = predict_slot(n, k)
    OBVIOUS
  <2>2. CASE c = d
    BY <1>2, <2>1, <2>2, LeafTwice
  <2>3. CASE c # d /\ IsChild(st[c])
    <3>1. ptr[c].node \in (n + 1)..used /\ ptr[c].node \in 1..used
      BY <1>1, <2>1, <2>3, LeafTwice
    <3>2. Leaf(k)'[ptr[c].node] = After(ptr[c].node)
      BY <1>2, <3>1
    <3>3. predict_slot(ptr[c].node, k) # d
      <4>1. c \in SlotCells
        BY <2>1, LeafTwice
      <4>2. predict_slot(ptr[c].node, k)[1] = ptr[c].node
        BY <3>1, LeafTwice
      <4> QED BY <4>1, <4>2
    <3> QED BY <2>1, <2>3, <3>2, <3>3, LeafTwice
  <2>4. CASE c # d /\ ~IsChild(st[c])
    BY <2>1, <2>4, LeafTwice
  <2> QED BY <2>2, <2>3, <2>4
<1>3. 1..used \subseteq S
  <2> HIDE DEF S
  <2> QED BY <1>1, <1>2, Downwards
<1> QED BY <1>3
-----------------------------------------------------------------------------
(***************************************************************************)
(* What steps do to walks and values: most steps write no entry, and three do.*)
(***************************************************************************)
\* What the earlier modules say of a step.
LEMMA StepBase ==
    ASSUME IInv, OwnInv, NEW p \in Threads, Begin(p) \/ Step(p)
    PROVE  IInv' /\ OwnInv' /\ TypeOK' /\ TreeStep(p) /\ Frame(p) /\ Grows
<1>1. [Next]_vars
  BY DEF Next
<1>2. IInv'
  BY <1>1, NextInv
<1>3. OwnInv'
  BY OwnStep
<1>4. TypeOK' /\ TreeStep(p)
  BY StepTypes
<1>5. Frame(p)
  BY StepFrame DEF IInv, TypeOK
<1> QED BY <1>2, <1>3, <1>4, <1>5 DEF TreeStep

\* The slot another thread has claimed stays the slot it has claimed.
Claimed(q, c) == pc[q] = "publish" /\ Here(q) = c /\ walk[q].from = "DATA"

\* Only the thread itself takes or gives up its claim on a slot.
LEMMA ClaimsOfOthers ==
    ASSUME IInv, NEW p \in Threads, Grows, Frame(p), NEW q \in Threads \ {p}, NEW c
    PROVE  Claimed(q, c)' <=> Claimed(q, c)
<1>1. pc'[q] = pc[q] /\ walk'[q] = walk[q] /\ call'[q] = call[q]
  BY DEF Frame
<1>2. Here(q)' = Here(q)
  BY <1>1, HereStable
<1> QED BY <1>1, <1>2 DEF Claimed

\* A step that neither takes nor ends such a claim leaves the slot's as it is.
LEMMA ClaimsKept ==
    ASSUME IInv, NEW p \in Threads, Grows, Frame(p), NEW c,
           pc[p] # "publish" \/ Here(p) # c,
           pc'[p] # "publish" \/ Here(p)' # c \/ walk'[p].from # "DATA"
    PROVE  ClaimedData(c)' <=> ClaimedData(c)
<1>1. ClaimedData(c) <=> \E q \in Threads : Claimed(q, c)
  BY DEF ClaimedData, Claimed
<1>2. ClaimedData(c)' <=> \E q \in Threads : Claimed(q, c)'
  BY DEF ClaimedData, Claimed
<1>3. ~Claimed(p, c) /\ ~Claimed(p, c)'
  BY DEF Claimed
<1>4. \A q \in Threads \ {p} : Claimed(q, c)' <=> Claimed(q, c)
  BY ClaimsOfOthers
<1> QED BY <1>1, <1>2, <1>3, <1>4

\* A step that changes neither a path nor what a slot holds.
LEMMA ValueKept ==
    ASSUME IInv, OwnInv, IInv', OwnInv', PathsKept(RootCell), NEW k \in Keys,
           \A c \in SlotCells : c[1] <= used => ValueAt(c, k)' = ValueAt(c, k)
    PROVE  \A n \in 1..used : Value(k, n)' = Value(k, n)
<1> SUFFICES ASSUME NEW n \in 1..used PROVE Value(k, n)' = Value(k, n)
  OBVIOUS
<1>1. used \in 1..MaxNodes /\ Nodes = 1..MaxNodes /\ MaxNodes \in Nat
  BY UsedFacts DEF IInv
<1>2. Leaf(k)'[n] = Leaf(k)[n]
  BY LeafKept
<1>3. Leaf(k)[n] \in 1..used
  BY <1>1, LeafEnds DEF Ends
<1>8. PICK c : c = predict_slot(Leaf(k)[n], k)
  OBVIOUS
<1>4. c \in SlotCells /\ c[1] <= used
  BY <1>1, <1>3, <1>8, PredictCell DEF IInv
<1>5. predict_slot(Leaf(k)[n], k)' = c
  BY <1>2, <1>3, <1>8 DEF PathsKept, predict_slot
<1>6. Value(k, n)' = ValueAt(c, k)'
  BY <1>5 DEF Value, ValueAt, Holding, ClaimedData
<1>7. ValueAt(c, k)' = ValueAt(c, k)
  BY <1>4
<1> QED BY <1>6, <1>7, <1>8 DEF Value

\* The steps that are no write of a call and no swap of a rebuild.
Quiet(p) == LocalStep(p) \/ Claim(p) \/ Freeze(p) \/ Unfreeze(p)

\* Local steps are of threads that have not claimed a slot.
LEMMA LocalUnclaimed ==
    ASSUME IInv, NEW p \in Threads, LocalStep(p) \/ Freeze(p) \/ Unfreeze(p)
    PROVE  pc[p] # "publish" /\ pc'[p] # "publish"
<1>1. pc \in [Threads -> PcValues]
  BY DEF IInv, TypeOK, ThreadTypes
<1> USE DEF Goto
<1>2. CASE Begin(p)
  <2>1. pc'[p] \in {"root", "read_root", "rb_load"}
    BY <1>1, <1>2 DEF Begin, StartRebuild
  <2> QED BY <1>2, <2>1 DEF Begin
<1>3. CASE Validate(p) \/ CheckRatio(p) \/ AdvanceThreshold(p)
  BY <1>1, <1>3 DEF Validate, CheckRatio, AdvanceThreshold, StartRebuild, AfterTrigger
<1>4. CASE Return(p) \/ LoadRoot(p) \/ Descend(p) \/ RemoveMiss(p) \/ GetExisting(p)
           \/ LoadOwn(p) \/ Recheck(p) \/ Count(p) \/ CheckGrowth(p)
  BY <1>1, <1>4 DEF Return, LoadRoot, Descend, RemoveMiss, GetExisting, LoadOwn,
     Recheck, Count, CheckGrowth
<1>5. CASE ReadRoot(p) \/ ReadStep(p) \/ ScanStep(p) \/ ScanEnd(p)
  BY <1>1, <1>5 DEF ReadRoot, ReadStep, ScanStep, ScanEnd
<1>6. CASE LoadVictim(p) \/ ResetCounters(p) \/ Freeze(p) \/ Unfreeze(p)
  BY <1>1, <1>6 DEF LoadVictim, ResetCounters, Freeze, Unfreeze, GiveUp, Caller,
     AfterTrigger
<1> QED BY <1>2, <1>3, <1>4, <1>5, <1>6 DEF LocalStep

\* Quiet steps change no model, no entry and no node behind a pointer, and no state
\* of a slot but by the CAS to WRITING.
LEMMA QuietTree ==
    ASSUME IInv, NEW p \in Threads, Quiet(p), TypeOK'
    PROVE  /\ UNCHANGED <<model, inline, used>>
           /\ \A c \in Cells : ptr'[c].node = ptr[c].node
           /\ \A c \in SlotCells : st'[c] = st[c] \/ (Claim(p) /\ c = Here(p))
<1>1. TypeOK /\ FreezeExclusive
  BY DEF IInv
<1>2. CASE LocalStep(p)
  BY <1>2, LocalCore DEF core
<1>3. CASE Claim(p)
  BY <1>1, <1>3 DEF Claim, TypeOK, TreeTypes
<1>4. CASE Freeze(p) \/ Unfreeze(p)
  <2>1. UNCHANGED <<model, inline, used, st>>
    BY <1>4 DEF Freeze, Unfreeze
  <2>2. rb[p].cell \in Cells
    BY <1>1 DEF TypeOK, ThreadTypes, Scans
  <2>3. \A c \in Cells : ptr'[c].node = ptr[c].node
    <3>1. CASE Freeze(p) /\ StillUnfrozen(p)
      <4>1. ptr' = [ptr EXCEPT ![rb[p].cell] = Frozen(rb[p].victim)]
        BY <3>1 DEF Freeze
      <4>2. ptr[rb[p].cell].node = rb[p].victim
        BY <3>1 DEF StillUnfrozen, Plain
      <4> QED BY <1>1, <2>2, <4>1, <4>2 DEF TypeOK, TreeTypes, Frozen
    <3>2. CASE Freeze(p) /\ ~StillUnfrozen(p)
      BY <3>2 DEF Freeze
    <3>3. CASE Unfreeze(p)
      <4>1. ptr[rb[p].cell] = Frozen(rb[p].victim)
        BY <1>1, <3>3 DEF Unfreeze, Freezing, FreezeExclusive
      <4>2. ptr' = [ptr EXCEPT ![rb[p].cell] = Plain(rb[p].victim)]
        BY <3>3, <4>1 DEF Unfreeze
      <4> QED BY <1>1, <2>2, <4>1, <4>2 DEF TypeOK, TreeTypes, Plain, Frozen
    <3> QED BY <1>4, <3>1, <3>2, <3>3
  <2> QED BY <2>1, <2>3
<1> QED BY <1>2, <1>3, <1>4 DEF Quiet

\* They change no value.
LEMMA QuietHolding ==
    ASSUME IInv, IInv', NEW p \in Threads, Quiet(p), TypeOK', Grows, Frame(p),
           NEW c \in SlotCells
    PROVE  Holding(c)' <=> Holding(c)
<1>1. st'[c] = st[c] \/ (Claim(p) /\ c = Here(p))
  BY QuietTree
<1>2. CASE ~Claim(p)
  <2>1. pc[p] # "publish" /\ pc'[p] # "publish"
    BY <1>2, LocalUnclaimed DEF Quiet
  <2>2. ClaimedData(c)' <=> ClaimedData(c)
    BY <2>1, ClaimsKept
  <2>3. st'[c] = st[c]
    BY <1>1, <1>2
  <2> QED BY <2>2, <2>3 DEF Holding
<1>3. CASE Claim(p)
  <2>1. pc \in [Threads -> PcValues] /\ walk \in [Threads -> Walks]
        /\ st \in [SlotCells -> SlotStates]
    BY DEF IInv, TypeOK, ThreadTypes, TreeTypes
  <2>2. /\ pc[p] = "slot" /\ st[Here(p)] \in Claimable
        /\ st' = [st EXCEPT ![Here(p)] = ClaimedState]
        /\ walk' = [walk EXCEPT ![p].from = st[Here(p)]]
        /\ pc' = [pc EXCEPT ![p] = "publish"] /\ UNCHANGED <<call, model>>
    BY <1>3 DEF Claim, Goto
  <2>3. /\ walk'[p].cur = walk[p].cur /\ walk'[p].from = st[Here(p)]
        /\ pc'[p] = "publish"
    BY <2>1, <2>2 DEF Walks
  <2>4. Here(p)' = Here(p)
    BY <2>2, <2>3 DEF Here, predict_slot
  <2>5. CASE c # Here(p)
    <3>1. ClaimedData(c)' <=> ClaimedData(c)
      BY <2>4, <2>5, ClaimsKept
    <3>2. st'[c] = st[c]
      BY <1>1, <2>5
    <3> QED BY <3>1, <3>2 DEF Holding
  <2>6. CASE c = Here(p) /\ st[c] = "DATA"
    <3>1. ClaimedData(c)'
      BY <2>3, <2>4, <2>6 DEF ClaimedData
    <3> QED BY <2>6, <3>1 DEF Holding
  <2>7. CASE c = Here(p) /\ st[c] # "DATA"
    <3>1. st[c] # "WRITING"
      BY <2>2, <2>7 DEF Claimable
    <3>2. ~ClaimedData(c)
      BY <3>1 DEF ClaimedData, IInv, SlotExclusive
    <3>3. ClaimedData(c)' <=> ClaimedData(c)
      BY <2>2, <2>3, <2>7, ClaimsKept
    <3>4. st'[c] # "DATA"
      BY <2>1, <2>2, <2>7 DEF ClaimedState
    <3> QED BY <2>7, <3>2, <3>3, <3>4 DEF Holding
  <2> QED BY <2>5, <2>6, <2>7
<1> QED BY <1>2, <1>3

\* So no walk changes its way.
LEMMA QuietPaths ==
    ASSUME IInv, NEW p \in Threads, Quiet(p), TypeOK', Grows
    PROVE  PathsKept(RootCell)
<1>1. \A n \in 1..used : model'[n] = model[n]
  BY DEF Grows
<1>2. ASSUME NEW c \in SlotCells
      PROVE  (IsChild(st'[c]) <=> IsChild(st[c])) /\ ptr'[c].node = ptr[c].node
  <2>1. ptr'[c].node = ptr[c].node
    BY QuietTree, CellFacts
  <2>2. Claim(p) => st' = [st EXCEPT ![Here(p)] = ClaimedState] /\ st[Here(p)] \in Claimable
    BY DEF Claim
  <2>3. st \in [SlotCells -> SlotStates]
    BY DEF IInv, TypeOK, TreeTypes
  <2> QED BY <2>1, <2>2, <2>3, QuietTree DEF IsChild, ClaimedState, Claimable
<1> QED BY <1>1, <1>2 DEF PathsKept

\* And no value below an allocated node changes: a freeze and a CAS to WRITING keep
\* the old entry in place.
LEMMA QuietValues ==
    ASSUME IInv, OwnInv, IInv', OwnInv', NEW p \in Threads, Quiet(p), TypeOK',
           Grows, Frame(p), NEW k \in Keys
    PROVE  \A n \in 1..used : /\ Value(k, n)' = Value(k, n)
                              /\ Leaf(k)'[n] = Leaf(k)[n]
<1>1. PathsKept(RootCell)
  BY QuietPaths
<1>2. ASSUME NEW c \in SlotCells
      PROVE  ValueAt(c, k)' = ValueAt(c, k)
  <2>1. Holding(c)' <=> Holding(c)
    BY QuietHolding
  <2>2. inline' = inline
    BY QuietTree
  <2> QED BY <2>1, <2>2 DEF ValueAt
<1> QED BY <1>1, <1>2, ValueKept, LeafKept

\* What a new node holds.
LEMMA NewValue ==
    ASSUME IInv, OwnInv, IInv', OwnInv', NEW m \in Models, NEW E \in SUBSET Entries,
           AddNode(m, E),
           \A c \in SlotCells : c[1] = Fresh => st'[c] = StatesWith(m, E)[c],
           \A e, f \in E : m.slot[e.key] = m.slot[f.key] => e.key = f.key,
           NEW k \in Keys, NEW x, x = Fresh
    PROVE  /\ Leaf(k)'[x] = x
           /\ \/ Value(k, x)' = Nil /\ \A e \in E : e.key # k
              \/ \E e \in E : e.key = k /\ Value(k, x)' = e.val
<1> DEFINE at(e) == <<Fresh, m.slot[e.key]>>
           filled == {at(e) : e \in E}
<1>1. /\ TypeOK /\ used \in 1..MaxNodes /\ MaxNodes \in Nat /\ Nodes = 1..MaxNodes
      /\ Fresh = used + 1 /\ Fresh \in Nodes
  BY UsedFacts DEF IInv, AddNode
<1>2. /\ model' = [model EXCEPT ![Fresh] = m]
      /\ inline' = [c \in SlotCells |->
                      IF c \in filled THEN CHOOSE e \in E : at(e) = c
                                      ELSE inline[c]]
  BY DEF AddNode
<1>3. PICK c : c = <<Fresh, m.slot[k]>>
  OBVIOUS
<1>4. m.slot[k] \in Slots /\ c \in SlotCells /\ c[1] = Fresh
  BY <1>1, <1>3 DEF Models, SlotCells
<1>8. predict_slot(x, k)' = c
  BY <1>1, <1>2, <1>3 DEF TypeOK, TreeTypes, predict_slot
<1>9. st[c] = "EMPTY"
  BY <1>1, <1>4 DEF IInv, TreeInv
<1>10. st'[c] = IF c \in filled THEN "DATA" ELSE "EMPTY"
  <2>1. st'[c] = StatesWith(m, E)[c]
    BY <1>4
  <2> QED BY <1>4, <1>9, <2>1 DEF StatesWith
<1>11. ~ClaimedData(c)'
  <2>1. SlotExclusive'
    BY DEF IInv
  <2> QED BY <1>10, <2>1 DEF ClaimedData, SlotExclusive
<1>12. Leaf(k)'[x] = x
  <2>1. LeafSpec'
    BY LeafNext
  <2>2. Leaf(k)'[x] = LeafOf(k, Leaf(k), x)'
    BY <1>1, <2>1 DEF LeafSpec
  <2> QED BY <1>8, <1>10, <2>2 DEF LeafOf, IsChild
<1>13. Value(k, x)' = ValueAt(c, k)'
  BY <1>8, <1>12 DEF Value
<1>14. CASE c \in filled
  <2>1. PICK e \in E : at(e) = c /\ inline'[c] = e
    BY <1>2, <1>4, <1>14
  <2>2. ValueAt(c, k)' = IF e.key = k THEN e.val ELSE Nil
    BY <1>10, <1>14, <2>1 DEF ValueAt, Holding
  <2>3. m.slot[e.key] = m.slot[k]
    BY <1>3, <2>1
  <2>4. e.key # k => \A f \in E : f.key # k
    BY <2>3
  <2> QED BY <1>12, <1>13, <2>2, <2>4
<1>15. CASE c \notin filled
  <2>1. ValueAt(c, k)' = Nil
    BY <1>10, <1>11, <1>15 DEF ValueAt, Holding
  <2>2. \A e \in E : e.key # k
    BY <1>3, <1>15
  <2> QED BY <1>12, <1>13, <2>1, <2>2
<1> QED BY <1>14, <1>15

\* The writes of the calls, and what they write.
Write(p) == PublishInline(p) \/ PublishChild(p) \/ RemoveHit(p)
Put(p) == IF call[p].op = "remove" THEN Nil ELSE Val(p)

\* A call writes where its own walk ended.
Hits(p, k, n) == k = call[p].key /\ Leaf(k)[n] = walk[p].cur

\* The walks of the key that end where the call stands are those that end in its
\* slot.
LEMMA HereHit ==
    ASSUME IInv, OwnInv, NEW p \in Threads, NEW k \in Keys, NEW n \in 1..used,
           ~IsChild(st[Here(p)])
    PROVE  /\ Leaf(call[p].key)[walk[p].cur] = walk[p].cur
           /\ k = call[p].key => (predict_slot(Leaf(k)[n], k) = Here(p)
                                   <=> Leaf(k)[n] = walk[p].cur)
<1>1. walk[p].cur \in Nodes /\ call[p].key \in Keys
  BY DEF IInv, TypeOK, ThreadTypes, Walks, Calls
<1>2. Nodes = 1..MaxNodes /\ used \in 1..MaxNodes /\ MaxNodes \in Nat
  BY UsedFacts DEF IInv
<1>3. Leaf(call[p].key)[walk[p].cur] = walk[p].cur
  BY <1>1, LeafNow DEF LeafSpec, LeafOf, Here
<1>4. Leaf(k)[n] \in Nodes
  BY <1>2, LeafEnds DEF Ends
<1>5. predict_slot(Leaf(k)[n], k)[1] = Leaf(k)[n] /\ Here(p)[1] = walk[p].cur
  BY <1>4, PredictCell, HereCell DEF IInv
<1> QED BY <1>3, <1>5 DEF Here

\* Inline data and slot states of the other allocated slots.
LEMMA OtherCells ==
    ASSUME IInv, NEW p \in Threads, TreeStep(p), NEW c \in SlotCells,
           c[1] <= used, c # Here(p)
    PROVE  st'[c] = st[c] /\ inline'[c] = inline[c]
BY DEF TreeStep, Footprint

\* The writes into the slot itself, of insert.rs and remove.rs, change what is found
\* for the call's key by the walks that end there, and nothing else.
LEMMA InlineWrite ==
    ASSUME IInv, OwnInv, IInv', OwnInv', NEW p \in Threads,
           PublishInline(p) \/ RemoveHit(p), TypeOK', TreeStep(p), Grows, Frame(p),
           pc[p] = "publish" => call[p].op # "remove", NEW k \in Keys
    PROVE  \A n \in 1..used :
             /\ Value(k, n)' = IF Hits(p, k, n) THEN Put(p) ELSE Value(k, n)
             /\ Leaf(k)'[n] = Leaf(k)[n]
<1>1. /\ TypeOK /\ used \in 1..MaxNodes /\ MaxNodes \in Nat /\ Nodes = 1..MaxNodes
      /\ st \in [SlotCells -> SlotStates] /\ inline \in [SlotCells -> Entries \cup {Nil}]
      /\ pc \in [Threads -> PcValues] /\ SlotExclusive /\ SlotExclusive'
  BY UsedFacts DEF IInv, TypeOK, TreeTypes, ThreadTypes
<1>2. PICK d : d = Here(p)
  OBVIOUS
<1>3. d \in SlotCells /\ d[1] = walk[p].cur /\ d \in Cells /\ call[p].key \in Keys
  BY <1>1, <1>2, HereCell, CellFacts DEF TypeOK, ThreadTypes, Calls
<1>4. /\ ~IsChild(st[d]) /\ ~IsChild(st'[d]) /\ UNCHANGED <<model, ptr>>
      /\ pc'[p] # "publish"
  BY <1>1, <1>2, <1>3 DEF PublishInline, RemoveHit, SlotExclusive, IsChild, Goto
<1>5. PathsKept(RootCell)
  <2>1. \A c \in SlotCells : c[1] <= used => (IsChild(st'[c]) <=> IsChild(st[c]))
    BY <1>2, <1>4, OtherCells
  <2> QED BY <1>4, <2>1 DEF PathsKept, Grows
<1>6. \A n \in 1..used : Leaf(k)'[n] = Leaf(k)[n]
  BY <1>5, LeafKept
<1>7. ASSUME NEW c \in SlotCells, c[1] <= used, c # d
      PROVE  ValueAt(c, k)' = ValueAt(c, k)
  <2>1. ClaimedData(c)' <=> ClaimedData(c)
    BY <1>2, <1>4, <1>7, ClaimsKept
  <2>2. st'[c] = st[c] /\ inline'[c] = inline[c]
    BY <1>2, <1>7, OtherCells
  <2> QED BY <2>1, <2>2 DEF ValueAt, Holding
<1>8. k = call[p].key => ValueAt(d, k)' = Put(p)
  <2> SUFFICES ASSUME k = call[p].key PROVE ValueAt(d, k)' = Put(p)
    OBVIOUS
  <2>1. CASE PublishInline(p)
    <3>1. inline'[d] = [key |-> k, val |-> Val(p)] /\ st'[d] = "DATA"
      BY <1>1, <1>2, <1>3, <2>1 DEF PublishInline
    <3>2. call[p].op # "remove"
      BY <2>1 DEF PublishInline
    <3> QED BY <3>1, <3>2 DEF ValueAt, Holding, Put
  <2>2. CASE RemoveHit(p)
    <3>1. st'[d] = "TOMBSTONE" /\ call[p].op = "remove"
      BY <1>1, <1>2, <1>3, <2>2 DEF RemoveHit
    <3>2. ~ClaimedData(d)'
      BY <1>1, <3>1 DEF ClaimedData, SlotExclusive
    <3> QED BY <3>1, <3>2 DEF ValueAt, Holding, Put
  <2> QED BY <2>1, <2>2
<1>9. k # call[p].key => ValueAt(d, k)' = ValueAt(d, k)
  <2> SUFFICES ASSUME k # call[p].key PROVE ValueAt(d, k)' = ValueAt(d, k)
    OBVIOUS
  <2>1. CASE PublishInline(p)
    <3>1. inline'[d] = [key |-> call[p].key, val |-> Val(p)]
      BY <1>1, <1>2, <1>3, <2>1 DEF PublishInline
    <3>2. pc[p] = "publish" /\ walk[p].from = "EMPTY" /\ st[d] # "DATA"
      BY <1>1, <1>2, <2>1 DEF PublishInline, InPlace, SlotExclusive
    <3>3. ~ClaimedData(d)
      BY <1>1, <1>2, <3>2 DEF ClaimedData, SlotExclusive
    <3> QED BY <3>1, <3>2, <3>3 DEF ValueAt, Holding
  <2>2. CASE RemoveHit(p)
    <3>1. inline[d].key = call[p].key /\ inline' = inline
      BY <1>2, <2>2 DEF RemoveHit, SameKey
    <3> QED BY <3>1 DEF ValueAt
  <2> QED BY <2>1, <2>2
<1>10. ASSUME NEW n \in 1..used
       PROVE  Value(k, n)' = IF Hits(p, k, n) THEN Put(p) ELSE Value(k, n)
  <2>1. Leaf(k)[n] \in 1..used /\ Leaf(k)[n] \in Nodes
    BY <1>1, LeafEnds DEF Ends
  <2>2. PICK c : c = predict_slot(Leaf(k)[n], k)
    OBVIOUS
  <2>3. c \in SlotCells /\ c[1] <= used
    BY <1>1, <2>1, <2>2, PredictCell
  <2>4. predict_slot(Leaf(k)[n], k)' = c
    BY <1>4, <1>6, <2>2 DEF predict_slot
  <2>5. Value(k, n)' = ValueAt(c, k)' /\ Value(k, n) = ValueAt(c, k)
    BY <2>2, <2>4 DEF Value
  <2>6. k = call[p].key => (c = d <=> Leaf(k)[n] = walk[p].cur)
    BY <1>2, <1>4, <2>2, HereHit
  <2> QED BY <1>7, <1>8, <1>9, <2>3, <2>5, <2>6 DEF Hits
<1> QED BY <1>6, <1>10

\* The value of a key whose walk ends in a slot the step does not touch.
LEMMA ValueElsewhere ==
    ASSUME IInv, OwnInv, NEW d, PathsKept(d), NEW k \in Keys, NEW n \in 1..used,
           Leaf(k)'[n] = Leaf(k)[n],
           \A c \in SlotCells : c[1] <= used /\ c # d => ValueAt(c, k)' = ValueAt(c, k),
           predict_slot(Leaf(k)[n], k) # d
    PROVE  Value(k, n)' = Value(k, n)
<1>1. used \in 1..MaxNodes /\ MaxNodes \in Nat /\ Nodes = 1..MaxNodes
  BY UsedFacts DEF IInv
<1>2. Leaf(k)[n] \in 1..used /\ Leaf(k)[n] \in Nodes
  BY <1>1, LeafEnds DEF Ends
<1>3. PICK c : c = predict_slot(Leaf(k)[n], k)
  OBVIOUS
<1>4. c \in SlotCells /\ c[1] <= used
  BY <1>1, <1>2, <1>3, PredictCell DEF IInv
<1>5. predict_slot(Leaf(k)[n], k)' = c
  BY <1>2, <1>3 DEF predict_slot, PathsKept
<1>6. Value(k, n)' = ValueAt(c, k)' /\ Value(k, n) = ValueAt(c, k)
  BY <1>3, <1>5 DEF Value
<1> QED BY <1>3, <1>4, <1>6

\* The value of a key whose walk now ends where that of the new node does.
LEMMA ValueNew ==
    ASSUME NEW k \in Keys, NEW n, NEW x, Leaf(k)'[n] = Leaf(k)'[x]
    PROVE  Value(k, n)' = Value(k, x)'
BY DEF Value

\* So does the write of a child (conflict or full model), though the other entry
\* moves to the child as well.
LEMMA ChildWrite ==
    ASSUME IInv, OwnInv, IInv', OwnInv', NEW p \in Threads,
           PublishChild(p), TypeOK', TreeStep(p), Grows, Frame(p),
           call[p].op # "remove", NEW k \in Keys
    PROVE  \A n \in 1..used :
             /\ Value(k, n)' = IF Hits(p, k, n) THEN Put(p) ELSE Value(k, n)
             /\ Leaf(k)'[n] = IF predict_slot(Leaf(k)[n], k) = Here(p) THEN Fresh
                                                                      ELSE Leaf(k)[n]
<1> DEFINE mine == [key |-> call[p].key, val |-> Val(p)]
           both == walk[p].from = "DATA" /\ ~SameKey(p)
           E    == IF both THEN {mine, inline[Here(p)]} ELSE {mine}
           m    == IF both THEN ConflictModel(inline[Here(p)].key, mine.key)
                           ELSE SingleModel(mine.key)
<1>1. /\ TypeOK /\ used \in 1..MaxNodes /\ MaxNodes \in Nat /\ Nodes = 1..MaxNodes
      /\ st \in [SlotCells -> SlotStates] /\ inline \in [SlotCells -> Entries \cup {Nil}]
      /\ pc \in [Threads -> PcValues] /\ SlotExclusive /\ SlotExclusive'
      /\ ptr \in [Cells -> Ptrs] /\ Fresh = used + 1
  BY UsedFacts DEF IInv, TypeOK, TreeTypes, ThreadTypes
<1>2. PICK d : d = Here(p)
  OBVIOUS
<1>3. d \in SlotCells /\ d[1] = walk[p].cur /\ d \in Cells /\ call[p].key \in Keys
      /\ d[1] <= used
  BY <1>1, <1>2, HereCell, CellFacts DEF TypeOK, ThreadTypes, Calls, IInv, ThreadInv
<1>4. /\ pc[p] = "publish" /\ AddNode(m, E)
      /\ ptr' = [ptr EXCEPT ![d] = Plain(Fresh)]
      /\ st' = [StatesWith(m, E) EXCEPT ![d] = "CHILD_STALE"]
      /\ pc' = [pc EXCEPT ![p] = "validate"]
  BY <1>2 DEF PublishChild, Goto
<1>5. mine \in Entries
  BY <1>1, <1>3, ValType DEF Entries
<1>6. both => /\ inline[d] \in Entries /\ inline[d] # Nil
              /\ inline[d].key # call[p].key
  BY <1>1, <1>2, <1>3, <1>4 DEF SameKey, IInv, ThreadInv
<1>7. E \in SUBSET Entries /\ m \in Models
  BY <1>2, <1>3, <1>5, <1>6, ModelsAssumption DEF Entries
<1>8. \A e, f \in E : m.slot[e.key] = m.slot[f.key] => e.key = f.key
  <2>1. CASE both
    <3>1. inline[d].key \in Keys
      BY <1>6, <2>1 DEF Entries
    <3>2. m.slot[inline[d].key] # m.slot[call[p].key]
      BY <1>2, <1>3, <1>6, <2>1, <3>1, SeparationAssumption
    <3> HIDE DEF m
    <3> QED BY <1>2, <2>1, <3>2
  <2>2. CASE ~both
    BY <2>2
  <2> QED BY <2>1, <2>2
<1>9. StatesWith(m, E) \in [SlotCells -> SlotStates]
  BY <1>1, <1>4, <1>7, AddNodeType
<1>10. /\ \A c \in SlotCells : c[1] = Fresh => st'[c] = StatesWith(m, E)[c]
       /\ st'[d] = "CHILD_STALE"
  <2>1. PICK f : f = StatesWith(m, E)
    OBVIOUS
  <2>2. f \in [SlotCells -> SlotStates] /\ st' = [f EXCEPT ![d] = "CHILD_STALE"]
    BY <1>4, <1>9, <2>1
  <2>3. d[1] # Fresh
    BY <1>1, <1>3
  <2> HIDE DEF E, m
  <2> QED BY <1>3, <2>1, <2>2, <2>3
<1>11. PICK x : x = Fresh
  OBVIOUS
<1>12. /\ Leaf(k)'[x] = x
       /\ \/ Value(k, x)' = Nil /\ \A e \in E : e.key # k
          \/ \E e \in E : e.key = k /\ Value(k, x)' = e.val
  <2> HIDE DEF E, m
  <2> QED BY <1>4, <1>7, <1>8, <1>10, <1>11, NewValue
<1>13. PathsKept(d)
  <2>1. \A c \in SlotCells : c[1] <= used /\ c # d => st'[c] = st[c]
    BY <1>2, OtherCells
  <2>2. \A c \in SlotCells : c # d => ptr'[c] = ptr[c]
    BY <1>1, <1>4, CellFacts
  <2> QED BY <2>1, <2>2 DEF PathsKept, Grows
<1>14. st[d] = "WRITING"
  BY <1>1, <1>2, <1>4 DEF SlotExclusive
<1>15. ptr'[d].node = Fresh
  BY <1>1, <1>3, <1>4 DEF Plain
<1>16. \A n \in 1..used : Leaf(k)'[n] = IF predict_slot(Leaf(k)[n], k) = d
                                        THEN Fresh ELSE Leaf(k)[n]
  BY <1>10, <1>11, <1>12, <1>13, <1>14, <1>15, LeafGrown DEF IsChild
<1>17. ASSUME NEW c \in SlotCells, c[1] <= used, c # d
       PROVE  ValueAt(c, k)' = ValueAt(c, k)
  <2>1. pc'[p] # "publish"
    BY <1>1, <1>4
  <2>2. ClaimedData(c)' <=> ClaimedData(c)
    BY <1>2, <2>1, <1>17, ClaimsKept
  <2>3. st'[c] = st[c] /\ inline'[c] = inline[c]
    BY <1>2, <1>17, OtherCells
  <2> QED BY <2>2, <2>3 DEF ValueAt, Holding
<1>18. Value(k, x)' = IF k = call[p].key THEN Put(p) ELSE ValueAt(d, k)
  <2>1. Put(p) = Val(p)
    BY DEF Put
  <2>2. ClaimedData(d) <=> walk[p].from = "DATA"
    BY <1>1, <1>2, <1>4 DEF ClaimedData, SlotExclusive
  <2>3. ValueAt(d, k) = IF walk[p].from = "DATA" /\ inline[d].key = k
                        THEN inline[d].val ELSE Nil
    BY <1>14, <2>2 DEF ValueAt, Holding
  <2>4. CASE both
    <3>1. E = {mine, inline[d]}
      BY <1>2, <2>4
    <3>2. \A e \in E : e = mine \/ e = inline[d]
      BY <3>1
    <3>3. mine \in E /\ inline[d] \in E
      BY <3>1
    <3> HIDE DEF E
    <3> QED BY <1>6, <1>12, <2>1, <2>3, <2>4, <3>2, <3>3
  <2>5. CASE ~both
    <3>1. E = {mine}
      BY <2>5
    <3>2. walk[p].from = "DATA" => inline[d].key = call[p].key
      BY <1>2, <2>5 DEF SameKey
    <3>3. mine \in E /\ \A e \in E : e = mine
      BY <3>1
    <3> HIDE DEF E
    <3> QED BY <1>12, <2>1, <2>3, <3>2, <3>3
  <2> QED BY <2>4, <2>5
<1>19. ASSUME NEW n \in 1..used
       PROVE  Value(k, n)' = IF Hits(p, k, n) THEN Put(p) ELSE Value(k, n)
  <2>1. CASE predict_slot(Leaf(k)[n], k) = d
    <3>1. Value(k, n)' = Value(k, x)'
      BY <1>11, <1>12, <1>16, <2>1, ValueNew
    <3>2. Value(k, n) = ValueAt(d, k)
      BY <2>1 DEF Value
    <3>3. k = call[p].key => Leaf(k)[n] = walk[p].cur
      BY <1>2, <1>14, <2>1, HereHit DEF IsChild
    <3> QED BY <1>18, <3>1, <3>2, <3>3 DEF Hits
  <2>2. CASE predict_slot(Leaf(k)[n], k) # d
    <3>1. Value(k, n)' = Value(k, n)
      BY <1>13, <1>16, <1>17, <2>2, ValueElsewhere
    <3>2. ~Hits(p, k, n)
      BY <1>2, <1>14, <2>2, HereHit DEF Hits, IsChild
    <3> QED BY <3>1, <3>2
  <2> QED BY <2>1, <2>2
<1> QED BY <1>2, <1>16, <1>19

\* What a write changes: the value of its key at the nodes from which the walk
\* ends where its own did.  Walks that ended at one node still do.
LEMMA WriteValues ==
    ASSUME IInv, OwnInv, IInv', OwnInv', NEW p \in Threads,
           Write(p), TypeOK', TreeStep(p), Grows, Frame(p),
           pc[p] = "publish" => call[p].op # "remove", NEW k \in Keys
    PROVE  /\ \A n \in 1..used :
                Value(k, n)' = IF Hits(p, k, n) THEN Put(p) ELSE Value(k, n)
           /\ \A i, j \in 1..used :
                Leaf(k)[i] = Leaf(k)[j] => Leaf(k)'[i] = Leaf(k)'[j]
<1>1. CASE PublishInline(p) \/ RemoveHit(p)
  BY <1>1, InlineWrite
<1>2. CASE PublishChild(p)
  <2>1. call[p].op # "remove"
    BY <1>2 DEF PublishChild
  <2> QED BY <1>2, <2>1, ChildWrite
<1> QED BY <1>1, <1>2 DEF Write

\* A swap succeeds.  Of what was there before it changes one pointer only.
LEMMA SwapFacts ==
    ASSUME IInv, NEW p \in Threads, Swap(p)
    PROVE  /\ Freezing(p) /\ rb[p].todo = <<>>
           /\ rb[p].cell \in Cells /\ rb[p].victim \in Nodes
           /\ ptr[rb[p].cell] = Frozen(rb[p].victim)
           /\ Fresh \in Nodes /\ ptr'[rb[p].cell] = Plain(Fresh)
           /\ \A c \in Cells : c[1] <= used /\ c # rb[p].cell => ptr'[c] = ptr[c]
           /\ \A c \in SlotCells : c[1] <= used => st'[c] = st[c] /\ inline'[c] = inline[c]
           /\ rb[p].cell # RootCell => IsChild(st[rb[p].cell]) /\ rb[p].cell[1] <= used
           /\ retired' = retired \cup {rb[p].victim}
           /\ NewEntries(p) \in SUBSET Entries
<1>1. TypeOK /\ FreezeExclusive
  BY DEF IInv
<1>2. /\ Freezing(p) /\ ptr[rb[p].cell] = Frozen(rb[p].victim)
      /\ rb[p].cell # RootCell => IsChild(st[rb[p].cell]) /\ rb[p].cell[1] <= used
      /\ retired' = retired \cup {rb[p].victim}
      /\ NewEntries(p) \in SUBSET Entries
  BY SwapAdds DEF Garbage
<1>3. rb[p].todo = <<>> /\ rb[p].cell \in Cells /\ rb[p].victim \in Nodes
  BY <1>1 DEF Swap, TypeOK, ThreadTypes, Scans
<1>4. PICK g : Added(rb[p].kind, g, NewEntries(p), rb[p].cell)
  BY SwapAdds
<1>5. used \in 1..MaxNodes /\ MaxNodes \in Nat /\ Nodes = 1..MaxNodes /\ Fresh = used + 1
  BY <1>1, UsedFacts
<1>6. Fresh \in Nodes
  BY <1>4, <1>5 DEF Added
<1>7. \A c \in NewCells : ~(c[1] <= used)
  <2> SUFFICES ASSUME NEW c \in NewCells PROVE ~(c[1] <= used)
    OBVIOUS
  <2>1. c[1] > used /\ c[1] \in Nat
    BY <1>1, <1>5, UsedFacts DEF NewCells
  <2> QED BY <1>5, <2>1
<1>8. /\ ptr'[rb[p].cell] = Plain(Fresh)
      /\ \A c \in Cells : c[1] <= used /\ c # rb[p].cell => ptr'[c] = ptr[c]
  BY <1>3, <1>4, <1>7 DEF Added
<1>9. \A c \in SlotCells : c[1] <= used => st'[c] = st[c] /\ inline'[c] = inline[c]
  BY <1>4, <1>7 DEF Added
<1> QED BY <1>2, <1>3, <1>6, <1>8, <1>9

\* The new tree holds its entries where they are looked for: a walk of a key that
\* starts at one of its nodes finds an entry for the key if the node was built
\* for it, and nothing otherwise.
LEMMA AddedValues ==
    ASSUME IInv, OwnInv, IInv', OwnInv', NEW kind, NEW g, NEW E \in SUBSET Entries,
           NEW d, Added(kind, g, E, d), NEW k \in Keys, NEW u, u = used
    PROVE  \A i \in 1..Len(g) :
             IF k \in g[i] THEN \E e \in E : e.key = k /\ Value(k, u + i)' = e.val
                            ELSE Value(k, u + i)' = Nil
<1>1. /\ used \in Nat \ {0} /\ Nodes = 1..MaxNodes /\ MaxNodes \in Nat
      /\ Len(g) \in Nat \ {0} /\ used' = used + Len(g) /\ used' \in Nodes
      /\ \A c \in SlotCells : c \in NewCells <=> c[1] > used /\ c[1] <= used'
  BY AddedNodes
<1>2. PICK U : U = used'
  OBVIOUS
<1> DEFINE Right(n) == IF k \in g[n - u] THEN \E e \in E : e.key = k /\ Value(k, n)' = e.val
                                         ELSE Value(k, n)' = Nil
           S == {n \in 1..U : n > u => Right(n)}
<1>3. ASSUME NEW n \in 1..U, \A j \in (n + 1)..U : j \in S, n > u
      PROVE  Right(n)
  <2>1. PICK i : i = n - u
    OBVIOUS
  <2>2. n \in Nodes /\ i \in 1..Len(g) /\ used + i = n
    BY <1>1, <1>2, <1>3, <2>1
  <2>3. model'[n] = Fit(kind, g[i]) /\ Fit(kind, g[i]) \in Models /\ DOMAIN g = 1..Len(g)
    BY <2>2 DEF Added
  <2>4. PICK c : c = <<n, Fit(kind, g[i]).slot[k]>>
    OBVIOUS
  <2>5. /\ predict_slot(n, k)' = c /\ c[1] = n /\ c[2] = Fit(kind, g[i]).slot[k]
        /\ c \in SlotCells
    BY <2>2, <2>3, <2>4 DEF predict_slot, Models, SlotCells
  <2>6. c \in NewCells
    BY <1>1, <1>2, <1>3, <2>5
  <2>7. NewKeys(kind, g, c) = {l \in g[i] : Fit(kind, g[i]).slot[l] = c[2]}
    BY <1>2, <2>1, <2>2, <2>3, <2>5 DEF NewKeys
  <2>8. k \in g[i] <=> k \in NewKeys(kind, g, c)
    BY <2>5, <2>7
  <2>9. Leaf(k)'[n] = IF IsChild(st'[c]) THEN Leaf(k)'[ptr'[c].node] ELSE n
    <3>1. LeafSpec'
      BY LeafNext
    <3>2. Leaf(k)'[n] = LeafOf(k, Leaf(k), n)'
      BY <2>2, <3>1 DEF LeafSpec
    <3> QED BY <2>5, <3>2 DEF LeafOf, IsChild
  <2>10. ~IsChild(st'[c]) => Value(k, n)' = ValueAt(c, k)'
    BY <2>5, <2>9 DEF Value
  <2>11. st'[c] # "WRITING" => ~ClaimedData(c)'
    <3>1. SlotExclusive'
      BY DEF IInv
    <3> QED BY <3>1 DEF ClaimedData, SlotExclusive
  <2>12. CASE NewEmpty(kind, g, c)
    <3>1. st'[c] = "EMPTY" /\ k \notin g[i]
      BY <2>8, <2>12 DEF NewEmpty
    <3>2. ValueAt(c, k)' = Nil
      BY <2>11, <3>1 DEF ValueAt, Holding
    <3> QED BY <2>1, <2>10, <3>1, <3>2 DEF IsChild
  <2>13. CASE NewData(kind, g, E, c)
    <3>1. /\ st'[c] = "DATA" /\ inline'[c] \in E
          /\ k \in g[i] <=> k = inline'[c].key
      BY <2>8, <2>13 DEF NewData
    <3>2. ValueAt(c, k)' = IF k = inline'[c].key THEN inline'[c].val ELSE Nil
      BY <3>1 DEF ValueAt, Holding
    <3> QED BY <2>1, <2>10, <3>1, <3>2 DEF IsChild
  <2>14. ASSUME NEW j \in 2..Len(g), NewLink(kind, g, c, j) PROVE Right(n)
    <3>1. /\ st'[c] = "CHILD" /\ ptr'[c].node = used + j /\ c[1] < used + j
      BY <2>6, <2>14, AddedNodes
    <3>2. PICK m : m = used + j
      OBVIOUS
    <3>3. m \in (n + 1)..U /\ m > u /\ m - u = j
      BY <1>1, <1>2, <2>2, <2>5, <3>1, <3>2
    <3>4. Right(m)
      BY <1>3, <3>3
    <3>5. Leaf(k)'[n] = Leaf(k)'[m]
      BY <2>9, <3>1, <3>2 DEF IsChild
    <3>6. Value(k, n)' = Value(k, m)'
      BY <3>5, ValueNew
    <3>7. k \in g[i] <=> k \in g[j]
      BY <2>8, <2>14 DEF NewLink
    <3> QED BY <2>1, <3>3, <3>4, <3>6, <3>7
  <2>15. \/ NewEmpty(kind, g, c) \/ NewData(kind, g, E, c)
         \/ \E j \in 2..Len(g) : NewLink(kind, g, c, j)
    BY <2>6 DEF Added
  <2> QED BY <2>12, <2>13, <2>14, <2>15
<1>4. ASSUME NEW n \in 1..U, \A j \in (n + 1)..U : j \in S
      PROVE  n \in S
  BY <1>3, <1>4
<1>5. 1..U \subseteq S
  <2> HIDE DEF S
  <2>1. U \in Nat
    BY <1>1, <1>2
  <2> QED BY <1>4, <2>1, Downwards
<1>6. ASSUME NEW i \in 1..Len(g)
      PROVE  IF k \in g[i] THEN \E e \in E : e.key = k /\ Value(k, u + i)' = e.val
                            ELSE Value(k, u + i)' = Nil
  <2>1. PICK n : n = u + i
    OBVIOUS
  <2>2. n \in 1..U /\ n > u /\ n - u = i
    BY <1>1, <1>2, <2>1
  <2>3. Right(n)
    BY <1>5, <2>2
  <2> QED BY <2>1, <2>2, <2>3
<1> QED BY <1>6

\* After a swap, walks end in the new tree where they passed the swapped slot.
\* The node of the slot has no parent, so no other walk passes it.
LEMMA SwapValues ==
    ASSUME IInv, OwnInv, IInv', OwnInv', NEW p \in Threads, Swap(p), TypeOK',
           TreeStep(p), Grows, Frame(p),
           rb[p].cell # RootCell =>
             \A c \in SlotCells : ptr[c].node # rb[p].cell[1],
           NEW k \in Keys, NEW x, x = Fresh
    PROVE  /\ \/ Value(k, x)' = Nil /\ \A e \in NewEntries(p) : e.key # k
              \/ \E e \in NewEntries(p) : e.key = k /\ Value(k, x)' = e.val
           /\ \A n \in 1..used :
                /\ Leaf(k)'[n] = IF predict_slot(n, k) = rb[p].cell
                                 THEN Leaf(k)'[x] ELSE Leaf(k)[n]
                /\ Value(k, n)' = IF predict_slot(n, k) = rb[p].cell
                                  THEN Value(k, x)' ELSE Value(k, n)
<1>1. PICK d, E : d = rb[p].cell /\ E = NewEntries(p)
  OBVIOUS
<1>2. /\ Freezing(p) /\ d \in Cells /\ ptr'[d] = Plain(Fresh) /\ E \in SUBSET Entries
      /\ \A c \in Cells : c[1] <= used /\ c # d => ptr'[c] = ptr[c]
      /\ \A c \in SlotCells : c[1] <= used => st'[c] = st[c] /\ inline'[c] = inline[c]
      /\ d # RootCell => IsChild(st[d]) /\ d[1] <= used
  BY <1>1, SwapFacts
<1>3. \/ Value(k, x)' = Nil /\ \A e \in E : e.key # k
      \/ \E e \in E : e.key = k /\ Value(k, x)' = e.val
  <2>1. PICK kind, g : Added(kind, g, E, d)
    BY <1>1, SwapAdds
  <2>2. 1 \in 1..Len(g) /\ g[1] = {e.key : e \in E}
    BY <2>1 DEF Added
  <2>3. PICK u : u = used
    OBVIOUS
  <2>4. IF k \in g[1] THEN \E e \in E : e.key = k /\ Value(k, u + 1)' = e.val
                       ELSE Value(k, u + 1)' = Nil
    <3>1. \A i \in 1..Len(g) :
             IF k \in g[i] THEN \E e \in E : e.key = k /\ Value(k, u + i)' = e.val
                            ELSE Value(k, u + i)' = Nil
      BY <1>2, <2>1, <2>3, AddedValues
    <3> QED BY <2>2, <3>1
  <2>5. x = u + 1
    BY <2>3 DEF Fresh
  <2> QED BY <2>2, <2>4, <2>5
<1>4. /\ TypeOK /\ used \in 1..MaxNodes /\ MaxNodes \in Nat /\ Nodes = 1..MaxNodes
      /\ ptr \in [Cells -> Ptrs] /\ Fresh = used + 1 /\ pc \in [Threads -> PcValues]
  BY UsedFacts DEF IInv, TypeOK, TreeTypes, ThreadTypes
<1>5. PathsKept(d)
  BY <1>2, CellFacts DEF PathsKept, Grows
<1>6. pc[p] # "publish" /\ pc'[p] # "publish"
  <2>1. pc'[p] \in {Caller(p), "rb_post"}
    BY <1>4 DEF Swap, Goto
  <2> QED BY <1>2, <2>1 DEF Freezing, Caller, AfterTrigger
<1>7. ASSUME NEW c \in SlotCells, c[1] <= used
      PROVE  ValueAt(c, k)' = ValueAt(c, k)
  <2>1. ClaimedData(c)' <=> ClaimedData(c)
    BY <1>6, ClaimsKept
  <2> QED BY <1>2, <1>7, <2>1 DEF ValueAt, Holding
<1>8. CASE d = RootCell
  <2>1. PathsKept(RootCell)
    BY <1>5, <1>8
  <2>2. \A n \in 1..used : Leaf(k)'[n] = Leaf(k)[n] /\ Value(k, n)' = Value(k, n)
    BY <1>7, <2>1, LeafKept, ValueKept
  <2>3. ASSUME NEW n \in 1..used PROVE predict_slot(n, k) # RootCell
    <3>1. n \in Nodes
      BY <1>4
    <3> QED BY <1>4, <3>1, PredictCell, CellFacts
  <2> QED BY <1>1, <1>3, <1>8, <2>2, <2>3
<1>9. CASE d # RootCell
  <2>1. d \in SlotCells /\ \A c \in SlotCells : ptr[c].node # d[1]
    BY <1>1, <1>2, <1>9, CellFacts
  <2>2. IsChild(st[d]) /\ IsChild(st'[d]) /\ ptr'[d].node = Fresh
    BY <1>2, <1>9, <2>1 DEF Plain
  <2>3. \A n \in 1..used : Leaf(k)'[n] = IF predict_slot(n, k) = d
                                           THEN Leaf(k)'[x] ELSE Leaf(k)[n]
    BY <1>5, <2>1, <2>2, LeafSwapped
  <2>4. ASSUME NEW n \in 1..used
        PROVE  Value(k, n)' = IF predict_slot(n, k) = d THEN Value(k, x)'
                                                        ELSE Value(k, n)
    <3>1. CASE predict_slot(n, k) = d
      BY <2>3, <3>1, ValueNew
    <3>2. CASE predict_slot(n, k) # d
      <4>1. Leaf(k)'[n] = Leaf(k)[n]
        BY <2>3, <3>2
      <4>2. predict_slot(Leaf(k)[n], k) # d
        <5>1. n \in Nodes /\ Leaf(k)[n] \in Nodes
              /\ ~IsChild(st[predict_slot(Leaf(k)[n], k)])
          BY <1>4, LeafEnds DEF Ends
        <5> QED BY <2>2, <5>1
      <4> QED BY <1>5, <1>7, <3>2, <4>1, <4>2, ValueElsewhere
    <3> QED BY <3>1, <3>2
  <2> QED BY <1>1, <1>3, <2>3, <2>4
<1> QED BY <1>8, <1>9
-----------------------------------------------------------------------------
(***************************************************************************)
(* Calls: where they are, and which of them overlap.                       *)
(***************************************************************************)
\* Which calls come to a label, and when they have changed the map by then.
\* (retry_was_new of insert.rs, was_removed of remove.rs.)
Stages(p) ==
    /\ pc[p] = "idle" => ~changed[p]
    /\ pc[p] = "publish" => call[p].op \in {"insert", "get_or_insert"}
    /\ pc[p] = "publish" /\ call[p].op = "get_or_insert" => ~IsUpdate(p)
    /\ pc[p] \in {"read_root", "scan"} => call[p].op \in {"get", "iter"}
    /\ pc[p] = "read" => call[p].op \in {"get", "get_or_insert"}
    /\ pc[p] \in {"count", "grow", "advance"} => call[p].op \in Writers /\ changed[p]
    /\ Rebuilding(p) \/ pc[p] = "rb_post" =>
         \/ rb[p].kind = "subtree"
         \/ rb[p].kind = call[p].op /\ call[p].op \in Sweepers
         \/ rb[p].kind = "rebuild" /\ call[p].op \in Writers /\ changed[p]
    /\ Rebuilding(p) /\ call[p].op \in {"clear", "drain"} => ~changed[p]
    /\ pc[p] = "validate" /\ call[p].op = "remove" => changed[p]
    /\ call[p].op = "get_or_insert" /\ walk[p].from = "EMPTY"
         /\ (pc[p] = "validate" \/ (Rebuilding(p) /\ rb[p].kind = "subtree"))
           => changed[p]

\* The thread's own variables that its call and its history are made of.
OthersKept(p) ==
    \A q \in Threads \ {p} :
        /\ changed'[q] = changed[q] /\ ops'[q] = ops[q] /\ ret'[q] = ret[q]
        /\ \A k \in Keys : rival[q][k] \subseteq rival'[q][k]

\* A step changes nothing of the other threads but that they may get more rivals.
LEMMA StepOthers ==
    ASSUME TypeOK, NEW p \in Threads, Begin(p) \/ Step(p)
    PROVE  OthersKept(p)
<1> USE DEF TypeOK, ThreadTypes, HistoryTypes, OthersKept, history
<1>1. CASE Begin(p)
  BY <1>1 DEF Begin
<1>2. CASE Return(p)
  BY <1>2 DEF Return
<1>3. CASE LoadRoot(p) \/ Descend(p) \/ Claim(p) \/ PublishInline(p) \/ PublishChild(p)
  BY <1>3 DEF LoadRoot, Descend, Claim, PublishInline, PublishChild
<1>4. CASE RemoveMiss(p) \/ RemoveHit(p) \/ GetExisting(p) \/ Validate(p)
  BY <1>4 DEF RemoveMiss, RemoveHit, GetExisting, Validate
<1>5. CASE CheckRatio(p) \/ LoadOwn(p) \/ Recheck(p) \/ Count(p) \/ CheckGrowth(p)
  BY <1>5 DEF CheckRatio, LoadOwn, Recheck, Count, CheckGrowth
<1>6. CASE AdvanceThreshold(p) \/ ReadRoot(p) \/ ReadStep(p) \/ ScanStep(p) \/ ScanEnd(p)
  BY <1>6 DEF AdvanceThreshold, ReadRoot, ReadStep, ScanStep, ScanEnd
<1>7. CASE LoadVictim(p) \/ Freeze(p) \/ Unfreeze(p) \/ Swap(p) \/ ResetCounters(p)
  BY <1>7 DEF LoadVictim, Freeze, Unfreeze, Swap, ResetCounters
<1> QED BY <1>1, <1>2, <1>3, <1>4, <1>5, <1>6, <1>7 DEF Step

\* Between Begin and Return a call keeps its place in the history.
LEMMA StepCall ==
    ASSUME TypeOK, NEW p \in Threads, Step(p), ~Return(p)
    PROVE  /\ UNCHANGED <<call, ops, acc, rival>>
           /\ pc[p] # "idle" /\ pc'[p] # "idle"
<1> USE DEF TypeOK, ThreadTypes, history, Goto
<1>3. CASE LoadRoot(p) \/ Descend(p) \/ Claim(p) \/ PublishInline(p) \/ PublishChild(p)
  BY <1>3 DEF LoadRoot, Descend, Claim, PublishInline, PublishChild
<1>4. CASE RemoveMiss(p) \/ RemoveHit(p) \/ GetExisting(p)
  BY <1>4 DEF RemoveMiss, RemoveHit, GetExisting
<1>5. CASE Validate(p) \/ CheckRatio(p)
  BY <1>5 DEF Validate, CheckRatio, StartRebuild, AfterTrigger
<1>6. CASE LoadOwn(p) \/ Recheck(p) \/ Count(p) \/ CheckGrowth(p)
  BY <1>6 DEF LoadOwn, Recheck, Count, CheckGrowth
<1>7. CASE AdvanceThreshold(p)
  BY <1>7 DEF AdvanceThreshold, StartRebuild
<1>8. CASE ReadRoot(p) \/ ReadStep(p) \/ ScanStep(p) \/ ScanEnd(p)
  BY <1>8 DEF ReadRoot, ReadStep, ScanStep, ScanEnd
<1>9. CASE LoadVictim(p) \/ Freeze(p) \/ Unfreeze(p) \/ Swap(p) \/ ResetCounters(p)
  BY <1>9 DEF LoadVictim, Freeze, Unfreeze, Swap, ResetCounters, GiveUp, Caller,
     AfterTrigger
<1> QED BY <1>3, <1>4, <1>5, <1>6, <1>7, <1>8, <1>9 DEF Step

\* The threads that do not take the step.
LEMMA StagesOthers ==
    ASSUME IInv, NEW p \in Threads, NEW q \in Threads \ {p}, Stages(q),
           Frame(p), OthersKept(p), Grows
    PROVE  Stages(q)'
<1>1. /\ pc'[q] = pc[q] /\ walk'[q] = walk[q] /\ rb'[q] = rb[q] /\ call'[q] = call[q]
      /\ changed'[q] = changed[q]
  BY DEF Frame, OthersKept
<1>2. Here(q)' = Here(q)
  BY <1>1, HereStable
<1>3. pc[q] = "publish" => (IsUpdate(q)' <=> IsUpdate(q))
  <2> SUFFICES ASSUME pc[q] = "publish", walk[q].from = "DATA"
               PROVE  SameKey(q)' <=> SameKey(q)
    BY <1>1 DEF IsUpdate
  <2>1. inline[Here(q)] # Nil
    BY DEF IInv, ThreadInv
  <2>2. PICK c : c = Here(q)
    OBVIOUS
  <2>3. c \in SlotCells
    BY <2>2, HereCell DEF IInv
  <2>4. inline'[c] = inline[c]
    BY <2>1, <2>2, <2>3 DEF Grows
  <2>5. Here(q)' = c
    BY <1>2, <2>2
  <2> QED BY <1>1, <2>2, <2>4, <2>5 DEF SameKey
<1> QED BY <1>1, <1>3 DEF Stages, Rebuilding

\* Each step keeps the labels and the flag changed together.
LEMMA StagesStep ==
    ASSUME IInv, NEW p \in Threads, OnlyWriters(p), Stages(p), Begin(p) \/ Step(p)
    PROVE  Stages(p)'
<1>1. TypeOK /\ ThreadTypes /\ rb[p] \in Scans /\ walk[p] \in Walks
  BY DEF IInv, TypeOK, ThreadTypes
<1> USE DEF Goto, ThreadTypes
<1>2. CASE Begin(p)
  <2>1. PICK c \in Program[p][ops[p] + 1] :
          /\ call' = [call EXCEPT ![p] = c]
          /\ IF c.op \in Sweepers
             THEN StartRebuild(p, c.op, RootCell)
             ELSE /\ Goto(p, IF c.op \in Writers THEN "root" ELSE "read_root")
                  /\ UNCHANGED rb
    BY <1>2 DEF Begin
  <2>2. call'[p] = c /\ changed'[p] = FALSE /\ c \in Calls
    <3>1. pc[p] = "idle" /\ changed' = changed
      BY <1>2 DEF Begin
    <3>2. call' \in [Threads -> Calls]
      BY <1>2, StepTypes DEF TypeOK
    <3> QED BY <1>1, <2>1, <3>1, <3>2 DEF Stages
  <2>3. CASE c.op \in Sweepers
    <3>1. pc'[p] = "rb_load" /\ rb'[p].kind = c.op
      BY <1>1, <2>1, <2>3 DEF StartRebuild, NoScan
    <3>2. c.op \notin {"remove", "get_or_insert"}
      BY <2>3 DEF Sweepers
    <3> QED BY <2>2, <2>3, <3>1, <3>2 DEF Stages
  <2>4. CASE c.op \notin Sweepers
    <3>1. pc'[p] = IF c.op \in Writers THEN "root" ELSE "read_root"
      BY <1>1, <2>1, <2>4
    <3>2. c.op \notin Writers => c.op \in {"get", "iter"}
      BY <2>2, <2>4 DEF Calls
    <3> QED BY <2>2, <3>1, <3>2 DEF Stages, Rebuilding
  <2> QED BY <2>3, <2>4
<1>3. CASE Return(p)
  <2>1. pc'[p] = "idle" /\ ~changed'[p]
    BY <1>1, <1>3 DEF Return
  <2> QED BY <2>1 DEF Stages, Rebuilding
<1>4. CASE LoadRoot(p) \/ Descend(p) \/ RemoveMiss(p) \/ GetExisting(p)
  <2>1. pc'[p] \in {"slot", "recheck"}
    BY <1>1, <1>4 DEF LoadRoot, Descend, RemoveMiss, GetExisting
  <2> QED BY <2>1 DEF Stages, Rebuilding
<1>5. CASE Claim(p)
  <2>1. /\ pc'[p] = "publish" /\ call' = call /\ inline' = inline /\ model' = model
        /\ call[p].op \in {"insert", "get_or_insert"}
        /\ walk'[p].cur = walk[p].cur /\ walk'[p].from = st[Here(p)]
        /\ ~(call[p].op = "get_or_insert" /\ st[Here(p)] = "DATA" /\ SameKey(p))
    BY <1>1, <1>5 DEF Claim, Walks
  <2>2. Here(p)' = Here(p)
    BY <2>1 DEF Here, predict_slot
  <2>3. IsUpdate(p)' <=> st[Here(p)] = "DATA" /\ SameKey(p)
    BY <2>1, <2>2 DEF IsUpdate, SameKey
  <2> QED BY <2>1, <2>3 DEF Stages, Rebuilding
<1>6. CASE PublishInline(p) \/ PublishChild(p) \/ RemoveHit(p)
  <2>1. pc'[p] = "validate" /\ call' = call /\ walk' = walk
    BY <1>1, <1>6 DEF PublishInline, PublishChild, RemoveHit
  <2>2. call[p].op = "remove" => changed'[p]
    BY <1>1, <1>6 DEF PublishInline, PublishChild, RemoveHit, Stages
  <2>3. call[p].op = "get_or_insert" /\ walk[p].from = "EMPTY" => changed'[p]
    BY <1>1, <1>6 DEF PublishInline, PublishChild, RemoveHit, InPlace
  <2> QED BY <2>1, <2>2, <2>3 DEF Stages, Rebuilding
<1>7. CASE Validate(p)
  <2>1. call[p].op \in Writers /\ call' = call /\ pc[p] = "validate"
        /\ (changed[p] => changed'[p])
    BY <1>1, <1>7 DEF Validate, OnlyWriters
  <2>2. CASE pc'[p] \in {"slot", "ratio", "own", "recheck"}
    BY <2>2 DEF Stages, Rebuilding
  <2>3. CASE StartRebuild(p, "subtree", walk[p].snap) /\ walk' = walk
    <3>1. pc'[p] = "rb_load" /\ rb'[p].kind = "subtree"
      BY <1>1, <2>3 DEF StartRebuild, NoScan
    <3>2. call[p].op \notin {"clear", "drain"}
      BY <2>1 DEF Writers
    <3> QED BY <2>1, <2>3, <3>1, <3>2 DEF Stages, Rebuilding
  <2> QED BY <1>1, <1>7, <2>2, <2>3 DEF Validate, AfterTrigger
<1>8. CASE CheckRatio(p)
  <2>1. call[p].op = "remove" /\ call' = call
    BY <1>8 DEF CheckRatio, IInv, ThreadInv
  <2>2. CASE pc'[p] = "recheck"
    BY <2>2 DEF Stages, Rebuilding
  <2>3. CASE StartRebuild(p, "subtree", walk[p].snap)
    <3>1. pc'[p] = "rb_load" /\ rb'[p].kind = "subtree"
      BY <1>1, <2>3 DEF StartRebuild, NoScan
    <3> QED BY <2>1, <2>3, <3>1 DEF Stages, Rebuilding
  <2> QED BY <1>1, <1>8, <2>2, <2>3 DEF CheckRatio
<1>9. CASE LoadOwn(p)
  <2>1. pc'[p] = "read" /\ call' = call /\ call[p].op = "get_or_insert"
    BY <1>1, <1>9 DEF LoadOwn, IInv, ThreadInv
  <2> QED BY <2>1 DEF Stages, Rebuilding
<1>10. CASE Recheck(p)
  <2>1. /\ call[p].op \in Writers /\ call' = call /\ changed' = changed
        /\ pc'[p] = "count" => changed[p]
        /\ pc'[p] \in {"root", "count", "return"}
    BY <1>1, <1>10 DEF Recheck, OnlyWriters
  <2> QED BY <2>1 DEF Stages, Rebuilding
<1>11. CASE Count(p) \/ CheckGrowth(p)
  <2>1. /\ call[p].op \in Writers /\ call' = call /\ changed' = changed /\ changed[p]
        /\ pc'[p] \in {"grow", "advance", "return"}
    BY <1>1, <1>11 DEF Count, CheckGrowth, Stages
  <2> QED BY <2>1 DEF Stages, Rebuilding
<1>12. CASE AdvanceThreshold(p)
  <2>1. call[p].op \in Writers /\ call' = call /\ changed' = changed /\ changed[p]
    BY <1>12 DEF AdvanceThreshold, Stages
  <2>2. CASE pc'[p] = "return"
    BY <2>2 DEF Stages, Rebuilding
  <2>3. CASE StartRebuild(p, "rebuild", RootCell)
    <3>1. pc'[p] = "rb_load" /\ rb'[p].kind = "rebuild"
      BY <1>1, <2>3 DEF StartRebuild, NoScan
    <3>2. call[p].op \notin {"clear", "drain"}
      BY <2>1 DEF Writers
    <3> QED BY <2>1, <3>1, <3>2 DEF Stages, Rebuilding
  <2> QED BY <1>1, <1>12, <2>2, <2>3 DEF AdvanceThreshold
<1>13. CASE ReadRoot(p)
  <2>1. pc[p] = "read_root" /\ call' = call
        /\ pc'[p] = IF call[p].op = "get" THEN "read" ELSE "scan"
    BY <1>1, <1>13 DEF ReadRoot
  <2> QED BY <2>1 DEF Stages, Rebuilding
<1>14. CASE ReadStep(p)
  <2>1. pc[p] = "read" /\ call' = call /\ pc'[p] \in {"read", "return", "recheck", "slot"}
    BY <1>1, <1>14 DEF ReadStep
  <2> QED BY <2>1 DEF Stages, Rebuilding
<1>15. CASE ScanStep(p)
  <2>1. /\ pc' = pc /\ call' = call /\ changed' = changed /\ walk' = walk
        /\ pc[p] \in {"scan", "rb_scan"} /\ rb'[p].kind = rb[p].kind
    <3>1. rb'[p] = Scanned(p, Head(rb[p].todo))
      BY <1>1, <1>15 DEF ScanStep
    <3> QED BY <1>1, <1>15, <3>1 DEF ScanStep, Scanned, Scans
  <2> QED BY <2>1 DEF Stages, Rebuilding
<1>16. CASE ScanEnd(p) \/ ResetCounters(p)
  <2>1. pc'[p] = "return"
    BY <1>1, <1>16 DEF ScanEnd, ResetCounters, Caller, IInv, ThreadInv
  <2> QED BY <2>1 DEF Stages, Rebuilding
<1>17. CASE LoadVictim(p) \/ Freeze(p) \/ Unfreeze(p)
  <2>1. /\ call' = call /\ changed' = changed /\ walk' = walk /\ Rebuilding(p)
        /\ \/ pc'[p] = Caller(p)
           \/ pc'[p] \in {"rb_freeze", "rb_scan"} /\ rb'[p].kind = rb[p].kind
    BY <1>1, <1>17 DEF LoadVictim, Freeze, Unfreeze, GiveUp, Scans, Rebuilding
  <2>2. CASE pc'[p] = Caller(p)
    <3>1. pc'[p] \in {"own", "recheck", "return"}
      BY <2>2 DEF Caller, AfterTrigger
    <3> QED BY <3>1 DEF Stages, Rebuilding
  <2>3. CASE pc'[p] \in {"rb_freeze", "rb_scan"} /\ rb'[p].kind = rb[p].kind
    BY <2>1, <2>3 DEF Stages, Rebuilding
  <2> QED BY <2>1, <2>2, <2>3
<1>18. CASE Swap(p)
  <2>1. /\ call' = call /\ rb' = rb /\ Rebuilding(p) /\ (changed[p] => changed'[p])
        /\ pc'[p] \in {Caller(p), "rb_post"}
    BY <1>1, <1>18 DEF Swap, Rebuilding
  <2>2. pc'[p] \in {"own", "recheck", "return", "rb_post"}
    BY <2>1 DEF Caller, AfterTrigger
  <2> QED BY <2>1, <2>2 DEF Stages, Rebuilding
<1> QED BY <1>2, <1>3, <1>4, <1>5, <1>6, <1>7, <1>8, <1>9, <1>10, <1>11, <1>12, <1>13,
           <1>14, <1>15, <1>16, <1>17, <1>18 DEF Step

\* Overlapping calls are rivals, and no call is its own.
Rivals ==
    /\ \A r, q \in Threads : \A k \in Keys :
         r # q /\ Active(r) /\ Active(q) => Effect(q, k) \subseteq rival[r][k]
    /\ \A r \in Threads : \A k \in Keys : \A x \in rival[r][k] : x = Nil \/ x[1] # r

\* A call leaves its value, or nothing.
LEMMA EffectValues ==
    ASSUME NEW c, NEW v, NEW k
    PROVE  EffectOf(c, v, k) \subseteq {v, Nil}
BY DEF EffectOf

\* The value a call writes is not among its rivals'.
LEMMA OwnValue ==
    ASSUME TypeOK, Rivals, NEW r \in Threads, NEW k \in Keys
    PROVE  Val(r) \notin rival[r][k] /\ Val(r) # Nil
<1>1. Val(r) # Nil /\ Val(r)[1] = r
  BY ValType, ConstantsAssumption DEF Val
<1> QED BY <1>1 DEF Rivals

\* A call that begins and those under way become rivals of each other.
LEMMA RivalsBegin ==
    ASSUME TypeOK, Rivals, NEW p \in Threads, Begin(p)
    PROVE  Rivals'
<1>1. PICK c \in Program[p][ops[p] + 1] :
        /\ call' = [call EXCEPT ![p] = c]
        /\ rival' = [q \in Threads |->
              [k \in Keys |->
                 IF q = p
                 THEN UNION {Effect(o, k) : o \in Threads \ {p}}
                 ELSE rival[q][k] \cup
                      (IF Active(q) THEN EffectOf(c, Val(p), k) ELSE {})]]
  BY DEF Begin
<1>2. /\ pc[p] = "idle" /\ ops' = ops
      /\ \A q \in Threads \ {p} : pc'[q] = pc[q] /\ call'[q] = call[q]
      /\ call'[p] = c
  BY <1>1 DEF Begin, Goto, StartRebuild, TypeOK, ThreadTypes
<1>3. \A q \in Threads \ {p} : \A k \in Keys :
        /\ Effect(q, k)' = Effect(q, k) /\ (Active(q)' <=> Active(q))
        /\ rival'[q][k] = rival[q][k] \cup
             (IF Active(q) THEN EffectOf(c, Val(p), k) ELSE {})
  BY <1>1, <1>2 DEF Effect, EffectOf, Active, Val
<1>4. \A k \in Keys : /\ Effect(p, k)' \subseteq EffectOf(c, Val(p), k)
                      /\ rival'[p][k] = UNION {Effect(o, k) : o \in Threads \ {p}}
  BY <1>1, <1>2 DEF Effect, EffectOf, Active, Val
<1>5. ASSUME NEW r \in Threads, NEW q \in Threads, NEW k \in Keys, r # q,
             Active(r)', Active(q)'
      PROVE  Effect(q, k)' \subseteq rival'[r][k]
  <2>1. CASE r = p
    BY <1>3, <1>4, <1>5, <2>1
  <2>2. CASE q = p
    BY <1>3, <1>4, <1>5, <2>2
  <2>3. CASE r # p /\ q # p
    BY <1>3, <1>5, <2>3 DEF Rivals
  <2> QED BY <2>1, <2>2, <2>3
<1>6. \A o \in Threads : Val(o)[1] = o
  BY DEF Val
<1>7. ASSUME NEW r \in Threads, NEW k \in Keys, NEW x \in rival'[r][k]
      PROVE  x = Nil \/ x[1] # r
  <2>1. CASE r = p
    <3>1. PICK o \in Threads \ {p} : x \in Effect(o, k)
      BY <1>4, <1>7, <2>1
    <3>2. x \in {Val(o), Nil}
      BY <3>1, EffectValues DEF Effect
    <3> QED BY <1>6, <2>1, <3>1, <3>2
  <2>2. CASE r # p
    <3>1. x \in rival[r][k] \/ x \in EffectOf(c, Val(p), k)
      BY <1>3, <1>7, <2>2
    <3>2. x \in EffectOf(c, Val(p), k) => x \in {Val(p), Nil}
      BY EffectValues
    <3> QED BY <1>6, <2>2, <3>1, <3>2 DEF Rivals
  <2> QED BY <2>1, <2>2
<1> QED BY <1>5, <1>7 DEF Rivals

\* A rival stays one until the call returns.
LEMMA RivalsStep ==
    ASSUME TypeOK, Rivals, NEW p \in Threads, Begin(p) \/ Step(p)
    PROVE  Rivals'
<1>1. CASE Begin(p)
  BY <1>1, RivalsBegin
<1>2. CASE Return(p)
  <2>1. /\ pc'[p] = "idle"
        /\ \A q \in Threads \ {p} : pc'[q] = pc[q] /\ call'[q] = call[q]
             /\ ops'[q] = ops[q] /\ rival'[q] = rival[q]
        /\ \A k \in Keys : rival'[p][k] = {}
    BY <1>2 DEF Return, Goto, TypeOK, ThreadTypes, HistoryTypes, NoOutcomes
  <2>2. ~Active(p)' /\ \A q \in Threads \ {p} : Active(q)' <=> Active(q)
    BY <2>1 DEF Active
  <2>3. \A q \in Threads \ {p} : \A k \in Keys : Effect(q, k)' = Effect(q, k)
    BY <2>1 DEF Effect, EffectOf, Active, Val
  <2> QED BY <2>1, <2>2, <2>3 DEF Rivals
<1>3. CASE ~Begin(p) /\ ~Return(p)
  <2>1. UNCHANGED <<call, ops, rival>> /\ pc[p] # "idle" /\ pc'[p] # "idle"
    BY <1>3, StepCall
  <2>2. \A q \in Threads \ {p} : pc'[q] = pc[q]
    BY StepFrame DEF Frame, TypeOK
  <2>3. \A q \in Threads : /\ Active(q)' <=> Active(q)
                           /\ \A k \in Keys : Effect(q, k)' = Effect(q, k)
    BY <2>1, <2>2 DEF Effect, EffectOf, Active, Val
  <2> QED BY <2>1, <2>3 DEF Rivals
<1> QED BY <1>1, <1>2, <1>3
-----------------------------------------------------------------------------
(***************************************************************************)
(* Homes: the children of the roots, and what is below each of them.       *)
(***************************************************************************)
\* The home of a node is the child of a root, present or past, that it is below;
\* the roots have none.
TreeHomes(H) ==
    /\ H \in [Nodes -> Nodes \cup {0}]
    /\ H[ptr[RootCell].node] = 0
    /\ \A c \in SlotCells : ptr[c].node # Nil =>
         H[ptr[c].node] = IF H[c[1]] = 0 THEN ptr[c].node ELSE H[c[1]]

\* A writer remembers the slot of the root where it entered a child, and is
\* below that child, which is still there or retired.
WalkHomes(H, p) ==
    call[p].op \in Writers /\ pc[p] \notin {"idle", "root"} =>
        /\ H[walk[p].entry] = 0
        /\ walk[p].snap = RootCell => walk[p].cur = walk[p].entry /\ walk[p].depth = 0
        /\ walk[p].snap # RootCell =>
             /\ walk[p].snap = predict_slot(walk[p].entry, call[p].key)
             /\ H[walk[p].child] = walk[p].child /\ H[walk[p].cur] # 0
             /\ walk[p].child <= used
             /\ Leaf(call[p].key)[walk[p].child] = Leaf(call[p].key)[walk[p].cur]
             /\ \/ ptr[walk[p].snap].node = walk[p].child
                \/ walk[p].child \in retired

\* A subtree rebuild freezes a slot of a root.  What is left to scan is below
\* the frozen pointer, where the keys of a slot lead from there.
ScanHomes(R, H, p) ==
    /\ Rebuilding(p) => /\ rb[p].cell = RootCell <=> rb[p].kind # "subtree"
                        /\ rb[p].cell # RootCell => H[rb[p].cell[1]] = 0
    /\ pc[p] = "rb_scan" =>
         \A i \in 1..Len(rb[p].todo) :
           /\ rb[p].todo[i][1] = rb[p].victim \/ H[rb[p].todo[i][1]] # 0
           /\ rb[p].cell # RootCell =>
                \A k \in OnSlot(R, rb[p].todo[i]) :
                  Leaf(k)[rb[p].todo[i][1]] = Leaf(k)[rb[p].victim]

\* The tree and its threads have these homes.
Homed(R, H) ==
    /\ TreeHomes(H)
    /\ \A p \in Threads : WalkHomes(H, p) /\ ScanHomes(R, H, p)

\* Zero is no node, so that it can stand for no home.
LEMMA NodeZero == TypeOK => 0 \notin Nodes /\ Nodes = 1..MaxNodes /\ MaxNodes \in Nat
BY UsedFacts

\* The leaf of a node below a home is below it as well.
LEMMA LeafHome ==
    ASSUME IInv, OwnInv, NEW H, TreeHomes(H), NEW k \in Keys, NEW n \in Nodes,
           H[n] # 0
    PROVE  H[Leaf(k)[n]] = H[n]
<1> DEFINE S == {i \in Nodes : H[i] # 0 => H[Leaf(k)[i]] = H[i]}
<1>1. Nodes = 1..MaxNodes /\ MaxNodes \in Nat /\ 0 \notin Nodes
  BY NodeZero DEF IInv
<1>2. ASSUME NEW i \in 1..MaxNodes, \A j \in (i + 1)..MaxNodes : j \in S
      PROVE  i \in S
  <2>1. PICK c : c = predict_slot(i, k)
    OBVIOUS
  <2>2. Leaf(k)[i] = IF IsChild(st[c]) THEN Leaf(k)[ptr[c].node] ELSE i
    BY <1>1, <2>1, LeafNow DEF LeafSpec, LeafOf
  <2>3. CASE IsChild(st[c])
    <3>1. /\ ptr[c].node \in Nodes /\ ptr[c].node \in (i + 1)..MaxNodes
          /\ ptr[c].node # Nil /\ c \in SlotCells /\ c[1] = i
      BY <1>1, <2>1, <2>3, ChildFacts
    <3>2. H[ptr[c].node] = IF H[i] = 0 THEN ptr[c].node ELSE H[i]
      BY <3>1 DEF TreeHomes
    <3> QED BY <1>1, <1>2, <2>2, <2>3, <3>1, <3>2
  <2>4. CASE ~IsChild(st[c])
    BY <1>1, <2>2, <2>4
  <2> QED BY <2>3, <2>4
<1>3. 1..MaxNodes \subseteq S
  <2> HIDE DEF S
  <2> QED BY <1>1, <1>2, Downwards
<1> QED BY <1>1, <1>3

\* A child has a home.
LEMMA ChildHome ==
    ASSUME TypeOK, NEW H, TreeHomes(H), NEW c \in SlotCells, ptr[c].node # Nil
    PROVE  H[ptr[c].node] # 0 /\ (H[c[1]] = 0 => H[ptr[c].node] = ptr[c].node)
<1>1. ptr[c].node \in Nodes \cup {Nil}
  BY CellFacts DEF TypeOK, TreeTypes, Ptrs
<1> QED BY <1>1, NodeZero DEF TreeHomes

\* A new child has its parent's home, or is one itself; a new root has none.
LEMMA HomesNew ==
    ASSUME IInv, OwnInv, NEW H, TreeHomes(H), NEW d \in Cells, Fresh \in Nodes,
           d # RootCell => d[1] <= used,
           ptr' = [ptr EXCEPT ![d] = Plain(Fresh)],
           NEW X, X = IF d = RootCell THEN 0
                      ELSE IF H[d[1]] = 0 THEN Fresh ELSE H[d[1]],
           NEW G, G = [H EXCEPT ![Fresh] = X]
    PROVE  TreeHomes(G)'
<1>1. /\ TypeOK /\ used \in 1..MaxNodes /\ MaxNodes \in Nat
      /\ Nodes = 1..MaxNodes /\ Fresh = used + 1
      /\ \A c \in SlotCells : c[1] \in 1..MaxNodes
  BY UsedFacts DEF IInv
<1>2. X \in Nodes \cup {0}
  <2>1. d # RootCell => d \in SlotCells /\ d[1] \in Nodes
    BY <1>1, CellFacts
  <2> QED BY <2>1 DEF TreeHomes
<1>3. /\ G \in [Nodes -> Nodes \cup {0}] /\ G[Fresh] = X
      /\ \A n \in Nodes : n # Fresh => G[n] = H[n]
  BY <1>2 DEF TreeHomes
<1>4. \A c \in Cells : ptr'[c].node = IF c = d THEN Fresh ELSE ptr[c].node
  BY <1>1 DEF TypeOK, TreeTypes, Plain
<1>5. G[ptr'[RootCell].node] = 0
  <2>1. CASE d = RootCell
    BY <1>3, <1>4, <2>1
  <2>2. CASE d # RootCell
    <3>1. ptr[RootCell].node \in 1..used
      BY DEF IInv, TreeInv
    <3>2. ptr[RootCell].node \in Nodes /\ ptr[RootCell].node # Fresh
      BY <1>1, <3>1
    <3>3. ptr'[RootCell].node = ptr[RootCell].node
      BY <1>4, <2>2, CellFacts
    <3> QED BY <1>3, <3>2, <3>3 DEF TreeHomes
  <2> QED BY <2>1, <2>2
<1>6. ASSUME NEW c \in SlotCells, ptr'[c].node # Nil
      PROVE  G[ptr'[c].node] = IF G[c[1]] = 0 THEN ptr'[c].node ELSE G[c[1]]
  <2>1. c \in Cells /\ c # RootCell
    BY CellFacts
  <2>2. CASE c = d
    <3>1. c[1] \in Nodes /\ c[1] # Fresh
      BY <1>1, <2>1, <2>2
    <3> QED BY <1>3, <1>4, <2>1, <2>2, <3>1
  <2>3. CASE c # d
    <3>1. ptr'[c].node = ptr[c].node
      BY <1>4, <2>1, <2>3
    <3>2. c[1] <= used /\ ptr[c].node \in Nodes /\ ptr[c].node <= used
      BY <1>6, <3>1, Allocated
    <3>3. ptr[c].node # Fresh /\ c[1] # Fresh /\ c[1] \in Nodes
      BY <1>1, <3>2
    <3> QED BY <1>3, <1>6, <3>1, <3>2, <3>3 DEF TreeHomes
  <2> QED BY <2>2, <2>3
<1> QED BY <1>3, <1>5, <1>6 DEF TreeHomes

\* What is inherited down a tree of n nodes: the root 1 has X; another node j has
\* what the earlier node from[j] has, or its own when that is zero.
Inherits(n, Y, X, from, own) ==
    /\ n \in Nat \ {0} /\ X \in Y /\ own \in [2..n -> Y]
    /\ from \in [2..n -> 1..n] /\ \A j \in 2..n : from[j] < j

LEMMA Inherited ==
    ASSUME NEW n, NEW Y, NEW X, NEW from, NEW own, Inherits(n, Y, X, from, own)
    PROVE  \E A \in [1..n -> Y] :
             /\ A[1] = X
             /\ \A j \in 2..n : A[j] = IF A[from[j]] = 0 THEN own[j] ELSE A[from[j]]
<1> USE DEF Inherits
<1> DEFINE of(f, j) == IF j = 1 THEN X
                       ELSE IF f[n + 1 - from[j]] = 0 THEN own[j]
                            ELSE f[n + 1 - from[j]]
           F == [h \in 1..n |-> [f \in [1..n -> Y] |-> of(f, n + 1 - h)]]
<1>1. \A h \in 1..n : n + 1 - h \in 1..n /\ n + 1 - (n + 1 - h) = h
  OBVIOUS
<1>2. \A j \in 1..n : j # 1 => j \in 2..n /\ from[j] \in 1..n /\ from[j] < j
  OBVIOUS
<1>3. ASSUME NEW j \in 1..n, NEW f \in [1..n -> Y] PROVE of(f, j) \in Y
  <2>1. CASE j = 1
    BY <2>1
  <2>2. CASE j # 1
    <3>1. n + 1 - from[j] \in 1..n /\ own[j] \in Y
      BY <1>1, <1>2, <2>2
    <3> QED BY <2>2, <3>1
  <2> QED BY <2>1, <2>2
<1>4. \A h \in 1..n : \A f \in [1..n -> Y] : F[h][f] = of(f, n + 1 - h)
  OBVIOUS
<1>5. ASSUME NEW h \in 1..n, NEW e \in [1..n -> Y], NEW f \in [1..n -> Y],
             \A i \in (h + 1)..n : e[i] = f[i]
      PROVE  of(e, n + 1 - h) = of(f, n + 1 - h)
  <2>1. PICK j : j = n + 1 - h /\ j \in 1..n
    BY <1>1
  <2>2. CASE j = 1
    BY <2>1, <2>2
  <2>3. CASE j # 1
    <3>1. n + 1 - from[j] \in (h + 1)..n
      BY <1>2, <2>1, <2>3
    <3>2. e[n + 1 - from[j]] = f[n + 1 - from[j]]
      BY <1>5, <3>1
    <3> QED BY <2>1, <2>3, <3>2
  <2> QED BY <2>2, <2>3
<1>6. Recursion(n, Y, F)
  <2>1. F \in [1..n -> [[1..n -> Y] -> Y]]
    <3>1. \A h \in 1..n : \A f \in [1..n -> Y] : of(f, n + 1 - h) \in Y
      BY <1>1, <1>3
    <3> HIDE DEF of
    <3> QED BY <3>1
  <2>2. \A h \in 1..n : \A e, f \in [1..n -> Y] :
          (\A i \in (h + 1)..n : e[i] = f[i]) => F[h][e] = F[h][f]
    <3> SUFFICES ASSUME NEW h \in 1..n, NEW e \in [1..n -> Y], NEW f \in [1..n -> Y],
                        \A i \in (h + 1)..n : e[i] = f[i]
                 PROVE  F[h][e] = F[h][f]
      OBVIOUS
    <3>1. of(e, n + 1 - h) = of(f, n + 1 - h)
      BY <1>5
    <3>2. F[h][e] = of(e, n + 1 - h) /\ F[h][f] = of(f, n + 1 - h)
      BY <1>4
    <3> QED BY <3>1, <3>2
  <2> HIDE DEF F, of
  <2> QED BY <2>1, <2>2 DEF Recursion
<1>7. PICK f \in [1..n -> Y] : \A h \in 1..n : f[h] = of(f, n + 1 - h)
  <2> HIDE DEF F, of
  <2>1. \E f : Solution(n, Y, F, f)
    BY <1>6, Solvable
  <2> QED BY <1>4, <2>1 DEF Solution
<1>8. PICK A : A = [j \in 1..n |-> f[n + 1 - j]]
  OBVIOUS
<1>9. A \in [1..n -> Y] /\ \A j \in 1..n : A[j] = f[n + 1 - j] /\ A[j] = of(f, j)
  <2>1. \A j \in 1..n : f[n + 1 - j] \in Y /\ f[n + 1 - j] = of(f, j)
    <3> HIDE DEF of
    <3> QED BY <1>1, <1>7
  <2> HIDE DEF of
  <2> QED BY <1>8, <2>1
<1>10. A[1] = X
  <2>1. 1 \in 1..n
    OBVIOUS
  <2> QED BY <1>9, <2>1
<1>11. ASSUME NEW j \in 2..n
       PROVE  A[j] = IF A[from[j]] = 0 THEN own[j] ELSE A[from[j]]
  <2>1. j \in 1..n /\ j # 1 /\ from[j] \in 1..n
    OBVIOUS
  <2>2. A[from[j]] = f[n + 1 - from[j]] /\ A[j] = of(f, j)
    <3> HIDE DEF of
    <3> QED BY <1>9, <2>1
  <2> QED BY <2>1, <2>2
<1> QED BY <1>9, <1>10, <1>11

\* The nodes of a tree put below a root's slot get one home, the tree itself or
\* that of its parent; those of a new root are below its children.
LEMMA HomesSwap ==
    ASSUME IInv, OwnInv, NEW H, TreeHomes(H),
           NEW kind, NEW g, NEW E, NEW d, Added(kind, g, E, d),
           d # RootCell => d[1] <= used
    PROVE  \E G : TreeHomes(G)' /\ Agree(H, G)
<1>1. PICK n, u : n = Len(g) /\ u = used
  OBVIOUS
<1>2. /\ u \in Nat \ {0} /\ Nodes = 1..MaxNodes /\ MaxNodes \in Nat /\ 0 \notin Nodes
      /\ n \in Nat \ {0} /\ used' = u + n /\ used' \in Nodes
      /\ Fresh = u + 1 /\ d \in Cells
      /\ \A c \in SlotCells : c[1] \in Nodes
      /\ \A c \in SlotCells : c \in NewCells <=> c[1] > u /\ c[1] <= used'
      /\ \A c \in Cells \ NewCells :
           ptr'[c].node = IF c = d THEN Fresh ELSE ptr[c].node
  BY <1>1, AddedNodes, NodeZero DEF IInv
<1>3. H \in [Nodes -> Nodes \cup {0}]
  BY DEF TreeHomes
<1>4. PICK cell \in [2..n -> NewCells] : \A j \in 2..n : NewLink(kind, g, cell[j], j)
  <2>1. \A j \in 2..n : \E c \in NewCells : NewLink(kind, g, c, j)
    BY <1>1 DEF Added
  <2> DEFINE h == [j \in 2..n |-> CHOOSE c \in NewCells : NewLink(kind, g, c, j)]
  <2>2. \A j \in 2..n : h[j] \in NewCells /\ NewLink(kind, g, h[j], j)
    BY <2>1
  <2>3. h \in [2..n -> NewCells]
    BY <2>2
  <2> HIDE DEF h
  <2> QED BY <2>2, <2>3
<1>5. PICK from, own : /\ from = [j \in 2..n |-> cell[j][1] - u]
                       /\ own = [j \in 2..n |-> u + j]
  OBVIOUS
<1>6. ASSUME NEW j \in 2..n
      PROVE  /\ cell[j] \in NewCells /\ from[j] = cell[j][1] - u
             /\ from[j] \in 1..n /\ from[j] < j /\ own[j] = u + j /\ own[j] \in Nodes
             /\ \A c \in NewCells : NewLink(kind, g, c, j) => c = cell[j]
  <2>1. PICK c \in NewCells : c = cell[j] /\ NewLink(kind, g, c, j)
    BY <1>4
  <2>2. \A x \in NewCells : NewLink(kind, g, x, j) => x = c
    BY <1>1, <2>1 DEF Added
  <2>3. c[1] - u \in 1..n /\ c[1] - u < j
    BY <1>1, <2>1, AddedKeys
  <2>4. u + j \in Nodes
    BY <1>2
  <2> QED BY <1>5, <2>1, <2>2, <2>3, <2>4
<1>7. PICK X : X = IF d = RootCell THEN 0 ELSE IF H[d[1]] = 0 THEN Fresh ELSE H[d[1]]
  OBVIOUS
<1>8. X \in Nodes \cup {0}
  <2>1. d # RootCell => d \in SlotCells /\ d[1] \in Nodes
    BY <1>2, CellFacts
  <2>2. Fresh \in Nodes
    BY <1>2
  <2> QED BY <1>3, <1>7, <2>1, <2>2
<1>9. PICK A \in [1..n -> Nodes \cup {0}] :
         /\ A[1] = X
         /\ \A j \in 2..n : A[j] = IF A[from[j]] = 0 THEN u + j ELSE A[from[j]]
  <2>1. from \in [2..n -> 1..n] /\ own \in [2..n -> Nodes \cup {0}]
    <3>1. from = [j \in 2..n |-> from[j]] /\ own = [j \in 2..n |-> own[j]]
      BY <1>5
    <3> QED BY <3>1, <1>6
  <2>2. \E B \in [1..n -> Nodes \cup {0}] :
          /\ B[1] = X
          /\ \A j \in 2..n : B[j] = IF B[from[j]] = 0 THEN own[j] ELSE B[from[j]]
    <3>1. \A j \in 2..n : from[j] < j
      BY <1>6
    <3>2. PICK Y, m : Y = Nodes \cup {0} /\ m = n /\ m \in Nat \ {0} /\ X \in Y
      BY <1>2, <1>8
    <3>3. from \in [2..m -> 1..m] /\ own \in [2..m -> Y] /\ \A j \in 2..m : from[j] < j
      BY <2>1, <3>1, <3>2
    <3>4. \E B \in [1..m -> Y] :
            /\ B[1] = X
            /\ \A j \in 2..m : B[j] = IF B[from[j]] = 0 THEN own[j] ELSE B[from[j]]
      <4>1. Inherits(m, Y, X, from, own)
        BY <3>2, <3>3 DEF Inherits
      <4> QED BY <4>1, Inherited
    <3> QED BY <3>2, <3>4
  <2>3. PICK B \in [1..n -> Nodes \cup {0}] :
          /\ B[1] = X
          /\ \A j \in 2..n : B[j] = IF B[from[j]] = 0 THEN own[j] ELSE B[from[j]]
    BY <2>2
  <2>4. \A j \in 2..n : B[j] = IF B[from[j]] = 0 THEN u + j ELSE B[from[j]]
    BY <1>6, <2>3
  <2> QED BY <2>3, <2>4
<1>10. PICK G : G = [m \in Nodes |-> IF m > u /\ m <= used' THEN A[m - u] ELSE H[m]]
  OBVIOUS
<1>11. /\ G \in [Nodes -> Nodes \cup {0}]
       /\ \A m \in Nodes : m <= u => G[m] = H[m]
       /\ \A i \in 1..n : G[u + i] = A[i] /\ u + i \in Nodes
  <2>1. \A m \in Nodes : m > u /\ m <= used' => A[m - u] \in Nodes \cup {0}
    BY <1>2, <1>9
  <2>2. \A m \in Nodes : G[m] = IF m > u /\ m <= used' THEN A[m - u] ELSE H[m]
    BY <1>10
  <2>3. \A m \in Nodes : m <= u => ~(m > u)
    BY <1>2
  <2>4. \A i \in 1..n : /\ u + i \in Nodes /\ u + i > u /\ u + i <= used'
                        /\ (u + i) - u = i
    BY <1>2
  <2>5. G = [m \in Nodes |-> G[m]]
    BY <1>10
  <2> QED BY <1>3, <2>1, <2>2, <2>3, <2>4, <2>5
<1>12. G[Fresh] = X
  BY <1>2, <1>9, <1>11
<1>13. G[ptr'[RootCell].node] = 0
  <2>1. RootCell \in Cells \ NewCells
    BY CellFacts DEF NewCells
  <2>2. CASE d = RootCell
    BY <1>2, <1>7, <1>12, <2>1, <2>2
  <2>3. CASE d # RootCell
    <3>1. ptr'[RootCell].node = ptr[RootCell].node /\ ptr[RootCell].node \in 1..used
      BY <1>2, <2>1, <2>3 DEF IInv, TreeInv
    <3>2. ptr[RootCell].node \in Nodes /\ ptr[RootCell].node <= u
      BY <1>1, <1>2, <3>1
    <3> QED BY <1>11, <3>1, <3>2 DEF TreeHomes
  <2> QED BY <2>2, <2>3
<1>14. ASSUME NEW c \in SlotCells, ptr'[c].node # Nil
       PROVE  G[ptr'[c].node] = IF G[c[1]] = 0 THEN ptr'[c].node ELSE G[c[1]]
  <2>1. CASE c \in NewCells
    <3>1. PICK j \in 2..n : NewLink(kind, g, c, j)
      BY <1>1, <1>14, <2>1, AddedNodes
    <3>2. ptr'[c].node = u + j /\ j \in 1..n
      BY <1>1, <2>1, <3>1, AddedNodes
    <3>3. from[j] = c[1] - u /\ from[j] \in 1..n
      BY <1>6, <2>1, <3>1
    <3>4. u + from[j] = c[1]
      BY <1>2, <3>3
    <3>5. G[c[1]] = A[from[j]]
      BY <1>11, <3>3, <3>4
    <3> QED BY <1>9, <1>11, <3>2, <3>5
  <2>2. CASE c \notin NewCells /\ c = d
    <3>1. c # RootCell /\ c \in Cells
      BY CellFacts
    <3>2. ptr'[c].node = Fresh /\ c[1] <= u /\ c[1] \in Nodes
      BY <1>1, <1>2, <2>2, <3>1
    <3> QED BY <1>7, <1>11, <1>12, <2>2, <3>1, <3>2
  <2>3. CASE c \notin NewCells /\ c # d
    <3>1. ptr'[c].node = ptr[c].node
      BY <1>2, <2>3, CellFacts
    <3>2. c[1] <= u /\ c[1] \in Nodes /\ ptr[c].node \in Nodes /\ ptr[c].node <= u
      BY <1>1, <1>2, <1>14, <3>1, Allocated
    <3> QED BY <1>11, <1>14, <3>1, <3>2 DEF TreeHomes
  <2> QED BY <2>1, <2>2, <2>3
<1>15. TreeHomes(G)'
  BY <1>11, <1>13, <1>14 DEF TreeHomes
<1>16. Agree(H, G)
  BY <1>1, <1>11 DEF Agree
<1> QED BY <1>15, <1>16

\* Any step of a thread.
LEMMA StepHomes ==
    ASSUME IInv, OwnInv, NEW R, NEW H, Homed(R, H), NEW p \in Threads, Stages(p),
           Begin(p) \/ Step(p)
    PROVE  \E G : TreeHomes(G)' /\ Agree(H, G)
<1>1. TypeOK /\ TypeOK' /\ TreeHomes(H)
  BY StepTypes DEF IInv, Homed
<1>2. /\ used \in 1..MaxNodes /\ MaxNodes \in Nat /\ Nodes = 1..MaxNodes
      /\ Fresh = used + 1
  BY <1>1, UsedFacts
<1>3. CASE Quiet(p) \/ PublishInline(p) \/ RemoveHit(p)
  <2>1. \A c \in Cells : ptr'[c].node = ptr[c].node
    BY <1>1, <1>3, QuietTree DEF PublishInline, RemoveHit
  <2>2. TreeHomes(H)'
    BY <1>1, <2>1, CellFacts DEF TreeHomes
  <2> QED BY <2>2 DEF Agree
<1>4. ASSUME NEW d \in Cells, Fresh \in Nodes, d # RootCell => d[1] <= used,
             ptr' = [ptr EXCEPT ![d] = Plain(Fresh)]
      PROVE  \E G : TreeHomes(G)' /\ Agree(H, G)
  <2>1. PICK X, G : /\ X = IF d = RootCell THEN 0
                           ELSE IF H[d[1]] = 0 THEN Fresh ELSE H[d[1]]
                    /\ G = [H EXCEPT ![Fresh] = X]
    OBVIOUS
  <2>2. TreeHomes(G)'
    BY <1>1, <1>4, <2>1, HomesNew
  <2>3. Agree(H, G)
    BY <1>1, <1>2, <2>1 DEF Agree, TreeHomes
  <2> QED BY <2>2, <2>3
<1>5. CASE PublishChild(p)
  <2>1. Fresh \in Nodes /\ ptr' = [ptr EXCEPT ![Here(p)] = Plain(Fresh)]
    BY <1>5 DEF PublishChild, AddNode
  <2>2. Here(p) \in Cells /\ Here(p)[1] <= used
    BY <1>1, HereCell, CellFacts DEF IInv, ThreadInv
  <2> QED BY <1>4, <2>1, <2>2
<1>6. CASE Swap(p)
  <2>1. PICK g : Added(rb[p].kind, g, NewEntries(p), rb[p].cell)
    BY <1>6, SwapAdds
  <2>2. rb[p].cell # RootCell => rb[p].cell[1] <= used
    BY <1>6, SwapAdds
  <2> QED BY <1>1, <2>1, <2>2, HomesSwap
<1> QED BY <1>3, <1>5, <1>6 DEF Step, LocalStep, Quiet

\* The node of a slot being rebuilt has no parent.
LEMMA NoParent ==
    ASSUME TypeOK, NEW R, NEW H, Homed(R, H), NEW p \in Threads, Rebuilding(p),
           rb[p].cell # RootCell
    PROVE  \A c \in SlotCells : ptr[c].node # rb[p].cell[1]
<1>1. H[rb[p].cell[1]] = 0 /\ TreeHomes(H)
  BY DEF Homed, ScanHomes
<1>2. rb[p].cell \in SlotCells /\ rb[p].cell[1] \in Nodes
  BY CellFacts DEF TypeOK, ThreadTypes, Scans, SlotCells
<1> QED BY <1>1, <1>2, ChildHome, ConstantsAssumption

\* Nodes of one home that lead to one leaf still do after the step.
LEMMA LeafPairs ==
    ASSUME IInv, OwnInv, NEW R, NEW H, Homed(R, H), NEW p \in Threads, Stages(p),
           Begin(p) \/ Step(p), NEW k \in Keys, NEW i \in 1..used, NEW j \in 1..used,
           H[i] # 0, H[j] # 0, Leaf(k)[i] = Leaf(k)[j]
    PROVE  Leaf(k)'[i] = Leaf(k)'[j]
<1>1. /\ IInv' /\ OwnInv' /\ TypeOK' /\ TreeStep(p) /\ Frame(p) /\ Grows /\ TypeOK
      /\ Nodes = 1..MaxNodes /\ MaxNodes \in Nat /\ used \in 1..MaxNodes
  BY StepBase, UsedFacts DEF IInv
<1>2. CASE Quiet(p)
  BY <1>1, <1>2, QuietValues
<1>3. CASE Write(p)
  <2>1. pc[p] = "publish" => call[p].op # "remove"
    BY DEF Stages
  <2> QED BY <1>1, <1>3, <2>1, WriteValues
<1>4. CASE Swap(p)
  <2>1. rb[p].kind # "none" /\ Rebuilding(p)
    BY <1>4 DEF Swap, Stages, Rebuilding, Sweepers
  <2>2. rb[p].cell # RootCell => \A c \in SlotCells : ptr[c].node # rb[p].cell[1]
    BY <1>1, <2>1, NoParent
  <2>3. PICK x : x = Fresh
    OBVIOUS
  <2>4. \A n \in 1..used : Leaf(k)'[n] = IF predict_slot(n, k) = rb[p].cell
                                           THEN Leaf(k)'[x] ELSE Leaf(k)[n]
    BY <1>1, <1>4, <2>1, <2>2, <2>3, SwapValues
  <2>5. ASSUME NEW n \in 1..used, H[n] # 0
        PROVE  predict_slot(n, k) # rb[p].cell
    <3>1. n \in Nodes
      BY <1>1
    <3>2. predict_slot(n, k) \in SlotCells /\ predict_slot(n, k)[1] = n
      BY <1>1, <3>1, PredictCell
    <3>3. rb[p].cell # RootCell => H[rb[p].cell[1]] = 0
      BY <2>1 DEF Homed, ScanHomes
    <3> QED BY <2>5, <3>2, <3>3, CellFacts
  <2> QED BY <2>4, <2>5
<1> QED BY <1>2, <1>3, <1>4 DEF Step, LocalStep, Quiet, Write

\* A node that was replaced stays retired.
LEMMA RetiredKept ==
    ASSUME NEW p \in Threads, Begin(p) \/ Step(p)
    PROVE  retired \subseteq retired'
<1> USE DEF tree
<1>1. CASE Begin(p) \/ Return(p)
  BY <1>1 DEF Begin, Return
<1>3. CASE LoadRoot(p) \/ Descend(p) \/ Claim(p) \/ PublishInline(p) \/ PublishChild(p)
  BY <1>3 DEF LoadRoot, Descend, Claim, PublishInline, PublishChild
<1>4. CASE RemoveMiss(p) \/ RemoveHit(p) \/ GetExisting(p) \/ Validate(p)
  BY <1>4 DEF RemoveMiss, RemoveHit, GetExisting, Validate
<1>5. CASE CheckRatio(p) \/ LoadOwn(p) \/ Recheck(p) \/ Count(p) \/ CheckGrowth(p)
  BY <1>5 DEF CheckRatio, LoadOwn, Recheck, Count, CheckGrowth
<1>6. CASE AdvanceThreshold(p) \/ ReadRoot(p) \/ ReadStep(p) \/ ScanStep(p) \/ ScanEnd(p)
  BY <1>6 DEF AdvanceThreshold, ReadRoot, ReadStep, ScanStep, ScanEnd
<1>7. CASE LoadVictim(p) \/ Freeze(p) \/ Unfreeze(p) \/ Swap(p) \/ ResetCounters(p)
  BY <1>7 DEF LoadVictim, Freeze, Unfreeze, Swap, ResetCounters
<1> QED BY <1>1, <1>3, <1>4, <1>5, <1>6, <1>7 DEF Step

\* A child is replaced by a swap only, which retires it.
LEMMA ChildKept ==
    ASSUME IInv, OwnInv, NEW p \in Threads, Stages(p), Begin(p) \/ Step(p),
           NEW c \in SlotCells, IsChild(st[c])
    PROVE  ptr'[c].node = ptr[c].node \/ ptr[c].node \in retired'
<1>1. TypeOK /\ TypeOK' /\ SlotExclusive /\ c \in Cells /\ ptr \in [Cells -> Ptrs]
  BY StepTypes, CellFacts DEF IInv, TypeOK, TreeTypes
<1>2. CASE Quiet(p) \/ PublishInline(p) \/ RemoveHit(p)
  BY <1>1, <1>2, QuietTree DEF PublishInline, RemoveHit
<1>3. CASE PublishChild(p)
  <2>1. st[Here(p)] = "WRITING" /\ ptr' = [ptr EXCEPT ![Here(p)] = Plain(Fresh)]
    BY <1>1, <1>3 DEF PublishChild, SlotExclusive
  <2>2. c # Here(p)
    BY <2>1 DEF IsChild
  <2> QED BY <1>1, <2>1, <2>2
<1>4. CASE Swap(p)
  <2>1. /\ ptr[rb[p].cell] = Frozen(rb[p].victim)
        /\ \A e \in Cells : e[1] <= used /\ e # rb[p].cell => ptr'[e] = ptr[e]
        /\ retired' = retired \cup {rb[p].victim}
    BY <1>4, SwapFacts
  <2>2. c[1] <= used
    BY <1>1, CellUsed DEF IInv
  <2> QED BY <1>1, <2>1, <2>2 DEF Frozen
<1> QED BY <1>2, <1>3, <1>4 DEF Step, LocalStep, Quiet

\* A writer that the step does not move.
LEMMA WalkKept ==
    ASSUME IInv, OwnInv, NEW R, NEW H, Homed(R, H), NEW p \in Threads, Stages(p),
           Begin(p) \/ Step(p), NEW G, Agree(H, G), NEW q \in Threads,
           call'[q] = call[q], pc[q] \notin {"idle", "root"},
           walk'[q].entry = walk[q].entry, walk'[q].cur = walk[q].cur,
           walk'[q].snap = walk[q].snap, walk'[q].child = walk[q].child,
           walk'[q].depth = walk[q].depth
    PROVE  WalkHomes(G, q)'
<1>1. /\ IInv' /\ OwnInv' /\ TypeOK' /\ TreeStep(p) /\ Frame(p) /\ Grows /\ TypeOK
      /\ Nodes = 1..MaxNodes /\ MaxNodes \in Nat /\ used \in 1..MaxNodes
      /\ 0 \notin Nodes /\ ThreadTypes
  BY StepBase, UsedFacts, NodeZero DEF IInv, TypeOK
<1>2. /\ walk[q].cur \in 1..used /\ walk[q].entry \in 1..used
      /\ walk[q].snap \in Cells /\ walk[q].child \in Nodes /\ call[q].key \in Keys
  BY <1>1 DEF IInv, ThreadInv, ThreadTypes, Walks, Calls
<1>3. \A n \in 1..used : G[n] = H[n] /\ n \in Nodes /\ n <= used'
  <2>1. used <= used' /\ used' \in 1..MaxNodes
    BY <1>1 DEF Grows, TypeOK, TreeTypes
  <2> QED BY <1>1, <2>1 DEF Agree
<1>4. WalkHomes(H, q) /\ TreeHomes(H)
  BY DEF Homed
<1> SUFFICES ASSUME call[q].op \in Writers PROVE WalkHomes(G, q)'
  BY DEF WalkHomes
<1>5. /\ H[walk[q].entry] = 0
      /\ walk[q].snap = RootCell => walk[q].cur = walk[q].entry /\ walk[q].depth = 0
  BY <1>4 DEF WalkHomes
<1>6. CASE walk[q].snap = RootCell
  BY <1>2, <1>3, <1>5, <1>6 DEF WalkHomes
<1>7. CASE walk[q].snap # RootCell
  <2>1. PICK k, c, m, n, e : /\ k = call[q].key /\ c = walk[q].snap
                             /\ m = walk[q].child /\ n = walk[q].cur
                             /\ e = walk[q].entry
    OBVIOUS
  <2>2. /\ c = predict_slot(e, k)
        /\ H[m] = m /\ H[n] # 0 /\ m <= used /\ Leaf(k)[m] = Leaf(k)[n]
        /\ ptr[c].node = m \/ m \in retired
    BY <1>4, <1>7, <2>1 DEF WalkHomes
  <2>3. m \in 1..used /\ H[m] # 0 /\ n \in 1..used /\ k \in Keys
    BY <1>1, <1>2, <2>1, <2>2
  <2>4. Leaf(k)'[m] = Leaf(k)'[n]
    BY <2>2, <2>3, LeafPairs
  <2>5. c \in SlotCells /\ IsChild(st[c])
    BY <1>2, <1>7, <2>1, CellFacts DEF IInv, ThreadInv
  <2>6. ptr'[c].node = m \/ m \in retired'
    BY <2>2, <2>5, ChildKept, RetiredKept
  <2>7. c = predict_slot(e, k)'
    BY <1>1, <1>2, <2>1, <2>2 DEF predict_slot, Grows, TreeStep
  <2>8. Leaf(call[q].key)'[m] = Leaf(call[q].key)'[n]
    BY <2>1, <2>4
  <2> QED BY <1>2, <1>3, <1>5, <1>7, <2>1, <2>2, <2>3, <2>4, <2>6, <2>7 DEF WalkHomes
<1> QED BY <1>6, <1>7

\* The step leaves its writer where it says.
LEMMA StepWalkHomes ==
    ASSUME IInv, OwnInv, NEW R, NEW H, Homed(R, H), NEW p \in Threads, Stages(p),
           OnlyWriters(p), Begin(p) \/ Step(p), NEW G, Agree(H, G)
    PROVE  WalkHomes(G, p)'
<1>1. /\ IInv' /\ OwnInv' /\ TypeOK' /\ TreeStep(p) /\ Frame(p) /\ Grows /\ TypeOK
      /\ Nodes = 1..MaxNodes /\ MaxNodes \in Nat /\ used \in 1..MaxNodes
      /\ 0 \notin Nodes /\ ThreadTypes
  BY StepBase, UsedFacts, NodeZero DEF IInv, TypeOK
<1>2. /\ walk[p].cur \in 1..used /\ walk[p].entry \in 1..used /\ walk[p] \in Walks
      /\ walk[p].snap \in Cells /\ walk[p].child \in Nodes /\ call[p].key \in Keys
  BY <1>1 DEF IInv, ThreadInv, ThreadTypes, Walks, Calls
<1>3. \A n \in 1..used : G[n] = H[n] /\ n \in Nodes /\ n <= used'
  <2>1. used <= used' /\ used' \in 1..MaxNodes
    BY <1>1 DEF Grows, TypeOK, TreeTypes
  <2> QED BY <1>1, <2>1 DEF Agree
<1>4. WalkHomes(H, p) /\ TreeHomes(H)
  BY DEF Homed
<1> USE DEF Goto
<1>5. CASE Begin(p)
  <2>1. PICK c \in Program[p][ops[p] + 1] :
          /\ call' = [call EXCEPT ![p] = c]
          /\ IF c.op \in Sweepers
             THEN StartRebuild(p, c.op, RootCell)
             ELSE /\ Goto(p, IF c.op \in Writers THEN "root" ELSE "read_root")
                  /\ UNCHANGED rb
    BY <1>5 DEF Begin
  <2>2. call'[p] = c
    BY <1>1, <2>1 DEF ThreadTypes
  <2>3. c.op \in Writers => pc'[p] = "root"
    BY <1>1, <2>1 DEF ThreadTypes, Writers, Sweepers
  <2> QED BY <2>2, <2>3 DEF WalkHomes
<1>6. CASE Return(p)
  <2>1. pc'[p] = "idle"
    BY <1>1, <1>6 DEF Return, ThreadTypes
  <2> QED BY <2>1 DEF WalkHomes
<1>7. CASE LoadRoot(p)
  <2>1. /\ walk'[p] = WalkFrom(ptr[RootCell].node) /\ call' = call
    BY <1>1, <1>7 DEF LoadRoot, ThreadTypes
  <2>2. /\ walk'[p].cur = ptr[RootCell].node /\ walk'[p].entry = ptr[RootCell].node
        /\ walk'[p].snap = RootCell /\ walk'[p].depth = 0
    BY <2>1 DEF WalkFrom, NoWalk
  <2>3. ptr[RootCell].node \in 1..used
    BY DEF IInv, TreeInv
  <2>4. G[ptr[RootCell].node] = 0
    BY <1>3, <1>4, <2>3 DEF TreeHomes
  <2> QED BY <2>2, <2>4 DEF WalkHomes
<1>8. CASE Descend(p)
  <2>1. PICK c, k : c = Here(p) /\ k = call[p].key
    OBVIOUS
  <2>2. /\ pc[p] = "slot" /\ IsChild(st[c]) /\ call' = call /\ ptr' = ptr
        /\ walk'[p] = Followed(p, c) /\ model' = model
    BY <1>1, <1>8, <2>1 DEF Descend, ThreadTypes, tree
  <2>3. call[p].op \in Writers
    BY <2>2 DEF OnlyWriters
  <2>4. PICK m : m = ptr[c].node
    OBVIOUS
  <2>5. c = predict_slot(walk[p].cur, k) /\ k \in Keys
    BY <1>2, <2>1 DEF Here
  <2>6. /\ c \in SlotCells /\ c # RootCell /\ c[1] = walk[p].cur
        /\ m \in 1..used /\ m # Nil /\ m \in Nodes
    BY <1>1, <1>2, <1>3, <2>2, <2>4, <2>5, ChildFacts
  <2>7. H[m] # 0 /\ (H[walk[p].cur] = 0 => H[m] = m)
    BY <1>1, <1>4, <2>4, <2>6, ChildHome
  <2>8. \A n \in 1..used : Leaf(k)'[n] = Leaf(k)[n]
    <3>1. Quiet(p)
      BY <1>8 DEF Quiet, LocalStep
    <3> QED BY <1>1, <2>5, <3>1, QuietValues
  <2>9. Leaf(k)[walk[p].cur] = Leaf(k)[m]
    BY <1>2, <1>3, <2>2, <2>4, <2>5, LeafNow DEF LeafSpec, LeafOf
  <2>10. CASE walk[p].snap = RootCell
    <3>1. /\ walk'[p].entry = walk[p].entry /\ walk'[p].cur = m
          /\ walk'[p].snap = c /\ walk'[p].child = m
      BY <1>2, <2>2, <2>4, <2>10 DEF Followed, Walks
    <3>2. walk[p].cur = walk[p].entry /\ H[walk[p].entry] = 0
      BY <1>4, <2>2, <2>3, <2>10 DEF WalkHomes
    <3>3. G[walk[p].entry] = 0 /\ G[m] = m /\ G[m] # 0 /\ m <= used'
      BY <1>2, <1>3, <2>6, <2>7, <3>2
    <3>6. PICK e : e = walk[p].entry
      OBVIOUS
    <3>4. c = predict_slot(e, k)'
      BY <2>2, <2>5, <3>2, <3>6 DEF predict_slot
    <3>5. call'[p].key = k /\ ptr'[c].node = m
      BY <2>1, <2>2, <2>4
    <3> QED BY <2>6, <3>1, <3>3, <3>4, <3>5, <3>6 DEF WalkHomes
  <2>11. CASE walk[p].snap # RootCell
    <3>1. PICK b, e, d : b = walk[p].child /\ e = walk[p].entry /\ d = walk[p].snap
      OBVIOUS
    <3>2. /\ walk'[p].entry = e /\ walk'[p].cur = m
          /\ walk'[p].snap = d /\ walk'[p].child = b
      BY <1>2, <2>2, <2>4, <2>11, <3>1 DEF Followed, Walks
    <3>3. /\ H[e] = 0 /\ d = predict_slot(e, k)
          /\ H[b] = b /\ b <= used /\ Leaf(k)[b] = Leaf(k)[walk[p].cur]
          /\ ptr[d].node = b \/ b \in retired
      BY <1>4, <2>1, <2>2, <2>3, <2>11, <3>1 DEF WalkHomes
    <3>4. b \in 1..used /\ e \in 1..used
      BY <1>1, <1>2, <3>1, <3>3
    <3>5. G[e] = 0 /\ G[b] = b /\ G[m] # 0 /\ b <= used'
      BY <1>3, <2>6, <2>7, <3>3, <3>4
    <3>6. Leaf(k)'[b] = Leaf(k)'[m]
      BY <2>6, <2>8, <2>9, <3>3, <3>4
    <3>7. d = predict_slot(e, k)'
      BY <2>2, <3>3 DEF predict_slot
    <3>8. ptr'[d].node = b \/ b \in retired'
      BY <2>2, <3>3, RetiredKept
    <3>9. call'[p].key = k /\ d # RootCell
      BY <2>1, <2>2, <2>11, <3>1
    <3> QED BY <3>2, <3>5, <3>6, <3>7, <3>8, <3>9 DEF WalkHomes
  <2> QED BY <2>10, <2>11
<1>9. CASE Claim(p)
  <2>1. /\ walk'[p].cur = walk[p].cur /\ walk'[p].entry = walk[p].entry
        /\ walk'[p].snap = walk[p].snap /\ walk'[p].child = walk[p].child
        /\ walk'[p].depth = walk[p].depth /\ call' = call /\ pc[p] = "slot"
    BY <1>1, <1>2, <1>9 DEF Claim, ThreadTypes, Walks
  <2> QED BY <2>1, WalkKept
<1>10. CASE Validate(p)
  <2>1. pc[p] = "validate" /\ call' = call
    BY <1>10 DEF Validate
  <2>2. CASE walk' = walk
    BY <2>1, <2>2, WalkKept
  <2>3. CASE walk' = [walk EXCEPT ![p] = WalkFrom(walk[p].entry)]
    <3>1. /\ walk'[p].cur = walk[p].entry /\ walk'[p].entry = walk[p].entry
          /\ walk'[p].snap = RootCell /\ walk'[p].depth = 0
      BY <1>1, <2>3 DEF ThreadTypes, WalkFrom, NoWalk
    <3>2. H[walk[p].entry] = 0
      BY <1>4, <2>1 DEF OnlyWriters, WalkHomes
    <3> QED BY <1>2, <1>3, <3>1, <3>2 DEF WalkHomes
  <2> QED BY <1>10, <2>2, <2>3 DEF Validate
<1>11. CASE LoadOwn(p) \/ ReadRoot(p) \/ ReadStep(p)
  <2>1. call' = call /\ pc[p] \in {"own", "read_root", "read"}
    BY <1>11 DEF LoadOwn, ReadRoot, ReadStep
  <2>2. walk' = walk \/ \E n : walk' = [walk EXCEPT ![p].at = n]
    BY <1>11 DEF LoadOwn, ReadRoot, ReadStep
  <2>3. /\ walk'[p].cur = walk[p].cur /\ walk'[p].entry = walk[p].entry
        /\ walk'[p].snap = walk[p].snap /\ walk'[p].child = walk[p].child
        /\ walk'[p].depth = walk[p].depth
    BY <1>1, <1>2, <2>2 DEF ThreadTypes, Walks
  <2> QED BY <2>1, <2>3, WalkKept
<1>12. CASE PublishInline(p) \/ PublishChild(p) \/ RemoveMiss(p) \/ RemoveHit(p)
            \/ GetExisting(p) \/ CheckRatio(p) \/ Recheck(p) \/ Count(p)
            \/ CheckGrowth(p) \/ AdvanceThreshold(p) \/ ScanStep(p) \/ ScanEnd(p)
            \/ LoadVictim(p) \/ Freeze(p) \/ Unfreeze(p) \/ Swap(p)
            \/ ResetCounters(p)
  <2>1. UNCHANGED <<call, walk>> /\ pc[p] \notin {"idle", "root"}
    BY <1>12 DEF PublishInline, PublishChild, RemoveMiss, RemoveHit, GetExisting,
       CheckRatio, Recheck, Count, CheckGrowth, AdvanceThreshold, ScanStep, ScanEnd,
       LoadVictim, Freeze, Unfreeze, Swap, ResetCounters
  <2> QED BY <2>1, WalkKept
<1> QED BY <1>5, <1>6, <1>7, <1>8, <1>9, <1>10, <1>11, <1>12 DEF Step

\* The frozen pointer of a rebuild and what it scans are allocated.
LEMMA ScanFacts ==
    ASSUME IInv, OwnInv, NEW q \in Threads, pc[q] = "rb_scan"
    PROVE  /\ rb[q].cell \in Cells /\ rb[q].victim \in 1..used
           /\ rb[q].todo \in Seq(SlotCells) /\ rb[q].pairs \in SUBSET Entries
           /\ ptr[rb[q].cell] = Frozen(rb[q].victim)
           /\ ptr[rb[q].cell].node = rb[q].victim /\ ptr[rb[q].cell].tag = 1
           /\ rb[q].victim # Nil /\ rb[q].victim \in Nodes
           /\ rb[q].cell # RootCell => /\ rb[q].cell \in SlotCells
                                       /\ rb[q].cell[1] \in 1..used
                                       /\ IsChild(st[rb[q].cell])
<1>1. /\ rb[q].cell \in Cells /\ rb[q].victim \in Nodes
      /\ rb[q].todo \in Seq(SlotCells) /\ rb[q].pairs \in SUBSET Entries
  BY DEF IInv, TypeOK, ThreadTypes, Scans
<1>2. ptr[rb[q].cell] = Frozen(rb[q].victim)
  BY DEF IInv, FreezeExclusive, Freezing
<1>3. ptr[rb[q].cell].node = rb[q].victim /\ ptr[rb[q].cell].tag = 1
  BY <1>2 DEF Frozen
<1>4. rb[q].victim # Nil
  BY <1>1, ConstantsAssumption
<1>5. Nodes = 1..MaxNodes /\ MaxNodes \in Nat /\ used \in 1..MaxNodes
      /\ \A c \in SlotCells : c[1] \in 1..MaxNodes
  BY UsedFacts DEF IInv
<1>6. rb[q].cell # RootCell => rb[q].cell \in SlotCells
  BY <1>1, CellFacts
<1>7. rb[q].victim \in 1..used
  <2>1. CASE rb[q].cell = RootCell
    BY <1>3, <2>1 DEF IInv, TreeInv
  <2>2. CASE rb[q].cell # RootCell
    <3>1. rb[q].victim <= used
      BY <1>3, <1>4, <1>6, <2>2, Allocated
    <3> QED BY <1>1, <1>5, <3>1
  <2> QED BY <2>1, <2>2
<1>8. rb[q].cell # RootCell => rb[q].cell[1] \in 1..used /\ IsChild(st[rb[q].cell])
  <2> SUFFICES ASSUME rb[q].cell # RootCell
               PROVE  rb[q].cell[1] \in 1..used /\ IsChild(st[rb[q].cell])
    OBVIOUS
  <2>1. rb[q].cell[1] <= used /\ rb[q].cell[1] \in 1..MaxNodes
    BY <1>3, <1>4, <1>5, <1>6, Allocated
  <2>2. IsChild(st[rb[q].cell])
    BY <1>3, <1>4, <1>6 DEF OwnInv, NoStrayChild
  <2> QED BY <1>5, <2>1, <2>2
<1> QED BY <1>1, <1>2, <1>3, <1>4, <1>6, <1>7, <1>8

\* The keys of an allocated slot stay the same.
LEMMA OnSlotKept ==
    ASSUME TypeOK, NEW R, NEW U, Agree(R, U), Grows, NEW c \in SlotCells, c[1] <= used
    PROVE  OnSlot(U, c)' = OnSlot(R, c)
<1>1. c[1] \in Nodes /\ c[1] \in 1..used
  BY UsedFacts
<1>2. model'[c[1]] = model[c[1]] /\ U[c[1]] = R[c[1]]
  BY <1>1 DEF Grows, Agree
<1> QED BY <1>2 DEF OnSlot, predict_slot

\* ScanHomes after a step, spelled out.
LEMMA ScanHomesNext ==
    ASSUME NEW U, NEW G, NEW q
    PROVE  ScanHomes(U, G, q)' <=>
             /\ Rebuilding(q)' => /\ rb'[q].cell = RootCell <=> rb'[q].kind # "subtree"
                                  /\ rb'[q].cell # RootCell => G[rb'[q].cell[1]] = 0
             /\ pc'[q] = "rb_scan" => \A i \in 1..Len(rb'[q].todo) : \A d :
                  d = rb'[q].todo[i] =>
                    /\ d[1] = rb'[q].victim \/ G[d[1]] # 0
                    /\ rb'[q].cell # RootCell =>
                         \A k \in U[d[1]] : <<d[1], model'[d[1]].slot[k]>> = d =>
                           Leaf(k)'[d[1]] = Leaf(k)'[rb'[q].victim]
BY DEF ScanHomes, OnSlot, predict_slot

\* The rebuilds of the other threads.
LEMMA OtherScanHomes ==
    ASSUME IInv, OwnInv, NEW R, Routed(R), NEW H, Homed(R, H), NEW p \in Threads,
           Stages(p), Begin(p) \/ Step(p), NEW U, Agree(R, U), NEW G, Agree(H, G),
           NEW q \in Threads \ {p}
    PROVE  ScanHomes(U, G, q)'
<1>1. /\ IInv' /\ OwnInv' /\ TypeOK' /\ TreeStep(p) /\ Frame(p) /\ Grows /\ TypeOK
      /\ Nodes = 1..MaxNodes /\ MaxNodes \in Nat /\ used \in 1..MaxNodes
      /\ 0 \notin Nodes /\ ThreadTypes
  BY StepBase, UsedFacts, NodeZero DEF IInv, TypeOK
<1>2. pc'[q] = pc[q] /\ rb'[q] = rb[q]
  BY <1>1 DEF Frame
<1>3. ScanHomes(R, H, q) /\ TreeHomes(H) /\ ScanRoutes(R, q)
  BY DEF Homed, Routed
<1>4. \A n \in 1..used : G[n] = H[n] /\ n \in Nodes
  BY <1>1 DEF Agree
<1>5. Rebuilding(q)' => /\ rb'[q].cell = RootCell <=> rb'[q].kind # "subtree"
                        /\ rb'[q].cell # RootCell => G[rb'[q].cell[1]] = 0
  <2> SUFFICES ASSUME Rebuilding(q)
               PROVE  /\ rb[q].cell = RootCell <=> rb[q].kind # "subtree"
                      /\ rb[q].cell # RootCell => G[rb[q].cell[1]] = 0
    BY <1>2 DEF Rebuilding
  <2>1. /\ rb[q].cell = RootCell <=> rb[q].kind # "subtree"
        /\ rb[q].cell # RootCell => H[rb[q].cell[1]] = 0
    BY <1>3 DEF ScanHomes
  <2>2. rb[q].cell # RootCell => rb[q].cell[1] \in 1..used
    <3>1. rb[q].cell # RootCell =>
            rb[q].cell \in SlotCells /\ IsChild(st[rb[q].cell])
      BY <1>1, CellFacts DEF ThreadTypes, Scans, IInv, ThreadInv
    <3>2. rb[q].cell # RootCell => ptr[rb[q].cell].node # Nil
      BY <3>1 DEF IInv, TreeInv
    <3> QED BY <1>1, <3>1, <3>2, Allocated, UsedFacts
  <2> QED BY <1>4, <2>1, <2>2
<1>6. ASSUME pc[q] = "rb_scan", NEW i \in 1..Len(rb[q].todo), NEW d, d = rb[q].todo[i]
      PROVE  /\ d[1] = rb[q].victim \/ G[d[1]] # 0
             /\ rb[q].cell # RootCell =>
                  \A k \in U[d[1]] : <<d[1], model'[d[1]].slot[k]>> = d =>
                    Leaf(k)'[d[1]] = Leaf(k)'[rb[q].victim]
  <2>1. PICK c, m : c = rb[q].todo[i] /\ m = rb[q].victim /\ c = d
    BY <1>6
  <2>2. /\ c \in SlotCells /\ c[1] <= used /\ c[1] \in 1..used /\ m \in 1..used
    <3>1. rb[q].todo \in Seq(SlotCells)
      BY <1>1 DEF ThreadTypes, Scans
    <3>2. c \in SlotCells
      BY <1>6, <2>1, <3>1
    <3>3. c[1] <= used /\ c[1] \in 1..MaxNodes
      BY <1>1, <1>3, <1>6, <2>1, <3>2, UsedFacts DEF ScanRoutes
    <3> QED BY <1>1, <1>6, <2>1, <3>2, <3>3, ScanFacts
  <2>3. /\ c[1] = m \/ H[c[1]] # 0
        /\ rb[q].cell # RootCell =>
             \A k \in OnSlot(R, c) : Leaf(k)[c[1]] = Leaf(k)[m]
    BY <1>3, <1>6, <2>1 DEF ScanHomes
  <2>4. OnSlot(U, c)' = OnSlot(R, c)
    BY <1>1, <2>2, OnSlotKept
  <2>5. ASSUME rb[q].cell # RootCell, NEW k \in OnSlot(R, c)
        PROVE  Leaf(k)'[c[1]] = Leaf(k)'[m]
    <3>1. H[m] # 0
      BY <1>1, <1>3, <1>6, <2>1, <2>5, ScanFacts, ChildHome
    <3>2. k \in Keys
      BY <1>1, <2>2, <2>5 DEF OnSlot, Routed, TreeRoutes
    <3>3. H[c[1]] # 0 /\ Leaf(k)[c[1]] = Leaf(k)[m]
      BY <2>3, <2>5, <3>1
    <3> QED BY <2>2, <3>1, <3>2, <3>3, LeafPairs
  <2>6. \A k \in U[c[1]] : <<c[1], model'[c[1]].slot[k]>> = c => k \in OnSlot(R, c)
    BY <2>4 DEF OnSlot, predict_slot
  <2> QED BY <1>4, <2>1, <2>2, <2>3, <2>5, <2>6
<1>7. ScanHomes(U, G, q)' <=>
        /\ Rebuilding(q)' => /\ rb'[q].cell = RootCell <=> rb'[q].kind # "subtree"
                             /\ rb'[q].cell # RootCell => G[rb'[q].cell[1]] = 0
        /\ pc'[q] = "rb_scan" => \A i \in 1..Len(rb'[q].todo) : \A d :
             d = rb'[q].todo[i] =>
               /\ d[1] = rb'[q].victim \/ G[d[1]] # 0
               /\ rb'[q].cell # RootCell =>
                    \A k \in U[d[1]] : <<d[1], model'[d[1]].slot[k]>> = d =>
                      Leaf(k)'[d[1]] = Leaf(k)'[rb'[q].victim]
  BY ScanHomesNext
<1> QED BY <1>2, <1>5, <1>6, <1>7

\* What the step leaves its thread to rebuild.
LEMMA StepScanHomes ==
    ASSUME IInv, OwnInv, NEW R, Routed(R), NEW H, Homed(R, H), NEW p \in Threads,
           Stages(p), Begin(p) \/ Step(p), NEW U, Agree(R, U), NEW G, Agree(H, G)
    PROVE  ScanHomes(U, G, p)'
<1>1. /\ IInv' /\ OwnInv' /\ TypeOK' /\ TreeStep(p) /\ Frame(p) /\ Grows /\ TypeOK
      /\ Nodes = 1..MaxNodes /\ MaxNodes \in Nat /\ used \in 1..MaxNodes
      /\ 0 \notin Nodes /\ ThreadTypes /\ rb[p] \in Scans
  BY StepBase, UsedFacts, NodeZero DEF IInv, TypeOK, ThreadTypes
<1>2. ScanHomes(R, H, p) /\ WalkHomes(H, p) /\ TreeHomes(H) /\ ScanRoutes(R, p)
      /\ OnlyWriters(p)
  BY DEF Homed, Routed
<1>3. \A n \in 1..used : G[n] = H[n] /\ n \in Nodes
  BY <1>1 DEF Agree
<1>4. ASSUME ~Rebuilding(p)' PROVE ScanHomes(U, G, p)'
  BY <1>4 DEF ScanHomes, Rebuilding
<1>5. ASSUME NEW kind, StartRebuild(p, kind, RootCell), kind # "subtree"
      PROVE  ScanHomes(U, G, p)'
  <2>1. pc'[p] = "rb_load" /\ rb'[p].cell = RootCell /\ rb'[p].kind = kind
    BY <1>1, <1>5 DEF StartRebuild, NoScan, Goto, ThreadTypes
  <2> QED BY <1>5, <2>1 DEF ScanHomes, Rebuilding
<1>6. ASSUME pc[p] \notin {"idle", "root"}, call[p].op \in Writers,
             walk[p].snap # RootCell, StartRebuild(p, "subtree", walk[p].snap)
      PROVE  ScanHomes(U, G, p)'
  <2>1. pc'[p] = "rb_load" /\ rb'[p].cell = walk[p].snap /\ rb'[p].kind = "subtree"
    BY <1>1, <1>6 DEF StartRebuild, NoScan, Goto, ThreadTypes
  <2>2. walk[p].snap = predict_slot(walk[p].entry, call[p].key) /\ H[walk[p].entry] = 0
    BY <1>2, <1>6 DEF WalkHomes
  <2>3. walk[p].snap[1] = walk[p].entry /\ walk[p].entry \in 1..used
    <3>1. walk[p].entry \in Nodes /\ call[p].key \in Keys /\ walk[p].entry <= used
      BY <1>1 DEF ThreadTypes, Walks, Calls, IInv, ThreadInv
    <3> QED BY <1>1, <2>2, <3>1, PredictCell
  <2> QED BY <1>3, <1>6, <2>1, <2>2, <2>3 DEF ScanHomes, Rebuilding
<1> USE DEF Goto
<1>7. CASE Begin(p)
  <2>1. PICK c \in Program[p][ops[p] + 1] :
          IF c.op \in Sweepers
          THEN StartRebuild(p, c.op, RootCell)
          ELSE Goto(p, IF c.op \in Writers THEN "root" ELSE "read_root")
    BY <1>7 DEF Begin
  <2>2. CASE c.op \in Sweepers
    <3>1. c.op # "subtree"
      BY <2>2 DEF Sweepers
    <3> QED BY <1>5, <2>1, <2>2, <3>1
  <2>3. CASE c.op \notin Sweepers
    <3>1. pc'[p] \in {"root", "read_root"}
      BY <1>1, <2>1, <2>3 DEF ThreadTypes
    <3> QED BY <1>4, <3>1 DEF Rebuilding
  <2> QED BY <2>2, <2>3
<1>8. CASE Validate(p)
  <2>1. pc[p] = "validate" /\ call[p].op \in Writers
    BY <1>2, <1>8 DEF Validate, OnlyWriters
  <2>2. CASE TooDeep(p) /\ StartRebuild(p, "subtree", walk[p].snap)
    <3>1. walk[p].depth # 0
      BY <1>1, <2>2, ConstantsAssumption DEF TooDeep, ThreadTypes, Walks
    <3>2. walk[p].snap # RootCell
      BY <1>2, <2>1, <3>1 DEF WalkHomes
    <3> QED BY <1>6, <2>1, <2>2, <3>2
  <2>3. CASE pc'[p] \in {"slot", "ratio", "own", "recheck"}
    BY <1>4, <2>3 DEF Rebuilding
  <2> QED BY <1>1, <1>8, <2>2, <2>3 DEF Validate, AfterTrigger, ThreadTypes
<1>9. CASE CheckRatio(p)
  <2>1. pc[p] = "ratio" /\ call[p].op \in Writers
    BY <1>2, <1>9 DEF CheckRatio, OnlyWriters
  <2>2. CASE walk[p].snap # RootCell /\ StartRebuild(p, "subtree", walk[p].snap)
    BY <1>6, <2>1, <2>2
  <2>3. CASE pc'[p] = "recheck"
    BY <1>4, <2>3 DEF Rebuilding
  <2> QED BY <1>1, <1>9, <2>2, <2>3 DEF CheckRatio, ThreadTypes
<1>10. CASE AdvanceThreshold(p)
  <2>1. CASE StartRebuild(p, "rebuild", RootCell)
    BY <1>5, <2>1
  <2>2. CASE pc'[p] = "return"
    BY <1>4, <2>2 DEF Rebuilding
  <2> QED BY <1>1, <1>10, <2>1, <2>2 DEF AdvanceThreshold, ThreadTypes
<1>11. ASSUME Rebuilding(p), rb'[p].cell = rb[p].cell, rb'[p].kind = rb[p].kind
       PROVE  /\ rb'[p].cell = RootCell <=> rb'[p].kind # "subtree"
              /\ rb'[p].cell # RootCell => G[rb'[p].cell[1]] = 0
  <2>1. /\ rb[p].cell = RootCell <=> rb[p].kind # "subtree"
        /\ rb[p].cell # RootCell => H[rb[p].cell[1]] = 0
    BY <1>2, <1>11 DEF ScanHomes
  <2>2. rb[p].cell # RootCell => rb[p].cell[1] \in 1..used
    <3>1. rb[p].cell # RootCell =>
            rb[p].cell \in SlotCells /\ IsChild(st[rb[p].cell])
      BY <1>1, <1>11, CellFacts DEF Scans, IInv, ThreadInv
    <3>2. rb[p].cell # RootCell => ptr[rb[p].cell].node # Nil
      BY <3>1 DEF IInv, TreeInv
    <3> QED BY <1>1, <3>1, <3>2, Allocated, UsedFacts
  <2> QED BY <1>3, <1>11, <2>1, <2>2
<1>12. CASE LoadVictim(p)
  <2>1. Rebuilding(p)
    BY <1>12 DEF LoadVictim, Rebuilding
  <2>2. CASE pc'[p] = Caller(p)
    BY <1>4, <2>2 DEF Caller, AfterTrigger, Rebuilding
  <2>3. CASE pc'[p] = "rb_freeze" /\ rb' = [rb EXCEPT ![p].victim = ptr[rb[p].cell].node]
    <3>1. rb'[p].cell = rb[p].cell /\ rb'[p].kind = rb[p].kind
      BY <1>1, <2>3 DEF Scans, ThreadTypes
    <3> QED BY <1>11, <2>1, <2>3, <3>1 DEF ScanHomes
  <2> QED BY <1>1, <1>12, <2>2, <2>3 DEF LoadVictim, GiveUp, ThreadTypes
<1>13. CASE Freeze(p)
  <2>1. Rebuilding(p)
    BY <1>13 DEF Freeze, Rebuilding
  <2>2. CASE pc'[p] = Caller(p)
    BY <1>4, <2>2 DEF Caller, AfterTrigger, Rebuilding
  <2>3. CASE pc'[p] = "rb_scan" /\ rb' = [rb EXCEPT ![p].todo = ScanOf(rb[p].victim)]
    <3>1. PICK v : v = rb[p].victim
      OBVIOUS
    <3>2. rb'[p].cell = rb[p].cell /\ rb'[p].kind = rb[p].kind /\ rb'[p].victim = v
          /\ rb'[p].todo = ScanOf(v) /\ v \in Nodes
      BY <1>1, <2>3, <3>1 DEF Scans, ThreadTypes
    <3>3. \A i \in 1..Len(ScanOf(v)) : ScanOf(v)[i][1] = v
      BY <1>1, <3>2, ScanOfNode
    <3>4. \A i \in 1..Len(rb'[p].todo) : rb'[p].todo[i][1] = rb'[p].victim
      BY <3>2, <3>3
    <3> QED BY <1>11, <2>1, <2>3, <3>2, <3>4 DEF ScanHomes
  <2> QED BY <1>1, <1>13, <2>2, <2>3 DEF Freeze, GiveUp, ThreadTypes
<1>14. CASE Unfreeze(p) \/ Swap(p) \/ ResetCounters(p)
  <2>1. pc'[p] \in {Caller(p), "rb_post"}
    BY <1>1, <1>14 DEF Unfreeze, Swap, ResetCounters, GiveUp, ThreadTypes
  <2> QED BY <1>4, <2>1 DEF Caller, AfterTrigger, Rebuilding
<1>15. CASE ScanStep(p) /\ pc[p] = "rb_scan"
  <2>1. PICK c, v, todo, below, rest :
          /\ c = Head(rb[p].todo) /\ v = rb[p].victim /\ todo = rb[p].todo
          /\ below = IF IsChild(st[c]) THEN ScanOf(ptr[c].node) ELSE <<>>
          /\ rest = Tail(todo)
    OBVIOUS
  <2>2. /\ pc' = pc /\ todo # <<>> /\ UNCHANGED <<used, model>>
        /\ rb'[p] = Scanned(p, c)
    BY <1>1, <1>15, <2>1 DEF ScanStep, ThreadTypes, tree
  <2>3. /\ rb'[p].victim = v /\ rb'[p].todo = below \o rest
        /\ rb'[p].cell = rb[p].cell /\ rb'[p].kind = rb[p].kind
    BY <1>1, <2>1, <2>2 DEF Scanned, Scans
  <2>4. todo \in Seq(SlotCells) /\ v \in 1..used
    BY <1>15, <2>1, ScanFacts
  <2> DEFINE good(d) ==
         /\ d \in SlotCells /\ d[1] \in 1..used
         /\ d[1] = v \/ H[d[1]] # 0
         /\ rb[p].cell # RootCell => \A k \in OnSlot(R, d) : Leaf(k)[d[1]] = Leaf(k)[v]
  <2>5. ASSUME NEW i \in 1..Len(todo) PROVE good(todo[i])
    <3>1. todo[i] \in SlotCells /\ todo[i][1] \in 1..MaxNodes
      BY <1>1, <2>4, UsedFacts
    <3>2. todo[i][1] <= used
      BY <1>2, <1>15, <2>1 DEF ScanRoutes
    <3>3. /\ todo[i][1] = v \/ H[todo[i][1]] # 0
          /\ rb[p].cell # RootCell =>
               \A k \in OnSlot(R, todo[i]) : Leaf(k)[todo[i][1]] = Leaf(k)[v]
      BY <1>2, <1>15, <2>1 DEF ScanHomes
    <3> QED BY <1>1, <3>1, <3>2, <3>3
  <2>6. c = todo[1] /\ 1 \in 1..Len(todo)
    BY <2>1, <2>2, <2>4
  <2>7. good(c)
    BY <2>5, <2>6
  <2>8. rest \in Seq(SlotCells) /\ \A i \in 1..Len(rest) : good(rest[i])
    <3>1. /\ rest \in Seq(SlotCells) /\ Len(rest) = Len(todo) - 1
          /\ \A i \in 1..Len(rest) : rest[i] = todo[i + 1]
      BY <2>1, <2>2, <2>4
    <3>2. Len(todo) \in Nat
      BY <2>4
    <3>3. \A i \in 1..Len(rest) : i + 1 \in 1..Len(todo)
      BY <3>1, <3>2
    <3> HIDE DEF good
    <3> QED BY <2>5, <3>1, <3>3
  <2>9. below \in Seq(SlotCells) /\ \A i \in 1..Len(below) : good(below[i])
    <3>1. CASE IsChild(st[c])
      <4>1. PICK m : m = ptr[c].node
        OBVIOUS
      <4>2. m # Nil
        BY <2>7, <3>1, <4>1 DEF IInv, TreeInv
      <4>3. m \in Nodes /\ m <= used /\ m \in 1..used
        BY <1>1, <2>7, <4>1, <4>2, Allocated
      <4>4. H[m] # 0 /\ R[m] = OnSlot(R, c)
        BY <1>1, <1>2, <2>7, <4>1, <4>2, ChildHome DEF Routed, TreeRoutes
      <4>5. /\ below \in Seq(SlotCells)
            /\ \A i \in 1..Len(below) : below[i][1] = m
        BY <1>1, <2>1, <3>1, <4>1, <4>3, ScanOfNode, ScanOfType
      <4>6. ASSUME NEW i \in 1..Len(below) PROVE good(below[i])
        <5>1. PICK d : d = below[i]
          OBVIOUS
        <5>2. d \in SlotCells /\ d[1] = m
          BY <4>5, <5>1
        <5>3. ASSUME rb[p].cell # RootCell, NEW k \in OnSlot(R, d)
              PROVE  Leaf(k)[m] = Leaf(k)[v]
          <6>1. k \in OnSlot(R, c)
            BY <4>4, <5>2, <5>3 DEF OnSlot
          <6>2. k \in Keys /\ predict_slot(c[1], k) = c
            BY <1>1, <1>3, <2>7, <6>1 DEF OnSlot, Routed, TreeRoutes
          <6>3. Leaf(k)[c[1]] = Leaf(k)[m]
            BY <1>3, <2>7, <3>1, <4>1, <6>2, LeafNow DEF LeafSpec, LeafOf
          <6> QED BY <2>7, <5>3, <6>1, <6>3
        <5> QED BY <4>3, <4>4, <5>1, <5>2, <5>3
      <4> QED BY <4>5, <4>6
    <3>2. CASE ~IsChild(st[c])
      <4>1. below = <<>>
        BY <2>1, <3>2
      <4> QED BY <4>1
    <3> QED BY <3>1, <3>2
  <2>10. \A i \in 1..Len(below \o rest) : good((below \o rest)[i])
    <3> HIDE DEF good
    <3> QED BY <2>8, <2>9, ConcatProperties
  <2>11. Quiet(p)
    BY <1>15 DEF Quiet, LocalStep
  <2>12. \A k \in Keys : \A n \in 1..used : Leaf(k)'[n] = Leaf(k)[n]
    BY <1>1, <2>11, QuietValues
  <2>13. ASSUME NEW i \in 1..Len(rb'[p].todo), NEW d, d = rb'[p].todo[i]
         PROVE  /\ d[1] = rb'[p].victim \/ G[d[1]] # 0
                /\ rb'[p].cell # RootCell =>
                     \A k \in U[d[1]] : <<d[1], model'[d[1]].slot[k]>> = d =>
                       Leaf(k)'[d[1]] = Leaf(k)'[rb'[p].victim]
    <3>2. good(d)
      <4> HIDE DEF good
      <4> QED BY <2>3, <2>10, <2>13
    <3>4. OnSlot(U, d)' = OnSlot(R, d)
      BY <1>1, <3>2, OnSlotKept
    <3>5. \A k \in OnSlot(R, d) : k \in Keys
      BY <1>3, <3>2, <1>2 DEF OnSlot, Routed, TreeRoutes
    <3>6. \A k \in U[d[1]] : <<d[1], model'[d[1]].slot[k]>> = d => k \in OnSlot(R, d)
      BY <3>4 DEF OnSlot, predict_slot
    <3> QED BY <1>3, <2>3, <2>4, <2>12, <3>2, <3>5, <3>6
  <2>14. Rebuilding(p)
    BY <1>15 DEF Rebuilding
  <2> QED BY <1>11, <2>3, <2>13, <2>14, ScanHomesNext
<1>16. CASE ScanStep(p) /\ pc[p] # "rb_scan"
  <2>1. pc'[p] = "scan"
    BY <1>16 DEF ScanStep
  <2> QED BY <1>4, <2>1 DEF Rebuilding
<1>17. CASE Return(p) \/ LoadRoot(p) \/ Claim(p) \/ PublishInline(p)
            \/ PublishChild(p) \/ RemoveMiss(p) \/ RemoveHit(p) \/ GetExisting(p)
            \/ LoadOwn(p) \/ Recheck(p) \/ Count(p) \/ CheckGrowth(p)
            \/ ReadRoot(p) \/ ScanEnd(p)
  <2>1. pc'[p] \notin {"rb_load", "rb_freeze", "rb_scan"}
    BY <1>1, <1>17 DEF Return, LoadRoot, Claim, PublishInline, PublishChild,
       RemoveMiss, RemoveHit, GetExisting, LoadOwn, Recheck, Count, CheckGrowth,
       ReadRoot, ScanEnd, ThreadTypes
  <2> QED BY <1>4, <2>1 DEF Rebuilding
<1>18. CASE Descend(p) \/ ReadStep(p)
  <2>1. pc'[p] \in {"slot", "read", "return", "recheck"}
    BY <1>1, <1>18 DEF Descend, ReadStep, ThreadTypes
  <2> QED BY <1>4, <2>1 DEF Rebuilding
<1> QED BY <1>7, <1>8, <1>9, <1>10, <1>12, <1>13, <1>14, <1>15, <1>16, <1>17, <1>18
        DEF Step

\* Each step keeps the homes, for some extension of them to the nodes it adds.
LEMMA HomesStep ==
    ASSUME IInv, OwnInv, NEW R, Routed(R), NEW H, Homed(R, H),
           \A q \in Threads : Stages(q), NEW p \in Threads, Begin(p) \/ Step(p)
    PROVE  \E U, G : Routed(U)' /\ Agree(R, U) /\ Homed(U, G)' /\ Agree(H, G)
<1>1. PICK U : TreeRoutes(U)' /\ Agree(R, U)
  BY StepRoutes
<1>2. PICK G : TreeHomes(G)' /\ Agree(H, G)
  BY StepHomes
<1>3. TypeOK' /\ TreeStep(p) /\ Frame(p) /\ OnlyWriters(p)
  BY StepBase DEF Routed
<1>4. \A q \in Threads : OnlyWriters(q)' /\ WalkRoutes(U, q)' /\ ScanRoutes(U, q)'
  <2>1. OnlyWriters(p)' /\ WalkRoutes(U, p)' /\ ScanRoutes(U, p)'
    BY <1>1, <1>3, StepWriters, StepWalk, StepScans
  <2>2. \A q \in Threads \ {p} :
          OnlyWriters(q)' /\ WalkRoutes(U, q)' /\ ScanRoutes(U, q)'
    BY <1>1, <1>3, OtherRoutes
  <2> QED BY <2>1, <2>2
<1>5. \A q \in Threads : WalkHomes(G, q)'
  <2>1. WalkHomes(G, p)'
    BY <1>2, <1>3, StepWalkHomes
  <2>2. ASSUME NEW q \in Threads \ {p}
        PROVE  WalkHomes(G, q)'
    <3>1. pc'[q] = pc[q] /\ walk'[q] = walk[q] /\ call'[q] = call[q]
      BY <1>3 DEF Frame
    <3>2. CASE pc[q] \in {"idle", "root"}
      BY <3>1, <3>2 DEF WalkHomes
    <3>3. CASE pc[q] \notin {"idle", "root"}
      BY <1>2, <3>1, <3>3, WalkKept
    <3> QED BY <3>2, <3>3
  <2> QED BY <2>1, <2>2
<1>6. \A q \in Threads : ScanHomes(U, G, q)'
  <2>1. ScanHomes(U, G, p)'
    BY <1>1, <1>2, StepScanHomes
  <2>2. \A q \in Threads \ {p} : ScanHomes(U, G, q)'
    BY <1>1, <1>2, OtherScanHomes
  <2> QED BY <2>1, <2>2
<1> QED BY <1>1, <1>2, <1>4, <1>5, <1>6 DEF Routed, Homed
-----------------------------------------------------------------------------
(***************************************************************************)
(* What is known of the tree and its threads, in every reachable state.    *)
(***************************************************************************)
\* Keys and homes of the nodes, and where the calls are.  Values do not come in.
Ready(R, H) ==
    /\ IInv /\ OwnInv /\ Routed(R) /\ Homed(R, H)
    /\ \A q \in Threads : Stages(q)
    /\ Rivals

\* A step between two such states.
Moved(p, R, U, H, G) ==
    /\ Begin(p) \/ Step(p)
    /\ Ready(R, H) /\ Ready(U, G)' /\ Agree(R, U) /\ Agree(H, G)
    /\ TypeOK /\ TypeOK' /\ TreeStep(p) /\ Frame(p) /\ Grows /\ OthersKept(p)

\* R and H are not part of the state; some such functions exist.
WalkInv == \E R, H : Ready(R, H)

\* At first there is one node, and nobody is in a call.
LEMMA ReadyInit == Init => WalkInv
<1> SUFFICES ASSUME Init PROVE WalkInv
  OBVIOUS
<1>1. IInv /\ OwnInv /\ TypeOK
  BY InitInv, OwnInit DEF IInv
<1>2. PICK R : Routed(R)
  BY RouteInit DEF RouteInv
<1>3. PICK H : H = [n \in Nodes |-> 0]
  OBVIOUS
<1>4. /\ \A p \in Threads : pc[p] = "idle" /\ changed[p] = FALSE
      /\ \A p \in Threads : \A k \in Keys : rival[p][k] = {}
      /\ \A c \in SlotCells : ptr[c].node = Nil
  BY CellFacts DEF Init, NoOutcomes, Plain
<1>5. TreeHomes(H)
  <2>1. ptr[RootCell].node \in Nodes
    BY <1>1, PointerType
  <2> QED BY <1>3, <1>4, <2>1 DEF TreeHomes
<1>6. \A p \in Threads : WalkHomes(H, p) /\ ScanHomes(R, H, p)
  BY <1>4 DEF WalkHomes, ScanHomes, Rebuilding
<1>7. \A p \in Threads : Stages(p)
  BY <1>4 DEF Stages, Rebuilding
<1>8. Rivals
  BY <1>4 DEF Rivals, Active
<1>9. Ready(R, H)
  BY <1>1, <1>2, <1>5, <1>6, <1>7, <1>8 DEF Ready, Homed
<1> QED BY <1>9 DEF WalkInv

\* Every step of a thread keeps it, for extensions of R and H to the new nodes.
LEMMA ReadyStep ==
    ASSUME NEW R, NEW H, Ready(R, H), NEW p \in Threads, Begin(p) \/ Step(p)
    PROVE  \E U, G : Moved(p, R, U, H, G)
<1>1. IInv /\ OwnInv /\ Routed(R) /\ Homed(R, H) /\ Rivals /\ \A q \in Threads : Stages(q)
  BY DEF Ready
<1>2. TypeOK /\ OnlyWriters(p)
  BY <1>1 DEF IInv, Routed
<1>3. PICK U, G : Routed(U)' /\ Agree(R, U) /\ Homed(U, G)' /\ Agree(H, G)
  BY <1>1, HomesStep
<1>4. IInv' /\ OwnInv' /\ TypeOK' /\ TreeStep(p) /\ Frame(p) /\ Grows
  BY <1>1, StepBase
<1>5. OthersKept(p)
  BY <1>2, StepOthers
<1>6. \A q \in Threads : Stages(q)'
  <2>1. Stages(p)'
    BY <1>1, <1>2, StagesStep
  <2>2. \A q \in Threads \ {p} : Stages(q)'
    BY <1>1, <1>4, <1>5, StagesOthers
  <2> QED BY <2>1, <2>2
<1>7. Rivals'
  BY <1>1, <1>2, RivalsStep
<1>8. Ready(U, G)'
  BY <1>3, <1>4, <1>6, <1>7 DEF Ready
<1>9. Moved(p, R, U, H, G)
  BY <1>2, <1>3, <1>4, <1>5, <1>8 DEF Moved
<1> QED BY <1>9

\* A step in which nobody moves.
LEMMA ReadyRest ==
    ASSUME NEW R, NEW H, Ready(R, H), UNCHANGED vars
    PROVE  Ready(R, H)'
<1>1. /\ UNCHANGED <<model, st, inline, ptr, tombs, used, retired>>
      /\ UNCHANGED <<len, next_root_rebuild, pc, ops, call, walk>>
      /\ UNCHANGED <<changed, ret, num, rb, acc, before, rival>>
  BY DEF vars, tree, counts, history
<1>2. IInv /\ OwnInv /\ Routed(R) /\ Homed(R, H) /\ Rivals /\ \A q \in Threads : Stages(q)
  BY DEF Ready
<1>3. IInv' /\ OwnInv'
  BY <1>2, NextInv, OwnNext
<1>4. Routed(R)'
  <2>1. TreeRoutes(R)'
    BY <1>1, <1>2, RoutesKept DEF Routed
  <2>2. ASSUME NEW p \in Threads
        PROVE  OnlyWriters(p)' /\ WalkRoutes(R, p)' /\ ScanRoutes(R, p)'
    BY <1>1, <1>2 DEF Routed, OnlyWriters, WalkRoutes, ScanRoutes, Rebuilding
  <2> QED BY <2>1, <2>2 DEF Routed
<1>5. \A k : Leaf(k)' = Leaf(k)
  BY <1>1 DEF Leaf, predict_slot, IsChild
<1>6. \A n, k : predict_slot(n, k)' = predict_slot(n, k)
  BY <1>1 DEF predict_slot
<1>7. Homed(R, H)'
  <2>1. TreeHomes(H)'
    BY <1>1, <1>2 DEF Homed, TreeHomes
  <2>2. ASSUME NEW p \in Threads
        PROVE  WalkHomes(H, p)' /\ ScanHomes(R, H, p)'
    <3>1. WalkHomes(H, p)'
      BY <1>1, <1>2, <1>5 DEF Homed, WalkHomes, predict_slot
    <3>2. ScanHomes(R, H, p)'
      BY <1>1, <1>2, <1>5 DEF Homed, ScanHomes, OnSlot, predict_slot, Rebuilding
    <3> QED BY <3>1, <3>2
  <2> QED BY <2>1, <2>2 DEF Homed
<1>8. \A q \in Threads : Stages(q)'
  BY <1>1, <1>2 DEF Stages, Rebuilding, IsUpdate, SameKey, Here, predict_slot
<1>9. Rivals'
  BY <1>1, <1>2 DEF Rivals, Active, Effect, EffectOf, Val
<1>10. Ready(R, H)'
  BY <1>3, <1>4, <1>7, <1>8, <1>9 DEF Ready
<1> QED BY <1>10

\* Every step, and stuttering.
LEMMA ReadyNext == WalkInv /\ [Next]_vars => WalkInv'
<1> SUFFICES ASSUME WalkInv, [Next]_vars PROVE WalkInv'
  OBVIOUS
<1>1. PICK R, H : Ready(R, H)
  BY DEF WalkInv
<1>2. CASE UNCHANGED vars
  BY <1>1, <1>2, ReadyRest DEF WalkInv
<1>3. ASSUME NEW p \in Threads, Begin(p) \/ Step(p) PROVE WalkInv'
  <2>1. PICK U, G : Moved(p, R, U, H, G)
    BY <1>1, <1>3, ReadyStep
  <2> QED BY <2>1 DEF Moved, WalkInv
<1> QED BY <1>2, <1>3 DEF Next, Rest

\* The inductive invariant: keys and homes can be given to the nodes so that each
\* writer is below the child of the root that it has entered.
THEOREM WalkInvariance == Spec => []WalkInv
BY ReadyInit, ReadyNext, PTL DEF Spec

\* The child of the root that a writer remembers, and where its key leads to
\* from there.
Entered(p) ==
    call[p].op \in Writers /\ pc[p] \notin {"idle", "root"} /\ walk[p].snap # RootCell =>
        /\ walk[p].snap = predict_slot(walk[p].entry, call[p].key)
        /\ \/ ptr[walk[p].snap].node = walk[p].child
           \/ walk[p].child \in retired
        /\ Leaf(call[p].key)[walk[p].child] = Leaf(call[p].key)[walk[p].cur]

\* What the validation of insert.rs and remove.rs rests on: the one pointer that
\* descent_snapshot remembers, in the root's slot of the key, still leads to the
\* child the writer entered, unless that has been retired; and however far the
\* writer has gone, a reader's walk of the key through that child meets it.
THEOREM SnapshotSound == Spec => [](\A p \in Threads : Entered(p))
<1>1. WalkInv => \A p \in Threads : Entered(p)
  BY DEF WalkInv, Ready, Homed, WalkHomes, Entered
<1> QED BY <1>1, WalkInvariance, PTL
=============================================================================
