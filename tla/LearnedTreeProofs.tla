------------------------- MODULE LearnedTreeProofs -------------------------
(***************************************************************************)
(* Proofs about LearnedTree, for every set of threads, keys and programs,  *)
(* every configuration and every family of models: the type invariant, the *)
(* exclusive ownership of half-written slots and of frozen pointers, and   *)
(* the immutability of published inline data.                              *)
(*                                                                         *)
(* The four rest on one inductive invariant, IInv.  Types alone are not    *)
(* inductive: that a thread never follows a null pointer needs to know that*)
(* a child slot has a child, that it stays a child slot, hence that nobody *)
(* but its owner writes a WRITING slot, hence that the owner's slot does   *)
(* not move when new nodes are allocated.                                  *)
(***************************************************************************)
EXTENDS LearnedTree, FiniteSetTheorems, TLAPS

\* Where a thread is in try_rebuild_subtree, rebuild, clear or drain, and may
\* still use the pointer cell it was given.
Rebuilding(p) == pc[p] \in {"rb_load", "rb_freeze", "rb_scan"}

\* get_or_insert has made a child and will look its entry up in it.
OwnPending(p) ==
    /\ call[p].op = "get_or_insert" /\ walk[p].from # "EMPTY"
    /\ \/ pc[p] \in {"validate", "own"}
       \/ Rebuilding(p) /\ rb[p].kind = "subtree"

\* What holds of the tree alone: the root exists, pointers lead to allocated
\* nodes, child slots have a child, a node not allocated yet is blank, EMPTY
\* slots have never held an entry and DATA slots hold one.
TreeInv ==
    /\ ptr[RootCell].node \in 1..used
    /\ \A c \in SlotCells :
         /\ ptr[c].node # Nil => ptr[c].node <= used
         /\ IsChild(st[c]) => ptr[c].node # Nil
         /\ c[1] > used => st[c] = "EMPTY"
         /\ st[c] = "EMPTY" => inline[c] = Nil
         /\ st[c] = "DATA" => inline[c] # Nil

\* What holds of a thread's locals: its nodes are allocated, the pointer cells
\* it remembers are child slots (or the root), and the slot it is about to
\* publish has held an entry exactly if it was claimed from DATA.
ThreadInv(p) ==
    /\ walk[p].entry <= used /\ walk[p].cur <= used
    /\ IsFiniteSet(rb[p].pairs)
    /\ walk[p].snap # RootCell => IsChild(st[walk[p].snap])
    /\ Rebuilding(p) => rb[p].cell = RootCell \/ IsChild(st[rb[p].cell])
    /\ pc[p] = "ratio" => call[p].op = "remove"
    /\ pc[p] = "rb_post" => rb[p].kind # "subtree"
    /\ pc[p] = "own" => call[p].op = "get_or_insert" /\ walk[p].from # "EMPTY"
    /\ OwnPending(p) => IsChild(st[Here(p)])
    /\ pc[p] = "publish" /\ walk[p].from = "DATA" => inline[Here(p)] # Nil
    /\ pc[p] = "publish" /\ walk[p].from = "EMPTY" => inline[Here(p)] = Nil

IInv ==
    /\ TypeOK
    /\ TreeInv
    /\ \A p \in Threads : ThreadInv(p)
    /\ SlotExclusive
    /\ FreezeExclusive
-----------------------------------------------------------------------------
(***************************************************************************)
(* Lemmas about the helpers.                                               *)
(***************************************************************************)
\* The root pointer is not the child pointer of any slot.
LEMMA CellFacts ==
    /\ RootCell \in Cells /\ RootCell \notin SlotCells
    /\ SlotCells \subseteq Cells
    /\ \A c \in Cells : c # RootCell => c \in SlotCells
BY DEF RootCell, Cells, SlotCells, Nodes

\* The slot a key predicts to is a slot of the node asked.
LEMMA PredictCell ==
    ASSUME TypeOK, NEW n \in Nodes, NEW k \in Keys
    PROVE  predict_slot(n, k) \in SlotCells /\ predict_slot(n, k)[1] = n
<1>1. model[n].slot[k] \in Slots
  BY DEF TypeOK, TreeTypes, Models
<1> QED BY <1>1 DEF predict_slot, SlotCells

\* The slot a thread looks at is a slot of its current node.
LEMMA HereCell ==
    ASSUME TypeOK, NEW p \in Threads
    PROVE  Here(p) \in SlotCells /\ Here(p)[1] = walk[p].cur
<1>1. walk[p].cur \in Nodes /\ call[p].key \in Keys
  BY DEF TypeOK, ThreadTypes, Walks, Calls
<1> QED BY <1>1, PredictCell DEF Here

\* Iter::new visits slots of the node it is given.
LEMMA ScanOfType ==
    ASSUME TypeOK, NEW n \in Nodes
    PROVE  ScanOf(n) \in Seq(SlotCells)
<1>1. model[n].scan \in Seq(Slots)
  BY DEF TypeOK, TreeTypes, Models
<1>2. \A j \in 1..Len(model[n].scan) : <<n, model[n].scan[j]>> \in SlotCells
  BY <1>1 DEF SlotCells
<1>3. Len(model[n].scan) \in Nat
  BY <1>1
<1> QED BY <1>2, <1>3 DEF ScanOf

\* The value a call writes is a value.
LEMMA ValType ==
    ASSUME TypeOK, NEW p \in Threads
    PROVE  Val(p) \in Values
BY DEF TypeOK, ThreadTypes, Val, Values

\* The outcomes a call may leave for a key.
LEMMA EffectType ==
    ASSUME NEW c, NEW v \in Values, NEW k
    PROVE  EffectOf(c, v, k) \in SUBSET Outcomes
BY DEF EffectOf, Outcomes

\* Storing entries in a new node keeps the types of the tree and leaves every
\* allocated node as it is.
LEMMA AddNodeType ==
    ASSUME TypeOK, NEW m \in Models, NEW E \in SUBSET Entries, AddNode(m, E)
    PROVE  /\ Fresh \in Nodes /\ used' = Fresh
           /\ model' \in [Nodes -> Models]
           /\ inline' \in [SlotCells -> Entries \cup {Nil}]
           /\ StatesWith(m, E) \in [SlotCells -> SlotStates]
           /\ \A n \in 1..used : model'[n] = model[n]
           /\ \A c \in SlotCells : c[1] # Fresh =>
                inline'[c] = inline[c] /\ StatesWith(m, E)[c] = st[c]
           /\ \A c \in SlotCells : c[1] = Fresh =>
                \/ inline'[c] # Nil /\ StatesWith(m, E)[c] = "DATA"
                \/ inline'[c] = inline[c] /\ StatesWith(m, E)[c] = st[c]
<1> DEFINE at(e) == <<Fresh, m.slot[e.key]>>
           filled == {at(e) : e \in E}
<1>1. /\ Fresh \in Nodes /\ used' = Fresh
      /\ model' = [model EXCEPT ![Fresh] = m]
      /\ inline' = [c \in SlotCells |->
                      IF c \in filled THEN CHOOSE e \in E : at(e) = c
                                      ELSE inline[c]]
  BY DEF AddNode
<1>2. model' \in [Nodes -> Models] /\ \A n \in 1..used : model'[n] = model[n]
  BY <1>1 DEF TypeOK, TreeTypes, Fresh, Nodes
<1>3. \A c \in filled : (CHOOSE e \in E : at(e) = c) \in E
  OBVIOUS
<1>4. \A c \in SlotCells : StatesWith(m, E)[c] = IF c \in filled THEN "DATA" ELSE st[c]
  BY DEF StatesWith
<1>5. \A c \in filled : c[1] = Fresh
  OBVIOUS
<1>6. inline' \in [SlotCells -> Entries \cup {Nil}]
  BY <1>1, <1>3 DEF TypeOK, TreeTypes
<1>7. StatesWith(m, E) \in [SlotCells -> SlotStates]
  BY DEF StatesWith, TypeOK, TreeTypes, SlotStates
<1>8. ASSUME NEW c \in SlotCells, c \in filled
      PROVE  inline'[c] # Nil
  <2>1. inline'[c] \in E BY <1>8, <1>1, <1>3
  <2> QED BY <2>1, ConstantsAssumption
<1>9. \A c \in SlotCells : c \notin filled => inline'[c] = inline[c]
  BY <1>1
<1> QED BY <1>1, <1>2, <1>4, <1>5, <1>6, <1>7, <1>8, <1>9
-----------------------------------------------------------------------------
(***************************************************************************)
(* Types.                                                                  *)
(***************************************************************************)
\* The initial values of the locals.
LEMMA BlankTypes ==
    /\ 1 \in Nodes /\ NoCall \in Calls /\ NoWalk \in Walks /\ NoScan \in Scans
    /\ NoOutcomes \in [Keys -> SUBSET Outcomes]
<1>1. NoCall \in Calls
  BY ConstantsAssumption DEF NoCall, Calls, Writers, Sweepers
<1>2. 1 \in Nodes
  BY ConstantsAssumption DEF Nodes
<1>3. NoWalk \in Walks
  BY <1>2, CellFacts DEF NoWalk, Walks, SlotStates
<1>4. NoScan \in Scans
  BY <1>2, CellFacts DEF NoScan, Scans, Sweepers
<1>5. NoOutcomes \in [Keys -> SUBSET Outcomes]
  BY DEF NoOutcomes
<1> QED BY <1>1, <1>2, <1>3, <1>4, <1>5

\* The initial state is well typed.
LEMMA TypeInit == Init => TypeOK
<1> SUFFICES ASSUME Init PROVE TypeOK
  OBVIOUS
<1>1. Plain(1) \in Ptrs /\ Plain(Nil) \in Ptrs
  BY BlankTypes DEF Plain, Ptrs
<1>2. /\ model \in [Nodes -> Models] /\ st \in [SlotCells -> SlotStates]
      /\ inline \in [SlotCells -> Entries \cup {Nil}]
      /\ ptr \in [Cells -> Ptrs]
  BY <1>1, ModelsAssumption DEF Init, SlotStates
<1>3. /\ tombs \in [Nodes -> Int] /\ used \in Nodes /\ retired \in SUBSET Nodes
      /\ len \in Int /\ next_root_rebuild \in Nat
  BY BlankTypes, ConstantsAssumption DEF Init
<1>4. ThreadTypes
  BY BlankTypes DEF Init, PcValues, Outcomes, ThreadTypes
<1>5. HistoryTypes
  BY BlankTypes DEF Init, Outcomes, HistoryTypes
<1> QED BY <1>2, <1>3, <1>4, <1>5 DEF TypeOK, TreeTypes

\* The nodes a step may find in a pointer.
LEMMA PointerType ==
    ASSUME IInv
    PROVE  /\ ptr[RootCell].node \in Nodes
           /\ \A c \in SlotCells : IsChild(st[c]) => ptr[c].node \in Nodes
<1>1. ptr[RootCell].node \in 1..used /\ used \in 1..MaxNodes /\ MaxNodes \in Nat
  BY ConstantsAssumption DEF IInv, TreeInv, TypeOK, TreeTypes, Nodes
<1>2. \A c \in SlotCells : ptr[c].node \in Nodes \cup {Nil}
  BY CellFacts DEF IInv, TypeOK, TreeTypes, Ptrs
<1> QED BY <1>1, <1>2 DEF IInv, TreeInv, Nodes

\* The record a rebuild starts from.
LEMMA StartType ==
    ASSUME ThreadTypes, NEW p \in Threads, NEW c \in Cells,
           NEW kind \in Sweepers \cup {"subtree"}, StartRebuild(p, kind, c)
    PROVE  rb' \in [Threads -> Scans] /\ pc' \in [Threads -> PcValues]
<1>1. [NoScan EXCEPT !.kind = kind, !.cell = c] \in Scans
  BY BlankTypes DEF Scans
<1> QED BY <1>1 DEF StartRebuild, ThreadTypes, Goto, PcValues

\* LoadRoot keeps the types of the locals.
LEMMA TypeLoadRoot ==
    ASSUME IInv, NEW p \in Threads, LoadRoot(p)
    PROVE  ThreadTypes'
<1>1. TypeOK /\ ThreadTypes
  BY DEF IInv, TypeOK
<1>2. WalkFrom(ptr[RootCell].node) \in Walks
  BY PointerType, BlankTypes DEF WalkFrom, Walks
<1> QED BY <1>1, <1>2 DEF LoadRoot, ThreadTypes, Goto, PcValues

\* Descend keeps the types of the locals.
LEMMA TypeDescend ==
    ASSUME IInv, NEW p \in Threads, Descend(p)
    PROVE  ThreadTypes'
<1>1. TypeOK /\ ThreadTypes
  BY DEF IInv, TypeOK
<1>2. Here(p) \in SlotCells
  BY <1>1, HereCell
<1>3. ptr[Here(p)].node \in Nodes
  BY <1>2, PointerType DEF Descend
<1>4. walk[p] \in Walks
  BY <1>1 DEF ThreadTypes
<1>5. Here(p) \in Cells
  BY <1>2, CellFacts
<1>6. Followed(p, Here(p)) \in Walks
  <2> DEFINE n == ptr[Here(p)].node
             first == walk[p].snap = RootCell
             snap == IF first THEN Here(p) ELSE walk[p].snap
             child == IF first THEN n ELSE walk[p].child
  <2>1. snap \in Cells /\ child \in Nodes /\ walk[p].depth + 1 \in Nat
    BY <1>3, <1>4, <1>5 DEF Walks
  <2>2. Followed(p, Here(p)) =
          [walk[p] EXCEPT !.cur = n, !.snap = snap, !.child = child,
                          !.depth = walk[p].depth + 1]
    BY DEF Followed
  <2> HIDE DEF snap, child
  <2> QED BY <1>3, <1>4, <2>1, <2>2 DEF Walks
<1>7. walk' \in [Threads -> Walks]
  BY <1>1, <1>6 DEF Descend, ThreadTypes
<1> QED BY <1>1, <1>7 DEF Descend, ThreadTypes, Goto, PcValues

\* Claim keeps the types of the locals.
LEMMA TypeClaim ==
    ASSUME IInv, NEW p \in Threads, Claim(p)
    PROVE  ThreadTypes'
<1>1. TypeOK /\ ThreadTypes
  BY DEF IInv, TypeOK
<1>2. Here(p) \in SlotCells
  BY <1>1, HereCell
<1>3. st[Here(p)] \in SlotStates
  BY <1>1, <1>2 DEF TypeOK, TreeTypes
<1>4. walk[p] \in Walks
  BY <1>1 DEF ThreadTypes
<1>5. [walk[p] EXCEPT !.from = st[Here(p)]] \in Walks
  BY <1>3, <1>4 DEF Walks
<1> QED BY <1>1, <1>5 DEF Claim, ThreadTypes, Goto, PcValues

\* PublishInline keeps the types of the locals.
LEMMA TypePublishInline ==
    ASSUME IInv, NEW p \in Threads, PublishInline(p)
    PROVE  ThreadTypes'
<1>1. TypeOK /\ ThreadTypes
  BY DEF IInv, TypeOK
<1>2. Val(p) \in Outcomes
  BY <1>1, ValType DEF Outcomes
<1> QED BY <1>1, <1>2 DEF PublishInline, ThreadTypes, Goto, PcValues

\* PublishChild keeps the types of the locals.
LEMMA TypePublishChild ==
    ASSUME IInv, NEW p \in Threads, PublishChild(p)
    PROVE  ThreadTypes'
<1>1. TypeOK /\ ThreadTypes
  BY DEF IInv, TypeOK
<1> QED BY <1>1 DEF PublishChild, ThreadTypes, Goto, PcValues

\* RemoveMiss keeps the types of the locals.
LEMMA TypeRemoveMiss ==
    ASSUME IInv, NEW p \in Threads, RemoveMiss(p)
    PROVE  ThreadTypes'
<1>1. TypeOK /\ ThreadTypes
  BY DEF IInv, TypeOK
<1> QED BY <1>1 DEF RemoveMiss, ThreadTypes, Goto, PcValues

\* RemoveHit keeps the types of the locals.
LEMMA TypeRemoveHit ==
    ASSUME IInv, NEW p \in Threads, RemoveHit(p)
    PROVE  ThreadTypes'
<1>1. TypeOK /\ ThreadTypes
  BY DEF IInv, TypeOK
<1> QED BY <1>1 DEF RemoveHit, ThreadTypes, Goto, PcValues

\* GetExisting keeps the types of the locals.
LEMMA TypeGetExisting ==
    ASSUME IInv, NEW p \in Threads, GetExisting(p)
    PROVE  ThreadTypes'
<1>1. TypeOK /\ ThreadTypes
  BY DEF IInv, TypeOK
<1>2. Here(p) \in SlotCells
  BY <1>1, HereCell
<1>3. inline[Here(p)] \in Entries
  BY <1>1, <1>2 DEF GetExisting, SameKey, TypeOK, TreeTypes
<1>4. inline[Here(p)].val \in Outcomes
  BY <1>3 DEF Entries, Outcomes
<1> QED BY <1>1, <1>4 DEF GetExisting, ThreadTypes, Goto, PcValues

\* Validate keeps the types of the locals.
LEMMA TypeValidate ==
    ASSUME IInv, NEW p \in Threads, Validate(p)
    PROVE  ThreadTypes'
<1>1. TypeOK /\ ThreadTypes
  BY DEF IInv, TypeOK
<1>2. walk[p] \in Walks /\ walk[p].snap \in Cells
  BY <1>1 DEF ThreadTypes, Walks
<1>3. WalkFrom(walk[p].entry) \in Walks
  BY <1>2, BlankTypes DEF WalkFrom, Walks
<1>4. AfterTrigger(p) \in PcValues
  BY DEF AfterTrigger, PcValues
<1>5. pc' \in [Threads -> PcValues] /\ rb' \in [Threads -> Scans]
  BY <1>1, <1>2, <1>4, StartType DEF Validate, ThreadTypes, Goto, PcValues
<1> QED BY <1>1, <1>3, <1>5 DEF Validate, ThreadTypes, StartRebuild

\* CheckRatio keeps the types of the locals.
LEMMA TypeCheckRatio ==
    ASSUME IInv, NEW p \in Threads, CheckRatio(p)
    PROVE  ThreadTypes'
<1>1. TypeOK /\ ThreadTypes
  BY DEF IInv, TypeOK
<1>2. walk[p].snap \in Cells
  BY <1>1 DEF ThreadTypes, Walks
<1>3. pc' \in [Threads -> PcValues] /\ rb' \in [Threads -> Scans]
  BY <1>1, <1>2, StartType DEF CheckRatio, ThreadTypes, Goto, PcValues
<1> QED BY <1>1, <1>3 DEF CheckRatio, ThreadTypes, StartRebuild

\* LoadOwn keeps the types of the locals.
LEMMA TypeLoadOwn ==
    ASSUME IInv, NEW p \in Threads, LoadOwn(p)
    PROVE  ThreadTypes'
<1>1. TypeOK /\ ThreadTypes
  BY DEF IInv, TypeOK
<1>2. Here(p) \in SlotCells
  BY <1>1, HereCell
<1>3. ptr[Here(p)].node \in Nodes
  BY <1>2, PointerType DEF LoadOwn, IInv, ThreadInv, OwnPending
<1>4. walk[p] \in Walks
  BY <1>1 DEF ThreadTypes
<1>5. [walk[p] EXCEPT !.at = ptr[Here(p)].node] \in Walks
  BY <1>3, <1>4 DEF Walks
<1> QED BY <1>1, <1>5 DEF LoadOwn, ThreadTypes, Goto, PcValues

\* Recheck keeps the types of the locals.
LEMMA TypeRecheck ==
    ASSUME IInv, NEW p \in Threads, Recheck(p)
    PROVE  ThreadTypes'
<1>1. TypeOK /\ ThreadTypes
  BY DEF IInv, TypeOK
<1> QED BY <1>1 DEF Recheck, ThreadTypes, Goto, PcValues

\* Count keeps the types of the locals.
LEMMA TypeCount ==
    ASSUME IInv, NEW p \in Threads, Count(p)
    PROVE  ThreadTypes'
<1>1. TypeOK /\ ThreadTypes
  BY DEF IInv, TypeOK
<1>2. len' \in Int
  BY <1>1 DEF Count, TypeOK, TreeTypes
<1> QED BY <1>1, <1>2 DEF Count, ThreadTypes, Goto, PcValues

\* CheckGrowth keeps the types of the locals.
LEMMA TypeCheckGrowth ==
    ASSUME IInv, NEW p \in Threads, CheckGrowth(p)
    PROVE  ThreadTypes'
<1>1. TypeOK /\ ThreadTypes
  BY DEF IInv, TypeOK
<1>2. next_root_rebuild \in Int
  BY <1>1 DEF TypeOK, TreeTypes
<1> QED BY <1>1, <1>2 DEF CheckGrowth, ThreadTypes, Goto, PcValues

\* AdvanceThreshold keeps the types of the locals.
LEMMA TypeAdvanceThreshold ==
    ASSUME IInv, NEW p \in Threads, AdvanceThreshold(p)
    PROVE  ThreadTypes'
<1>1. TypeOK /\ ThreadTypes
  BY DEF IInv, TypeOK
<1>2. pc' \in [Threads -> PcValues] /\ rb' \in [Threads -> Scans]
  BY <1>1, StartType, CellFacts DEF AdvanceThreshold, ThreadTypes, Goto, PcValues, Sweepers
<1> QED BY <1>1, <1>2 DEF AdvanceThreshold, ThreadTypes, StartRebuild

\* ReadRoot keeps the types of the locals.
LEMMA TypeReadRoot ==
    ASSUME IInv, NEW p \in Threads, ReadRoot(p)
    PROVE  ThreadTypes'
<1>1. TypeOK /\ ThreadTypes
  BY DEF IInv, TypeOK
<1>2. walk[p] \in Walks
  BY <1>1 DEF ThreadTypes
<1>3. [walk[p] EXCEPT !.at = ptr[RootCell].node] \in Walks
  BY <1>2, PointerType DEF Walks
<1>4. [NoScan EXCEPT !.todo = ScanOf(ptr[RootCell].node)] \in Scans
  BY <1>1, BlankTypes, PointerType, ScanOfType DEF Scans
<1> QED BY <1>1, <1>3, <1>4 DEF ReadRoot, ThreadTypes, Goto, PcValues

\* ReadStep keeps the types of the locals.
LEMMA TypeReadStep ==
    ASSUME IInv, NEW p \in Threads, ReadStep(p)
    PROVE  ThreadTypes'
<1>1. TypeOK /\ ThreadTypes
  BY DEF IInv, TypeOK
<1> DEFINE c == predict_slot(walk[p].at, call[p].key)
<1>2. walk[p] \in Walks /\ walk[p].at \in Nodes /\ call[p].key \in Keys
  BY <1>1 DEF ThreadTypes, Walks, Calls
<1>3. c \in SlotCells
  BY <1>1, <1>2, PredictCell
<1>4. IsChild(st[c]) => [walk[p] EXCEPT !.at = ptr[c].node] \in Walks
  BY <1>2, <1>3, PointerType DEF Walks
<1>5. Holds(p, c) => inline[c].val \in Outcomes
  <2>1. inline[c] \in Entries \cup {Nil}
    BY <1>1, <1>3 DEF TypeOK, TreeTypes
  <2>2. Holds(p, c) => inline[c] # Nil
    BY <1>3 DEF Holds, IInv, TreeInv
  <2> QED BY <2>1, <2>2 DEF Entries, Outcomes
<1>6. Nil \in Outcomes
  BY DEF Outcomes
<1> HIDE DEF c
<1>7. UNCHANGED <<ops, call, num, rb>>
  BY DEF ReadStep
<1>8. CASE IsChild(st[c])
  <2>1. walk' = [walk EXCEPT ![p].at = ptr[c].node] /\ UNCHANGED <<pc, ret, changed>>
    BY <1>8 DEF ReadStep, c
  <2>2. walk' \in [Threads -> Walks]
    BY <1>1, <1>4, <1>8, <2>1 DEF ThreadTypes
  <2> QED BY <1>1, <1>7, <2>1, <2>2 DEF ThreadTypes
<1>9. CASE ~IsChild(st[c])
  <2>1. /\ ret' = [ret EXCEPT ![p] = IF Holds(p, c) THEN inline[c].val ELSE Nil]
        /\ UNCHANGED walk
    BY <1>9 DEF ReadStep, c
  <2>2. ret' \in [Threads -> Outcomes]
    BY <1>1, <1>5, <1>6, <2>1 DEF ThreadTypes
  <2>3. changed' \in [Threads -> BOOLEAN]
    BY <1>1, <1>9 DEF ReadStep, ThreadTypes, c
  <2>4. pc' \in [Threads -> PcValues]
    BY <1>1, <1>9 DEF ReadStep, ThreadTypes, Goto, PcValues, c
  <2> QED BY <1>1, <1>7, <2>1, <2>2, <2>3, <2>4 DEF ThreadTypes
<1> QED BY <1>8, <1>9

\* ScanEnd keeps the types of the locals.
LEMMA TypeScanEnd ==
    ASSUME IInv, NEW p \in Threads, ScanEnd(p)
    PROVE  ThreadTypes'
<1>1. TypeOK /\ ThreadTypes
  BY DEF IInv, TypeOK
<1> QED BY <1>1 DEF ScanEnd, ThreadTypes, Goto, PcValues

\* ScanStep keeps the types of the locals.
LEMMA TypeScanStep ==
    ASSUME IInv, NEW p \in Threads, ScanStep(p)
    PROVE  ThreadTypes'
<1>1. TypeOK /\ ThreadTypes
  BY DEF IInv, TypeOK
<1> DEFINE c == Head(rb[p].todo)
           below == IF IsChild(st[c]) THEN ScanOf(ptr[c].node) ELSE <<>>
           found == IF st[c] = "DATA" THEN rb[p].pairs \cup {inline[c]}
                                      ELSE rb[p].pairs
<1>2. rb[p] \in Scans /\ rb[p].todo \in Seq(SlotCells) /\ rb[p].todo # <<>>
  BY <1>1 DEF ThreadTypes, Scans, ScanStep
<1>3. c \in SlotCells /\ Tail(rb[p].todo) \in Seq(SlotCells)
  BY <1>2
<1>4. below \in Seq(SlotCells)
  BY <1>1, <1>3, PointerType, ScanOfType
<1>5. found \in SUBSET Entries
  BY <1>1, <1>2, <1>3 DEF IInv, TreeInv, TypeOK, TreeTypes, Scans
<1> HIDE DEF below, found, c
<1>6. below \o Tail(rb[p].todo) \in Seq(SlotCells)
  BY <1>3, <1>4
<1>7. Scanned(p, c) = [rb[p] EXCEPT !.todo = below \o Tail(rb[p].todo),
                                    !.pairs = found]
  BY DEF Scanned, below, found
<1>8. Scanned(p, c) \in Scans
  BY <1>2, <1>5, <1>6, <1>7 DEF Scans
<1>9. rb' \in [Threads -> Scans]
  BY <1>1, <1>8 DEF ScanStep, ThreadTypes, c
<1> QED BY <1>1, <1>9 DEF ScanStep, ThreadTypes, Goto, PcValues

\* LoadVictim keeps the types of the locals.
LEMMA TypeLoadVictim ==
    ASSUME IInv, NEW p \in Threads, LoadVictim(p)
    PROVE  ThreadTypes'
<1>1. TypeOK /\ ThreadTypes
  BY DEF IInv, TypeOK
<1>C. Caller(p) \in PcValues
  BY DEF Caller, AfterTrigger, PcValues
<1>2. rb[p] \in Scans /\ rb[p].cell \in Cells
  BY <1>1 DEF ThreadTypes, Scans
<1>3. ptr[rb[p].cell].node \in Nodes
  BY <1>2, CellFacts, PointerType DEF IInv, ThreadInv, Rebuilding, LoadVictim, GiveUp
<1>4. [rb[p] EXCEPT !.victim = ptr[rb[p].cell].node] \in Scans
  BY <1>2, <1>3 DEF Scans
<1> QED BY <1>1, <1>4, <1>C DEF LoadVictim, GiveUp, ThreadTypes, Goto, PcValues

\* Freeze keeps the types of the locals.
LEMMA TypeFreeze ==
    ASSUME IInv, NEW p \in Threads, Freeze(p)
    PROVE  ThreadTypes'
<1>1. TypeOK /\ ThreadTypes
  BY DEF IInv, TypeOK
<1>C. Caller(p) \in PcValues
  BY DEF Caller, AfterTrigger, PcValues
<1>2. rb[p] \in Scans /\ rb[p].victim \in Nodes
  BY <1>1 DEF ThreadTypes, Scans
<1>3. [rb[p] EXCEPT !.todo = ScanOf(rb[p].victim)] \in Scans
  BY <1>1, <1>2, ScanOfType DEF Scans
<1> QED BY <1>1, <1>3, <1>C DEF Freeze, GiveUp, ThreadTypes, Goto, PcValues

\* Unfreeze keeps the types of the locals.
LEMMA TypeUnfreeze ==
    ASSUME IInv, NEW p \in Threads, Unfreeze(p)
    PROVE  ThreadTypes'
<1>1. TypeOK /\ ThreadTypes
  BY DEF IInv, TypeOK
<1>C. Caller(p) \in PcValues
  BY DEF Caller, AfterTrigger, PcValues
<1> QED BY <1>1, <1>C DEF Unfreeze, GiveUp, ThreadTypes, Goto, PcValues

\* Swap keeps the types of the locals.
LEMMA TypeSwap ==
    ASSUME IInv, NEW p \in Threads, Swap(p)
    PROVE  ThreadTypes'
<1>1. TypeOK /\ ThreadTypes
  BY DEF IInv, TypeOK
<1>C. Caller(p) \in PcValues
  BY DEF Caller, AfterTrigger, PcValues
<1> QED BY <1>1, <1>C DEF Swap, ThreadTypes, Goto, PcValues

\* ResetCounters keeps the types of the locals.
LEMMA TypeResetCounters ==
    ASSUME IInv, NEW p \in Threads, ResetCounters(p)
    PROVE  ThreadTypes'
<1>1. TypeOK /\ ThreadTypes
  BY DEF IInv, TypeOK
<1>C. Caller(p) \in PcValues
  BY DEF Caller, AfterTrigger, PcValues
<1> QED BY <1>1, <1>C DEF ResetCounters, ThreadTypes, Goto, PcValues

\* Return keeps the types of the locals.
LEMMA TypeReturn ==
    ASSUME IInv, NEW p \in Threads, Return(p)
    PROVE  ThreadTypes'
<1>1. TypeOK /\ ThreadTypes
  BY DEF IInv, TypeOK
<1> QED BY <1>1, BlankTypes DEF Return, ThreadTypes, Goto, PcValues, Outcomes

\* Begin keeps the types of the locals.
LEMMA TypeBegin ==
    ASSUME IInv, NEW p \in Threads, Begin(p)
    PROVE  ThreadTypes'
<1>1. TypeOK /\ ThreadTypes
  BY DEF IInv, TypeOK
<1>2. PICK c \in Program[p][ops[p] + 1] :
        /\ call' = [call EXCEPT ![p] = c]
        /\ IF c.op \in Sweepers
           THEN StartRebuild(p, c.op, RootCell)
           ELSE /\ Goto(p, IF c.op \in Writers THEN "root" ELSE "read_root")
                /\ UNCHANGED rb
  BY DEF Begin
<1>3. c \in Calls
  <2>1. Program[p] \in Seq(SUBSET Calls) /\ ops[p] + 1 \in 1..Len(Program[p])
    BY <1>1, ConstantsAssumption DEF ThreadTypes, Begin
  <2>2. Program[p][ops[p] + 1] \in SUBSET Calls
    BY <2>1
  <2> QED BY <2>2
<1>4. pc' \in [Threads -> PcValues] /\ rb' \in [Threads -> Scans]
  BY <1>1, <1>2, StartType, CellFacts DEF ThreadTypes, Goto, PcValues
<1>5. call' \in [Threads -> Calls]
  BY <1>1, <1>2, <1>3 DEF ThreadTypes
<1> QED BY <1>1, <1>4, <1>5 DEF Begin, ThreadTypes, StartRebuild

-----------------------------------------------------------------------------
(***************************************************************************)
(* What a step does to the tree.                                           *)
(***************************************************************************)
core == <<model, st, inline, ptr, used>>

\* What no step undoes: nodes stay allocated with their model, child slots stay
\* child slots, and published inline data stays what it is.
Grows ==
    /\ used <= used'
    /\ \A n \in 1..used : model'[n] = model[n]
    /\ \A c \in SlotCells : IsChild(st[c]) => IsChild(st'[c])
    /\ \A c \in SlotCells : inline[c] # Nil => inline'[c] = inline[c]

\* What a step of thread p leaves alone: of the allocated slots it writes at most
\* the one p looks at, and that one only if it is free or p owns it; of their
\* pointers and the root, only the one p publishes or the one p freezes or has frozen.
Footprint(p) ==
    /\ \A c \in SlotCells :
         c[1] <= used /\ (st'[c] # st[c] \/ inline'[c] # inline[c])
           => c = Here(p) /\ (st[c] # "WRITING" \/ pc[p] = "publish")
    /\ \A c \in Cells : c[1] <= used /\ ptr'[c] # ptr[c] =>
         \/ c = Here(p) /\ pc[p] = "publish"
         \/ c = rb[p].cell /\ Freezing(p)
         \/ c = rb[p].cell /\ pc[p] = "rb_freeze" /\ ptr[c].tag = 0

\* The locals of the other threads.
Frame(p) ==
    \A q \in Threads \ {p} :
        pc'[q] = pc[q] /\ walk'[q] = walk[q] /\ rb'[q] = rb[q] /\ call'[q] = call[q]

TreeStep(p) == TreeTypes' /\ TreeInv' /\ Grows /\ Footprint(p)

\* Every node is allocated from the next free number.
LEMMA UsedFacts ==
    ASSUME TypeOK
    PROVE  used \in 1..MaxNodes /\ MaxNodes \in Nat /\ Nodes = 1..MaxNodes
           /\ Fresh = used + 1 /\ (\A c \in SlotCells : c[1] \in 1..MaxNodes)
BY ConstantsAssumption DEF TypeOK, TreeTypes, Nodes, Fresh, SlotCells

\* The root and the child slots are cells of allocated nodes.
LEMMA CellUsed ==
    ASSUME TypeOK, TreeInv, NEW c \in Cells, c = RootCell \/ IsChild(st[c])
    PROVE  c[1] <= used
<1>1. CASE c = RootCell
  BY <1>1, UsedFacts DEF RootCell
<1>2. CASE c # RootCell
  BY <1>2, CellFacts, UsedFacts DEF TreeInv, IsChild
<1> QED BY <1>1, <1>2

\* A step that leaves slots, pointers and models alone.
LEMMA TreeLocal ==
    ASSUME IInv, NEW p \in Threads, UNCHANGED core, TreeTypes'
    PROVE  TreeStep(p)
<1>1. TypeOK /\ TreeInv
  BY DEF IInv
<1>2. TreeInv'
  BY <1>1 DEF TreeInv, core, IsChild
<1>3. Grows
  BY <1>1, UsedFacts DEF Grows, core, IsChild
<1>4. Footprint(p)
  BY DEF Footprint, core
<1> QED BY <1>2, <1>3, <1>4 DEF TreeStep

\* What Claim does to the tree.
LEMMA TreeClaim ==
    ASSUME IInv, NEW p \in Threads, Claim(p)
    PROVE  TreeStep(p)
<1>1. TypeOK /\ TreeTypes /\ TreeInv
  BY DEF IInv, TypeOK
<1>2. Here(p) \in SlotCells /\ Here(p)[1] = walk[p].cur /\ walk[p].cur <= used
  BY <1>1, HereCell DEF IInv, ThreadInv
<1>3. /\ st[Here(p)] \in {"EMPTY", "TOMBSTONE", "DATA"}
      /\ st' = [st EXCEPT ![Here(p)] = "WRITING"]
      /\ UNCHANGED <<model, inline, ptr, used, tombs, retired, len, next_root_rebuild>>
  BY DEF Claim, Claimable, ClaimedState, counts
<1>4. TreeTypes'
  BY <1>1, <1>2, <1>3 DEF TreeTypes, SlotStates
<1>5. TreeInv'
  BY <1>1, <1>2, <1>3, UsedFacts DEF TreeInv, IsChild, TreeTypes
<1>6. Grows
  BY <1>1, <1>2, <1>3, UsedFacts DEF Grows, IsChild, TreeTypes
<1>7. Footprint(p)
  BY <1>1, <1>2, <1>3 DEF Footprint, TreeTypes
<1> QED BY <1>4, <1>5, <1>6, <1>7 DEF TreeStep

\* What RemoveHit does to the tree.
LEMMA TreeRemoveHit ==
    ASSUME IInv, NEW p \in Threads, RemoveHit(p)
    PROVE  TreeStep(p)
<1>1. TypeOK /\ TreeTypes /\ TreeInv
  BY DEF IInv, TypeOK
<1>2. Here(p) \in SlotCells /\ Here(p)[1] = walk[p].cur /\ walk[p].cur <= used
  BY <1>1, HereCell DEF IInv, ThreadInv
<1>3. /\ st[Here(p)] = "DATA"
      /\ st' = [st EXCEPT ![Here(p)] = "TOMBSTONE"]
      /\ UNCHANGED <<model, inline, ptr, used, tombs, retired, len, next_root_rebuild>>
  BY DEF RemoveHit, counts
<1>4. TreeTypes'
  BY <1>1, <1>2, <1>3 DEF TreeTypes, SlotStates
<1>5. TreeInv'
  BY <1>1, <1>2, <1>3, UsedFacts DEF TreeInv, IsChild, TreeTypes
<1>6. Grows
  BY <1>1, <1>2, <1>3, UsedFacts DEF Grows, IsChild, TreeTypes
<1>7. Footprint(p)
  BY <1>1, <1>2, <1>3 DEF Footprint, TreeTypes
<1> QED BY <1>4, <1>5, <1>6, <1>7 DEF TreeStep

\* What PublishInline does to the tree.
LEMMA TreePublishInline ==
    ASSUME IInv, NEW p \in Threads, PublishInline(p)
    PROVE  TreeStep(p)
<1> DEFINE e == [key |-> call[p].key, val |-> Val(p)]
<1>1. TypeOK /\ TreeTypes /\ TreeInv
  BY DEF IInv, TypeOK
<1>2. Here(p) \in SlotCells /\ Here(p)[1] = walk[p].cur /\ walk[p].cur <= used
  BY <1>1, HereCell DEF IInv, ThreadInv
<1>3. /\ pc[p] = "publish" /\ walk[p].from = "EMPTY"
      /\ inline' = [inline EXCEPT ![Here(p)] = e]
      /\ st' = [st EXCEPT ![Here(p)] = "DATA"]
      /\ UNCHANGED <<model, ptr, used, tombs, retired, len, next_root_rebuild>>
  BY DEF PublishInline, InPlace, counts
<1>4. st[Here(p)] = "WRITING" /\ inline[Here(p)] = Nil
  BY <1>3 DEF IInv, SlotExclusive, ThreadInv
<1>5. e \in Entries /\ e # Nil
  <2>1. call[p].key \in Keys
    BY <1>1 DEF TypeOK, ThreadTypes, Calls
  <2>2. e \in Entries
    BY <1>1, <2>1, ValType DEF Entries
  <2> QED BY <2>2, ConstantsAssumption
<1> HIDE DEF e
<1>6. TreeTypes'
  BY <1>1, <1>2, <1>3, <1>5 DEF TreeTypes, SlotStates
<1>7. TreeInv'
  BY <1>1, <1>2, <1>3, <1>4, <1>5, UsedFacts DEF TreeInv, IsChild, TreeTypes
<1>8. Grows
  BY <1>1, <1>2, <1>3, <1>4, UsedFacts DEF Grows, IsChild, TreeTypes
<1>9. Footprint(p)
  BY <1>1, <1>2, <1>3 DEF Footprint, TreeTypes
<1> QED BY <1>6, <1>7, <1>8, <1>9 DEF TreeStep

\* A step that fills a new node and makes the thread's slot d a child slot that
\* leads to it.
LEMMA TreeAdd ==
    ASSUME IInv, NEW p \in Threads, NEW m \in Models, NEW E \in SUBSET Entries,
           NEW d \in Cells, AddNode(m, E),
           ptr' = [ptr EXCEPT ![d] = Plain(Fresh)],
           pc[p] = "publish", d = Here(p), st[d] = "WRITING",
           st' = [StatesWith(m, E) EXCEPT ![d] = "CHILD_STALE"],
           retired' \in SUBSET Nodes,
           UNCHANGED <<tombs, len, next_root_rebuild>>
    PROVE  TreeStep(p)
<1>1. TypeOK /\ TreeTypes /\ TreeInv
  BY DEF IInv, TypeOK
<1>2. Here(p) \in SlotCells /\ Here(p)[1] = walk[p].cur /\ walk[p].cur <= used
  BY <1>1, HereCell DEF IInv, ThreadInv
<1>3. /\ Fresh \in Nodes /\ used' = Fresh
      /\ model' \in [Nodes -> Models]
      /\ inline' \in [SlotCells -> Entries \cup {Nil}]
      /\ StatesWith(m, E) \in [SlotCells -> SlotStates]
      /\ \A n \in 1..used : model'[n] = model[n]
      /\ \A c \in SlotCells : c[1] # Fresh =>
           inline'[c] = inline[c] /\ StatesWith(m, E)[c] = st[c]
      /\ \A c \in SlotCells : c[1] = Fresh =>
           \/ inline'[c] # Nil /\ StatesWith(m, E)[c] = "DATA"
           \/ inline'[c] = inline[c] /\ StatesWith(m, E)[c] = st[c]
  BY <1>1, AddNodeType
<1>4. st' \in [SlotCells -> SlotStates]
  BY <1>2, <1>3 DEF SlotStates
<1>5. Plain(Fresh) \in Ptrs /\ Plain(Fresh).node = Fresh /\ Plain(Fresh).tag = 0
  BY <1>3 DEF Plain, Ptrs
<1>6. TreeTypes'
  BY <1>1, <1>3, <1>4, <1>5 DEF TreeTypes
<1>7. \A c \in SlotCells : c[1] # Fresh =>
        /\ inline'[c] = inline[c]
        /\ st'[c] = st[c] \/ (c = d /\ pc[p] = "publish" /\ d = Here(p)
                                /\ st[c] = "WRITING" /\ st'[c] = "CHILD_STALE")
  BY <1>2, <1>3
<1>8. \A c \in SlotCells : c[1] = Fresh =>
        /\ st[c] = "EMPTY" /\ inline[c] = Nil
        /\ \/ inline'[c] # Nil /\ st'[c] = "DATA"
           \/ inline'[c] = Nil /\ st'[c] = "EMPTY"
  <2>1. \A c \in SlotCells : c[1] = Fresh => st[c] = "EMPTY" /\ inline[c] = Nil
    BY <1>1, UsedFacts DEF TreeInv
  <2>2. \A c \in SlotCells : c[1] = Fresh => st'[c] = StatesWith(m, E)[c]
    BY <1>2, <1>3, <1>1, UsedFacts
  <2> QED BY <1>3, <2>1, <2>2
<1>9. \A c \in Cells : ptr'[c] = IF c = d THEN Plain(Fresh) ELSE ptr[c]
  BY <1>1 DEF TreeTypes
<1>11. TreeInv'
  <2>1. ptr'[RootCell].node \in 1..used'
    BY <1>1, <1>3, <1>5, <1>9, CellFacts, UsedFacts DEF TreeInv
  <2>2. ASSUME NEW c \in SlotCells
        PROVE  /\ ptr'[c].node # Nil => ptr'[c].node <= used'
               /\ IsChild(st'[c]) => ptr'[c].node # Nil
    <3>0. c \in Cells
      BY CellFacts
    <3>1. CASE c = d
      BY <3>0, <3>1, <1>1, <1>3, <1>5, <1>9, ConstantsAssumption, UsedFacts
    <3>2. CASE c # d
      <4>1. ptr'[c] = ptr[c] /\ (IsChild(st'[c]) => IsChild(st[c]))
        BY <3>0, <3>2, <1>7, <1>8, <1>9 DEF IsChild
      <4>2. ptr[c].node \in Nodes \cup {Nil}
        BY <3>0, <1>1 DEF TreeTypes, Ptrs
      <4> QED BY <4>1, <4>2, <1>1, <1>3, UsedFacts DEF TreeInv
    <3> QED BY <3>1, <3>2
  <2>3. ASSUME NEW c \in SlotCells
        PROVE  /\ c[1] > used' => st'[c] = "EMPTY"
               /\ st'[c] = "EMPTY" => inline'[c] = Nil
               /\ st'[c] = "DATA" => inline'[c] # Nil
    <3>1. CASE c[1] = Fresh
      BY <3>1, <1>1, <1>3, <1>8, UsedFacts
    <3>2. CASE c[1] # Fresh
      <4>1. /\ inline'[c] = inline[c] /\ st'[c] \in {st[c], "CHILD_STALE"}
            /\ st'[c] # st[c] => c = Here(p)
        BY <3>2, <1>7
      <4>2. /\ c[1] > used => st[c] = "EMPTY"
            /\ st[c] = "EMPTY" => inline[c] = Nil
            /\ st[c] = "DATA" => inline[c] # Nil
        BY <1>1 DEF TreeInv
      <4>3. used' = used + 1 /\ used \in Nat /\ c[1] \in Nat /\ walk[p].cur <= used
        BY <1>1, <1>2, <1>3, UsedFacts
      <4> QED BY <4>1, <4>2, <4>3, <1>2
    <3> QED BY <3>1, <3>2
  <2> QED BY <2>1, <2>2, <2>3 DEF TreeInv, IsChild
<1>12. Grows
  <2>1. used <= used'
    BY <1>1, <1>3, UsedFacts
  <2>2. \A c \in SlotCells : IsChild(st[c]) => IsChild(st'[c])
    BY <1>7, <1>8 DEF IsChild
  <2>3. \A c \in SlotCells : inline[c] # Nil => inline'[c] = inline[c]
    BY <1>7, <1>8
  <2> QED BY <2>1, <2>2, <2>3, <1>3 DEF Grows
<1>13. Footprint(p)
  BY <1>1, <1>7, <1>9, UsedFacts DEF Footprint
<1> QED BY <1>6, <1>11, <1>12, <1>13 DEF TreeStep

\* What PublishChild does to the tree.
LEMMA TreePublishChild ==
    ASSUME IInv, NEW p \in Threads, PublishChild(p)
    PROVE  TreeStep(p)
<1> DEFINE c == Here(p)
           mine == [key |-> call[p].key, val |-> Val(p)]
           both == walk[p].from = "DATA" /\ ~SameKey(p)
           E == IF both THEN {mine, inline[c]} ELSE {mine}
           m == IF both THEN ConflictModel(inline[c].key, mine.key)
                        ELSE SingleModel(mine.key)
<1>1. TypeOK
  BY DEF IInv
<1>2. c \in SlotCells
  BY <1>1, HereCell
<1>3. /\ pc[p] = "publish" /\ AddNode(m, E)
      /\ ptr' = [ptr EXCEPT ![c] = Plain(Fresh)]
      /\ st' = [StatesWith(m, E) EXCEPT ![c] = "CHILD_STALE"]
      /\ UNCHANGED <<tombs, retired, len, next_root_rebuild>>
  BY DEF PublishChild, counts
<1>4. st[c] = "WRITING"
  BY <1>3 DEF IInv, SlotExclusive
<1>5. call[p].key \in Keys /\ mine \in Entries
  <2>1. call[p].key \in Keys
    BY <1>1 DEF TypeOK, ThreadTypes, Calls
  <2> QED BY <1>1, <2>1, ValType DEF Entries
<1>6. both => inline[c] \in Entries /\ inline[c].key # call[p].key
  <2>1. inline[c] \in Entries \cup {Nil}
    BY <1>1, <1>2 DEF TypeOK, TreeTypes
  <2>2. both => inline[c] # Nil
    BY <1>3 DEF IInv, ThreadInv
  <2> QED BY <2>1, <2>2 DEF SameKey
<1>7. E \in SUBSET Entries
  BY <1>5, <1>6
<1>8. m \in Models
  BY <1>5, <1>6, ModelsAssumption DEF Entries
<1>9. retired' \in SUBSET Nodes
  BY <1>1, <1>3 DEF TypeOK, TreeTypes
<1>10. c \in Cells
  BY <1>2, CellFacts
<1> HIDE DEF m, E, both, mine
<1> QED BY <1>3, <1>4, <1>7, <1>8, <1>9, <1>10, TreeAdd

-----------------------------------------------------------------------------
(***************************************************************************)
(* The tree a swap puts in place, cell by cell.                            *)
(***************************************************************************)
\* The slots of the nodes the step allocates.
NewCells == {c \in SlotCells : used < c[1] /\ c[1] <= used'}

\* Such a slot is empty, holds the entry of the only key that belongs in it, or
\* leads to the later node built for the two keys or more that belong in it.
NewEmpty(kind, g, c) ==
    /\ st'[c] = "EMPTY" /\ inline'[c] = Nil /\ ptr'[c] = ptr[c]
    /\ NewKeys(kind, g, c) = {}
NewData(kind, g, E, c) ==
    /\ st'[c] = "DATA" /\ ptr'[c] = ptr[c]
    /\ inline'[c] \in E /\ NewKeys(kind, g, c) = {inline'[c].key}
NewLink(kind, g, c, j) ==
    /\ st'[c] = "CHILD" /\ inline'[c] = Nil
    /\ ptr'[c] = Plain(used + j) /\ c[1] < used + j
    /\ g[j] = NewKeys(kind, g, c) /\ \E k, l \in g[j] : k # l

\* The tree g with the entries E has been put in the place of pointer cell d.
Added(kind, g, E, d) ==
    /\ model' = [n \in Nodes |-> model'[n]] /\ st' = [c \in SlotCells |-> st'[c]]
    /\ inline' = [c \in SlotCells |-> inline'[c]] /\ ptr' = [c \in Cells |-> ptr'[c]]
    /\ Len(g) \in Nat \ {0} /\ DOMAIN g = 1..Len(g)
    /\ \A i \in 1..Len(g) : g[i] \in SUBSET Keys
    /\ g[1] = {e.key : e \in E}
    /\ used' = used + Len(g) /\ used' \in Nodes
    /\ \A n \in Nodes : n <= used \/ n > used' => model'[n] = model[n]
    /\ \A i \in 1..Len(g) :
         Fit(kind, g[i]) \in Models /\ model'[used + i] = Fit(kind, g[i])
    /\ d \in Cells /\ d \notin NewCells
    /\ \A c \in SlotCells \ NewCells : st'[c] = st[c] /\ inline'[c] = inline[c]
    /\ \A c \in Cells \ NewCells :
         ptr'[c] = IF c = d THEN Plain(Fresh) ELSE ptr[c]
    /\ \A c \in NewCells :
         \/ NewEmpty(kind, g, c) \/ NewData(kind, g, E, c)
         \/ \E j \in 2..Len(g) : NewLink(kind, g, c, j)
    /\ \A j \in 2..Len(g) : \E c \in NewCells : NewLink(kind, g, c, j)
    /\ \A c1, c2 \in NewCells, j \in 2..Len(g) :
         NewLink(kind, g, c1, j) /\ NewLink(kind, g, c2, j) => c1 = c2

\* What a tree's sets of keys are.
LEMMA TreesFacts ==
    ASSUME NEW kind, NEW S \in SUBSET Keys, NEW g \in Trees(kind, S)
    PROVE  /\ Len(g) \in Nat \ {0} /\ DOMAIN g = 1..Len(g)
           /\ \A i \in 1..Len(g) : g[i] \in SUBSET S
           /\ g[1] = S /\ IsTree(kind, g)
<1>1. Cardinality(Keys) \in Nat
  BY ConstantsAssumption, FS_CardinalityType
<1>2. PICK n \in 1..Cardinality(Keys) : g \in [1..n -> SUBSET S]
  BY DEF Trees
<1>3. n \in Nat \ {0}
  BY <1>1, <1>2
<1>4. Len(g) = n /\ DOMAIN g = 1..n
  BY <1>2, <1>3
<1>5. g[1] = S /\ IsTree(kind, g)
  BY DEF Trees
<1> QED BY <1>2, <1>3, <1>4, <1>5

\* Two keys of one slot make a run, the keys of that slot.
LEMMA RunAt ==
    ASSUME NEW kind, NEW S, NEW i, NEW k \in S, NEW l \in S, k # l,
           Fit(kind, S).slot[k] = i, Fit(kind, S).slot[l] = i
    PROVE  {j \in S : Fit(kind, S).slot[j] = i} \in Runs(kind, S)
<1> DEFINE slot == Fit(kind, S).slot
           at(x) == {j \in S : slot[j] = slot[x]}
<1>1. Runs(kind, S) = {at(x) : x \in {j \in S : at(j) # {j}}}
  BY DEF Runs
<1>2. l \in at(k)
  OBVIOUS
<1>3. k \in {j \in S : at(j) # {j}}
  BY <1>2
<1>4. {j \in S : Fit(kind, S).slot[j] = i} = at(k)
  OBVIOUS
<1> QED BY <1>1, <1>3, <1>4

\* A run has two keys, and is what one slot holds.
LEMMA RunFacts ==
    ASSUME NEW kind, NEW S, NEW G \in Runs(kind, S)
    PROVE  /\ G \subseteq S /\ \E k, l \in G : k # l
           /\ \E k \in G : G = {j \in S : Fit(kind, S).slot[j] = Fit(kind, S).slot[k]}
<1> DEFINE slot == Fit(kind, S).slot
           at(x) == {j \in S : slot[j] = slot[x]}
<1>1. PICK x \in S : at(x) # {x} /\ G = at(x)
  BY DEF Runs
<1>2. x \in at(x)
  OBVIOUS
<1>3. \E y \in at(x) : y # x
  BY <1>1, <1>2
<1> QED BY <1>1, <1>2, <1>3

\* What a slot of a new node becomes.
LEMMA NewCell ==
    ASSUME TypeOK, TreeInv, NEW kind, NEW E \in SUBSET Entries, NEW d \in Cells,
           NEW g \in Trees(kind, {e.key : e \in E}), AddTree(kind, g, E, d),
           d \notin NewCells, NEW c \in NewCells
    PROVE  /\ c[1] - used \in 1..Len(g)
           /\ \/ NewEmpty(kind, g, c) \/ NewData(kind, g, E, c)
              \/ \E j \in 2..Len(g) : NewLink(kind, g, c, j)
<1> DEFINE S == {e.key : e \in E}
           i == c[1] - used
           K == {k \in g[i] : Fit(kind, g[i]).slot[k] = c[2]}
           alone == {e \in E : NewKeys(kind, g, c) = {e.key}}
           below == {j \in DOMAIN g : j > 1 /\ g[j] = NewKeys(kind, g, c)}
<1>1. S \in SUBSET Keys
  BY DEF Entries
<1>2. /\ Len(g) \in Nat \ {0} /\ DOMAIN g = 1..Len(g)
      /\ \A j \in 1..Len(g) : g[j] \in SUBSET S
      /\ g[1] = S /\ IsTree(kind, g)
  BY <1>1, TreesFacts
<1>3. used' = used + Len(g) /\ c \in SlotCells /\ used \in Nat /\ c[1] \in Nat
  BY UsedFacts DEF AddTree, NewCells
<1>4. i \in 1..Len(g)
  BY <1>2, <1>3 DEF NewCells
<1>5. NewKeys(kind, g, c) = K /\ K \subseteq g[i]
  BY <1>2, <1>4 DEF NewKeys
<1>6. /\ inline'[c] = IF alone # {} THEN CHOOSE e \in alone : TRUE ELSE inline[c]
      /\ st'[c] = IF alone # {} THEN "DATA" ELSE IF below # {} THEN "CHILD" ELSE st[c]
      /\ ptr'[c] = IF below # {} THEN Plain(used + (CHOOSE j \in below : TRUE)) ELSE ptr[c]
  <2>1. c # d /\ c \in Cells /\ c \in SlotCells
    BY <1>3, CellFacts
  <2>2. /\ inline' = [x \in SlotCells |->
              IF {e \in E : NewKeys(kind, g, x) = {e.key}} # {}
              THEN CHOOSE e \in {e \in E : NewKeys(kind, g, x) = {e.key}} : TRUE
              ELSE inline[x]]
        /\ st' = [x \in SlotCells |->
              IF {e \in E : NewKeys(kind, g, x) = {e.key}} # {} THEN "DATA"
              ELSE IF {j \in DOMAIN g : j > 1 /\ g[j] = NewKeys(kind, g, x)} # {} THEN "CHILD"
              ELSE st[x]]
        /\ ptr' = [x \in Cells |-> IF x = d THEN Plain(Fresh)
              ELSE IF {j \in DOMAIN g : j > 1 /\ g[j] = NewKeys(kind, g, x)} # {}
              THEN Plain(used + (CHOOSE j \in {j \in DOMAIN g : j > 1 /\ g[j] = NewKeys(kind, g, x)} : TRUE))
              ELSE ptr[x]]
    BY DEF AddTree
  <2>3. inline'[c] = IF alone # {} THEN CHOOSE e \in alone : TRUE ELSE inline[c]
    BY <2>1, <2>2
  <2>4. ptr'[c] = IF below # {} THEN Plain(used + (CHOOSE j \in below : TRUE)) ELSE ptr[c]
    BY <2>1, <2>2
  <2>5. st'[c] = IF alone # {} THEN "DATA" ELSE IF below # {} THEN "CHILD" ELSE st[c]
    BY <2>1, <2>2
  <2> QED BY <2>3, <2>4, <2>5
<1>7. st[c] = "EMPTY" /\ inline[c] = Nil
  BY <1>3 DEF TreeInv, NewCells
<1>8. ASSUME NEW j \in below PROVE j \in 2..Len(g) /\ g[j] = K /\ \E k, l \in K : k # l
  <2>1. j \in 2..Len(g) /\ g[j] = K
    BY <1>2, <1>5
  <2>2. j \in DOMAIN g \ {1}
    BY <1>2, <2>1
  <2>3. PICK h \in DOMAIN g : g[j] \in Runs(kind, g[h])
    BY <1>2, <2>2 DEF IsTree
  <2>4. \E k, l \in g[j] : k # l
    BY <2>3, RunFacts
  <2> QED BY <2>1, <2>4
<1>9. CASE K = {}
  <2>1. alone = {} /\ below = {}
    BY <1>5, <1>8, <1>9
  <2> QED BY <2>1, <1>4, <1>5, <1>6, <1>7, <1>9 DEF NewEmpty
<1>10. ASSUME NEW k \in K, K = {k}
       PROVE  NewData(kind, g, E, c)
  <2>1. PICK e \in E : e.key = k
    BY <1>2, <1>4, <1>5, <1>10
  <2>2. e \in alone /\ below = {}
    BY <2>1, <1>5, <1>8, <1>10
  <2>3. inline'[c] \in alone
    BY <2>2, <1>6
  <2> QED BY <2>2, <2>3, <1>6 DEF NewData
<1>11. ASSUME NEW k \in K, NEW l \in K, k # l
       PROVE  \E j \in 2..Len(g) : NewLink(kind, g, c, j)
  <2>1. K \in Runs(kind, g[i])
    BY <1>11, RunAt
  <2>2. PICK j \in DOMAIN g : i < j /\ g[j] = K
    BY <2>1, <1>2, <1>4 DEF IsTree
  <2>3. j \in 2..Len(g)
    BY <2>2, <1>2, <1>4
  <2>4. alone = {}
    BY <1>5, <1>11
  <2>5. j \in below /\ \A h \in below : h = j
    <3>1. j \in below
      BY <2>2, <2>3, <1>5
    <3>2. ASSUME NEW h \in below PROVE h = j
      <4>1. h \in DOMAIN g /\ g[h] = g[j]
        BY <2>2, <1>5
      <4> QED BY <4>1, <1>2 DEF IsTree
    <3> QED BY <3>1, <3>2
  <2>6. (CHOOSE h \in below : TRUE) = j
    BY <2>5
  <2>7. ptr'[c] = Plain(used + j) /\ st'[c] = "CHILD" /\ inline'[c] = Nil
    BY <2>4, <2>5, <2>6, <1>6, <1>7
  <2>8. c[1] < used + j
    BY <2>2, <2>3, <1>3, <1>4
  <2> QED BY <2>2, <2>3, <2>7, <2>8, <1>5, <1>11 DEF NewLink
<1> QED
  <2> HIDE DEF K
  <2> QED BY <1>4, <1>9, <1>10, <1>11

\* What AddTree does, cell by cell.
LEMMA AddTreeFacts ==
    ASSUME TypeOK, TreeInv, NEW kind, NEW E \in SUBSET Entries, NEW d \in Cells,
           NEW g \in Trees(kind, {e.key : e \in E}), AddTree(kind, g, E, d),
           d \notin NewCells,
           \A i \in 1..Len(g) : Fit(kind, g[i]) \in Models
    PROVE  Added(kind, g, E, d)
<1> DEFINE S == {e.key : e \in E}
<1>1. S \in SUBSET Keys
  BY DEF Entries
<1>2. /\ Len(g) \in Nat \ {0} /\ DOMAIN g = 1..Len(g)
      /\ \A j \in 1..Len(g) : g[j] \in SUBSET S
      /\ g[1] = S /\ IsTree(kind, g)
  BY <1>1, TreesFacts
<1>3. /\ used' = used + Len(g) /\ used' \in Nodes /\ used \in Nat \ {0}
      /\ Nodes = 1..MaxNodes /\ MaxNodes \in Nat
  BY UsedFacts DEF AddTree
<1>4. /\ model' = [n \in Nodes |-> model'[n]] /\ st' = [c \in SlotCells |-> st'[c]]
      /\ inline' = [c \in SlotCells |-> inline'[c]] /\ ptr' = [c \in Cells |-> ptr'[c]]
  BY DEF AddTree
<1>5. \A n \in Nodes : model'[n] = IF n - used \in DOMAIN g
                                  THEN Fit(kind, g[n - used]) ELSE model[n]
  BY DEF AddTree
<1>6. \A n \in Nodes : n <= used \/ n > used' => model'[n] = model[n]
  <2> SUFFICES ASSUME NEW n \in Nodes, n <= used \/ n > used' PROVE model'[n] = model[n]
    OBVIOUS
  <2>1. n - used \notin DOMAIN g
    BY <1>2, <1>3
  <2> QED BY <2>1, <1>5
<1>7. \A i \in 1..Len(g) : model'[used + i] = Fit(kind, g[i])
  <2> SUFFICES ASSUME NEW i \in 1..Len(g) PROVE model'[used + i] = Fit(kind, g[i])
    OBVIOUS
  <2>1. used + i \in Nodes /\ (used + i) - used = i
    BY <1>2, <1>3
  <2> QED BY <2>1, <1>2, <1>5
<1>8. ASSUME NEW c \in Cells \ NewCells PROVE NewKeys(kind, g, c) = {}
                                            /\ ~\E i \in DOMAIN g : i > 1 /\ g[i] = {}
  <2>1. c = RootCell => c[1] - used \notin DOMAIN g
    <3>1. RootCell[1] = 0
      BY DEF RootCell
    <3> QED BY <3>1, <1>2, <1>3
  <2>2. c \in SlotCells => c[1] - used \notin DOMAIN g
    <3> SUFFICES ASSUME c \in SlotCells PROVE c[1] - used \notin 1..Len(g)
      BY <1>2
    <3>1. c[1] \in 1..MaxNodes
      BY UsedFacts
    <3>2. ~(used < c[1] /\ c[1] <= used')
      BY <1>8 DEF NewCells
    <3> QED BY <3>1, <3>2, <1>2, <1>3
  <2>3. NewKeys(kind, g, c) = {}
    <3>1. c[1] - used \notin DOMAIN g
      BY <2>1, <2>2, CellFacts
    <3> QED BY <3>1 DEF NewKeys
  <2>4. ASSUME NEW i \in DOMAIN g, i > 1 PROVE g[i] # {}
    <3>1. \E h \in DOMAIN g : g[i] \in Runs(kind, g[h])
      BY <2>4, <1>2 DEF IsTree
    <3> QED BY <3>1, RunFacts
  <2> QED BY <2>3, <2>4
<1>9. ASSUME NEW c \in Cells \ NewCells
      PROVE  ptr'[c] = IF c = d THEN Plain(Fresh) ELSE ptr[c]
  BY <1>8 DEF AddTree
<1>10. ASSUME NEW c \in SlotCells \ NewCells
       PROVE  st'[c] = st[c] /\ inline'[c] = inline[c]
  <2>1. c \in Cells \ NewCells
    BY CellFacts
  <2>2. {e \in E : NewKeys(kind, g, c) = {e.key}} = {}
    BY <2>1, <1>8
  <2>3. {i \in DOMAIN g : i > 1 /\ g[i] = NewKeys(kind, g, c)} = {}
    BY <2>1, <1>8
  <2> QED BY <2>2, <2>3 DEF AddTree
<1>11. ASSUME NEW c \in NewCells
       PROVE  \/ NewEmpty(kind, g, c) \/ NewData(kind, g, E, c)
              \/ \E j \in 2..Len(g) : NewLink(kind, g, c, j)
  BY <1>11, NewCell
<1>12. ASSUME NEW j \in 2..Len(g) PROVE \E c \in NewCells : NewLink(kind, g, c, j)
  <2>1. PICK h \in 1..Len(g) : g[j] \in Runs(kind, g[h])
    <3>1. j \in DOMAIN g \ {1}
      BY <1>2
    <3> QED BY <3>1, <1>2 DEF IsTree
  <2>2. PICK k \in g[j] : g[j] = {x \in g[h] : Fit(kind, g[h]).slot[x] = Fit(kind, g[h]).slot[k]}
    BY <2>1, RunFacts
  <2>3. \E x, y \in g[j] : x # y
    BY <2>1, RunFacts
  <2> DEFINE c == <<used + h, Fit(kind, g[h]).slot[k]>>
  <2>4. c \in NewCells
    <3>1. k \in Keys
      BY <1>1, <1>2
    <3>2. Fit(kind, g[h]).slot[k] \in Slots
      BY <3>1 DEF Models
    <3>3. used + h \in Nodes /\ used < used + h /\ used + h <= used'
      BY <1>2, <1>3
    <3> QED BY <3>2, <3>3 DEF NewCells, SlotCells
  <2>5. NewKeys(kind, g, c) = g[j]
    <3>1. c[1] - used = h /\ c[2] = Fit(kind, g[h]).slot[k]
      BY <1>3
    <3> QED BY <3>1, <2>2, <1>2 DEF NewKeys
  <2>6. CASE NewEmpty(kind, g, c)
    BY <2>6, <2>5, <2>2 DEF NewEmpty
  <2>7. CASE NewData(kind, g, E, c)
    BY <2>7, <2>5, <2>3 DEF NewData
  <2>8. ASSUME NEW i \in 2..Len(g), NewLink(kind, g, c, i) PROVE i = j
    <3>1. g[i] = g[j]
      BY <2>8, <2>5 DEF NewLink
    <3> QED BY <3>1, <1>2 DEF IsTree
  <2> HIDE DEF c
  <2> QED BY <2>4, <2>6, <2>7, <2>8, <1>11
<1>13. ASSUME NEW c1 \in NewCells, NEW c2 \in NewCells, NEW j \in 2..Len(g),
              NewLink(kind, g, c1, j), NewLink(kind, g, c2, j)
       PROVE  c1 = c2
  <2> DEFINE i1 == c1[1] - used  i2 == c2[1] - used
  <2>1. i1 \in 1..Len(g) /\ i2 \in 1..Len(g)
    BY NewCell
  <2>2. /\ g[j] = {x \in g[i1] : Fit(kind, g[i1]).slot[x] = c1[2]}
        /\ g[j] = {x \in g[i2] : Fit(kind, g[i2]).slot[x] = c2[2]}
    BY <1>13, <2>1, <1>2 DEF NewLink, NewKeys
  <2>3. PICK k \in g[j], l \in g[j] : k # l
    BY <1>13 DEF NewLink
  <2>4. g[j] \in Runs(kind, g[i1]) /\ g[j] \in Runs(kind, g[i2])
    <3>1. /\ k \in g[i1] /\ l \in g[i1]
          /\ Fit(kind, g[i1]).slot[k] = c1[2] /\ Fit(kind, g[i1]).slot[l] = c1[2]
          /\ k \in g[i2] /\ l \in g[i2]
          /\ Fit(kind, g[i2]).slot[k] = c2[2] /\ Fit(kind, g[i2]).slot[l] = c2[2]
      BY <2>2
    <3>2. {x \in g[i1] : Fit(kind, g[i1]).slot[x] = c1[2]} \in Runs(kind, g[i1])
      BY <3>1, <2>3, RunAt
    <3>3. {x \in g[i2] : Fit(kind, g[i2]).slot[x] = c2[2]} \in Runs(kind, g[i2])
      BY <3>1, <2>3, RunAt
    <3> QED BY <3>2, <3>3, <2>2
  <2>5. i1 = i2
    BY <2>1, <2>4, <1>2 DEF IsTree
  <2>6. c1[1] = c2[1] /\ c1[2] = c2[2]
    BY <2>2, <2>3, <2>5, UsedFacts DEF NewCells
  <2> QED BY <2>6 DEF NewCells, SlotCells
<1> QED
  <2>1. \A i \in 1..Len(g) : g[i] \in SUBSET Keys
    BY <1>1, <1>2
  <2> QED BY <2>1, <1>2, <1>3, <1>4, <1>6, <1>7, <1>9, <1>10, <1>11, <1>12, <1>13 DEF Added

\* A swap puts a tree with the snapshot in the place of the frozen pointer.
LEMMA SwapAdds ==
    ASSUME IInv, NEW p \in Threads, Swap(p)
    PROVE  /\ Freezing(p) /\ ptr[rb[p].cell] = Frozen(rb[p].victim)
           /\ rb[p].cell \in Cells /\ NewEntries(p) \in SUBSET Entries
           /\ rb[p].cell # RootCell => IsChild(st[rb[p].cell]) /\ rb[p].cell[1] <= used
           /\ retired' = retired \cup Garbage(p)
           /\ UNCHANGED <<tombs, len, next_root_rebuild>>
           /\ \E g : Added(rb[p].kind, g, NewEntries(p), rb[p].cell)
<1> DEFINE c == rb[p].cell
           kind == rb[p].kind
           S == {e.key : e \in NewEntries(p)}
<1>1. TypeOK /\ TreeInv
  BY DEF IInv
<1>2. Freezing(p) /\ ptr[c] = Frozen(rb[p].victim)
  BY DEF Swap, Freezing, IInv, FreezeExclusive
<1>3. PICK g \in Trees(kind, S) : AddTree(kind, g, NewEntries(p), c)
  BY <1>2 DEF Swap, NewTrees
<1>4. /\ retired' = retired \cup Garbage(p)
      /\ UNCHANGED <<tombs, len, next_root_rebuild>>
  BY <1>2 DEF Swap, counts
<1>5. /\ c \in Cells /\ rb[p].pairs \in SUBSET Entries
  BY <1>1 DEF TypeOK, ThreadTypes, Scans
<1>6. NewEntries(p) \in SUBSET Entries /\ S \in SUBSET Keys
  BY <1>5 DEF NewEntries, Entries
<1>7. c # RootCell => IsChild(st[c]) /\ c[1] <= used
  <2>1. c # RootCell => IsChild(st[c]) /\ c \in SlotCells
    BY <1>2, <1>5, CellFacts DEF IInv, ThreadInv, Freezing, Rebuilding
  <2> QED BY <2>1, <1>1, UsedFacts DEF TreeInv, IsChild
<1>8. c \notin NewCells
  BY <1>5, <1>7, <1>1, CellFacts, UsedFacts DEF NewCells
<1>9. /\ Len(g) \in Nat \ {0} /\ DOMAIN g = 1..Len(g)
      /\ \A j \in 1..Len(g) : g[j] \in SUBSET S
      /\ g[1] = S /\ IsTree(kind, g)
  BY <1>6, TreesFacts
<1>10. kind \in {"subtree", "rebuild"} => S # {}
  <2>1. ~TooSmall(p)
    BY DEF Swap
  <2>2. Cardinality({}) = 0
    BY FS_EmptySet
  <2>3. rb[p].pairs = {} => Cardinality(rb[p].pairs) <= 1
    BY <2>2
  <2>4. kind \in {"subtree", "rebuild"} => NewEntries(p) = rb[p].pairs /\ rb[p].pairs # {}
    BY <2>1, <2>3 DEF TooSmall, NewEntries
  <2> QED BY <2>4
<1>11. ASSUME NEW i \in 1..Len(g) PROVE Fit(kind, g[i]) \in Models
  <2>1. g[i] \in SUBSET Keys
    BY <1>6, <1>9
  <2>2. kind \in {"subtree", "rebuild"} => g[i] # {}
    <3>1. CASE i = 1
      BY <3>1, <1>9, <1>10
    <3>2. CASE i # 1
      <4>1. \E h \in DOMAIN g : g[i] \in Runs(kind, g[h])
        BY <3>2, <1>9 DEF IsTree
      <4> QED BY <4>1, RunFacts
    <3> QED BY <3>1, <3>2
  <2> QED BY <2>1, <2>2, ModelsAssumption DEF Fit
<1>12. Added(kind, g, NewEntries(p), c)
  BY <1>1, <1>3, <1>5, <1>6, <1>8, <1>11, AddTreeFacts
<1> QED BY <1>2, <1>4, <1>5, <1>6, <1>7, <1>12

\* What Swap does to the tree.
LEMMA TreeSwap ==
    ASSUME IInv, NEW p \in Threads, Swap(p)
    PROVE  TreeStep(p)
<1> DEFINE d == rb[p].cell
           kind == rb[p].kind
           E == NewEntries(p)
<1>1. TypeOK /\ TreeTypes /\ TreeInv
  BY DEF IInv, TypeOK
<1>2. /\ Freezing(p) /\ d \in Cells /\ E \in SUBSET Entries
      /\ d # RootCell => IsChild(st[d]) /\ d[1] <= used
      /\ retired' = retired \cup Garbage(p)
      /\ UNCHANGED <<tombs, len, next_root_rebuild>>
  BY SwapAdds
<1>3. PICK g : Added(kind, g, E, d)
  BY SwapAdds
<1>4. /\ used \in Nat \ {0} /\ Len(g) \in Nat \ {0} /\ MaxNodes \in Nat
      /\ used' = used + Len(g) /\ used' \in Nodes /\ Nodes = 1..MaxNodes
      /\ \A n \in 1..used : model'[n] = model[n]
      /\ Fresh = used + 1
  BY <1>1, <1>3, UsedFacts DEF Added
<1>5. \A c \in SlotCells : c \in NewCells <=> c[1] > used /\ c[1] <= used'
  BY <1>4, UsedFacts, <1>1 DEF NewCells
<1>6. \A c \in SlotCells \ NewCells : st'[c] = st[c] /\ inline'[c] = inline[c]
  BY <1>3 DEF Added
<1>7. \A c \in Cells \ NewCells : ptr'[c] = IF c = d THEN Plain(Fresh) ELSE ptr[c]
  BY <1>3 DEF Added
<1>8. ASSUME NEW c \in NewCells
      PROVE  \/ st'[c] = "EMPTY" /\ inline'[c] = Nil /\ ptr'[c] = ptr[c]
             \/ st'[c] = "DATA" /\ inline'[c] \in Entries /\ ptr'[c] = ptr[c]
             \/ /\ st'[c] = "CHILD" /\ inline'[c] = Nil
                /\ \E n \in Nodes : n <= used' /\ ptr'[c] = Plain(n)
  <2>1. CASE NewEmpty(kind, g, c)
    BY <2>1 DEF NewEmpty
  <2>2. CASE NewData(kind, g, E, c)
    BY <2>2, <1>2 DEF NewData
  <2>3. ASSUME NEW j \in 2..Len(g), NewLink(kind, g, c, j)
        PROVE  /\ st'[c] = "CHILD" /\ inline'[c] = Nil
               /\ \E n \in Nodes : n <= used' /\ ptr'[c] = Plain(n)
    <3>1. used + j \in Nodes /\ used + j <= used'
      BY <1>4
    <3> QED BY <3>1, <2>3 DEF NewLink
  <2>4. \/ NewEmpty(kind, g, c) \/ NewData(kind, g, E, c)
        \/ \E j \in 2..Len(g) : NewLink(kind, g, c, j)
    BY <1>3 DEF Added
  <2> QED BY <2>1, <2>2, <2>3, <2>4
<1>9. \A n \in Nodes : /\ Plain(n) \in Ptrs /\ Plain(n).node = n /\ Plain(n).tag = 0
                       /\ Plain(n).node # Nil
  BY ConstantsAssumption DEF Plain, Ptrs
<1>10. Fresh \in Nodes /\ Fresh <= used'
  BY <1>4
<1>11. TreeTypes'
  <2>1. \A n \in Nodes : model'[n] \in Models
    <3> SUFFICES ASSUME NEW n \in Nodes PROVE model'[n] \in Models
      OBVIOUS
    <3>1. CASE n <= used
      BY <3>1, <1>1, <1>4 DEF TreeTypes
    <3>2. CASE n > used /\ n <= used'
      <4>1. n - used \in 1..Len(g) /\ used + (n - used) = n
        BY <3>2, <1>4
      <4> QED BY <4>1, <1>3 DEF Added
    <3>3. CASE n > used'
      <4>1. model'[n] = model[n]
        BY <3>3, <1>3 DEF Added
      <4> QED BY <4>1, <1>1 DEF TreeTypes
    <3> QED BY <3>1, <3>2, <3>3, <1>4
  <2>2. \A c \in SlotCells : st'[c] \in SlotStates /\ inline'[c] \in Entries \cup {Nil}
    BY <1>1, <1>6, <1>8 DEF TreeTypes, SlotStates
  <2>3. \A c \in Cells : ptr'[c] \in Ptrs
    <3> SUFFICES ASSUME NEW c \in Cells PROVE ptr'[c] \in Ptrs
      OBVIOUS
    <3>1. ptr[c] \in Ptrs
      BY <1>1 DEF TreeTypes
    <3>2. CASE c \in NewCells
      BY <3>1, <3>2, <1>8, <1>9
    <3>3. CASE c \notin NewCells
      BY <3>1, <3>3, <1>7, <1>9, <1>10
    <3> QED BY <3>2, <3>3
  <2>4. /\ model' = [n \in Nodes |-> model'[n]] /\ st' = [c \in SlotCells |-> st'[c]]
        /\ inline' = [c \in SlotCells |-> inline'[c]] /\ ptr' = [c \in Cells |-> ptr'[c]]
    BY <1>3 DEF Added
  <2>5. /\ model' \in [Nodes -> Models] /\ st' \in [SlotCells -> SlotStates]
        /\ inline' \in [SlotCells -> Entries \cup {Nil}] /\ ptr' \in [Cells -> Ptrs]
    BY <2>1, <2>2, <2>3, <2>4
  <2>6. retired' \in SUBSET Nodes
    BY <1>1, <1>2 DEF TypeOK, ThreadTypes, Scans, TreeTypes, Garbage
  <2> QED BY <2>5, <2>6, <1>1, <1>2, <1>4 DEF TreeTypes
<1>12. TreeInv'
  <2>1. ptr'[RootCell].node \in 1..used'
    <3>1. RootCell \in Cells \ NewCells
      BY CellFacts DEF NewCells
    <3> QED BY <3>1, <1>1, <1>4, <1>7, <1>9, <1>10 DEF TreeInv
  <2>2. ASSUME NEW c \in SlotCells
        PROVE  /\ ptr'[c].node # Nil => ptr'[c].node <= used'
               /\ IsChild(st'[c]) => ptr'[c].node # Nil
    <3>0. c \in Cells
      BY CellFacts
    <3>1. ptr[c].node \in Nodes \cup {Nil} /\ (ptr[c].node # Nil => ptr[c].node <= used)
      BY <3>0, <1>1 DEF TreeTypes, Ptrs, TreeInv
    <3>2. ptr[c].node # Nil => ptr[c].node <= used'
      BY <3>1, <1>4
    <3>3. CASE c \in NewCells
      BY <3>2, <3>3, <1>8, <1>9 DEF IsChild
    <3>4. CASE c \notin NewCells
      <4>1. st'[c] = st[c] /\ ptr'[c] = IF c = d THEN Plain(Fresh) ELSE ptr[c]
        BY <3>0, <3>4, <1>6, <1>7
      <4> QED BY <4>1, <3>2, <1>1, <1>9, <1>10 DEF TreeInv
    <3> QED BY <3>3, <3>4
  <2>3. ASSUME NEW c \in SlotCells
        PROVE  /\ c[1] > used' => st'[c] = "EMPTY"
               /\ st'[c] = "EMPTY" => inline'[c] = Nil
               /\ st'[c] = "DATA" => inline'[c] # Nil
    <3>1. CASE c \in NewCells
      <4>1. ~(c[1] > used')
        <5>1. c[1] <= used' /\ c[1] \in Nat
          BY <3>1, <1>1, UsedFacts DEF NewCells
        <5> QED BY <5>1, <1>4
      <4>2. \A e \in Entries : e # Nil
        BY ConstantsAssumption
      <4> QED BY <3>1, <4>1, <4>2, <1>8
    <3>2. CASE c \notin NewCells
      BY <3>2, <1>1, <1>4, <1>5, <1>6, UsedFacts DEF TreeInv
    <3> QED BY <3>1, <3>2
  <2> QED BY <2>1, <2>2, <2>3 DEF TreeInv, IsChild
<1>13. \A c \in NewCells : st[c] = "EMPTY" /\ inline[c] = Nil
  BY <1>1 DEF TreeInv, NewCells
<1>14. Grows
  BY <1>4, <1>6, <1>13 DEF Grows, IsChild
<1>15. Footprint(p)
  <2>1. ASSUME NEW c \in Cells, c[1] <= used, c \in NewCells PROVE FALSE
    <3>1. used < c[1] /\ c[1] \in Nat
      BY <2>1, <1>1, UsedFacts DEF NewCells
    <3> QED BY <2>1, <3>1, <1>4
  <2>2. \A c \in Cells : c[1] <= used /\ ptr'[c] # ptr[c] => c = d
    BY <2>1, <1>7
  <2>3. \A c \in SlotCells : c[1] <= used => st'[c] = st[c] /\ inline'[c] = inline[c]
    BY <2>1, <1>6, CellFacts
  <2> QED BY <2>2, <2>3, <1>2 DEF Footprint
<1> QED BY <1>11, <1>12, <1>14, <1>15 DEF TreeStep

\* What Freeze does to the tree.
LEMMA TreeFreeze ==
    ASSUME IInv, NEW p \in Threads, Freeze(p)
    PROVE  TreeStep(p)
<1> DEFINE c == rb[p].cell
           v == rb[p].victim
<1>1. TypeOK /\ TreeTypes /\ TreeInv
  BY DEF IInv, TypeOK
<1>2. c \in Cells /\ v \in Nodes
  BY <1>1 DEF TypeOK, ThreadTypes, Scans
<1>3. CASE ~StillUnfrozen(p)
  <2>1. UNCHANGED core /\ TreeTypes'
    BY <1>1, <1>3 DEF Freeze, GiveUp, core, TreeTypes, counts
  <2> QED BY <2>1, TreeLocal
<1>4. CASE StillUnfrozen(p)
  <2>1. /\ ptr' = [ptr EXCEPT ![c] = Frozen(v)] /\ pc[p] = "rb_freeze"
        /\ UNCHANGED <<model, st, inline, tombs, used, retired, len, next_root_rebuild>>
    BY <1>4 DEF Freeze, GiveUp, counts
  <2>2. ptr[c].node = v /\ ptr[c].tag = 0 /\ Frozen(v).node = v /\ Frozen(v) \in Ptrs
    BY <1>2, <1>4 DEF StillUnfrozen, Plain, Frozen, Ptrs
  <2>3. \A d \in Cells : ptr'[d].node = ptr[d].node /\ (d # c => ptr'[d] = ptr[d])
    BY <1>1, <2>1, <2>2 DEF TreeTypes
  <2>4. TreeTypes'
    BY <1>1, <2>1, <2>2 DEF TreeTypes
  <2>5. TreeInv'
    BY <1>1, <2>1, <2>3, CellFacts DEF TreeInv, IsChild
  <2>6. Grows
    BY <1>1, <2>1, UsedFacts DEF Grows, IsChild
  <2>7. Footprint(p)
    BY <2>1, <2>2, <2>3 DEF Footprint
  <2> QED BY <2>4, <2>5, <2>6, <2>7 DEF TreeStep
<1> QED BY <1>3, <1>4

\* What Unfreeze does to the tree.
LEMMA TreeUnfreeze ==
    ASSUME IInv, NEW p \in Threads, Unfreeze(p)
    PROVE  TreeStep(p)
<1> DEFINE c == rb[p].cell
           v == rb[p].victim
<1>1. TypeOK /\ TreeTypes /\ TreeInv
  BY DEF IInv, TypeOK
<1>2. c \in Cells /\ v \in Nodes
  BY <1>1 DEF TypeOK, ThreadTypes, Scans
<1>3. Freezing(p) /\ ptr[c] = Frozen(v)
  BY DEF Unfreeze, GiveUp, Freezing, IInv, FreezeExclusive
<1>4. /\ ptr' = [ptr EXCEPT ![c] = Plain(v)]
      /\ UNCHANGED <<model, st, inline, tombs, used, retired, len, next_root_rebuild>>
  BY <1>3 DEF Unfreeze, GiveUp, counts
<1>5. ptr[c].node = v /\ Plain(v).node = v /\ Plain(v) \in Ptrs
  BY <1>2, <1>3 DEF Plain, Frozen, Ptrs
<1>6. \A d \in Cells : ptr'[d].node = ptr[d].node /\ (d # c => ptr'[d] = ptr[d])
  BY <1>1, <1>4, <1>5 DEF TreeTypes
<1>7. TreeTypes'
  BY <1>1, <1>4, <1>5 DEF TreeTypes
<1>8. TreeInv'
  BY <1>1, <1>4, <1>6, CellFacts DEF TreeInv, IsChild
<1>9. Grows
  BY <1>1, <1>4, UsedFacts DEF Grows, IsChild
<1>10. Footprint(p)
  BY <1>3, <1>4, <1>6 DEF Footprint
<1> QED BY <1>7, <1>8, <1>9, <1>10 DEF TreeStep

\* The other actions change nothing of the tree but its counters.
LocalStep(p) ==
    \/ Begin(p) \/ Return(p)
    \/ LoadRoot(p) \/ Descend(p)
    \/ RemoveMiss(p) \/ GetExisting(p)
    \/ Validate(p) \/ CheckRatio(p) \/ LoadOwn(p)
    \/ Recheck(p) \/ Count(p) \/ CheckGrowth(p) \/ AdvanceThreshold(p)
    \/ ReadRoot(p) \/ ReadStep(p) \/ ScanStep(p) \/ ScanEnd(p)
    \/ LoadVictim(p) \/ ResetCounters(p)

\* They keep the types of the tree.
LEMMA LocalCore ==
    ASSUME IInv, NEW p \in Threads, LocalStep(p)
    PROVE  UNCHANGED core /\ TreeTypes'
<1>1. TypeOK /\ TreeTypes /\ ThreadTypes
  BY DEF IInv, TypeOK
<1>2. CASE Begin(p)
  BY <1>2, <1>1 DEF Begin, tree, core, counts, TreeTypes
<1>3. CASE Return(p)
  BY <1>3, <1>1 DEF Return, tree, core, counts, TreeTypes
<1>4. CASE LoadRoot(p)
  BY <1>4, <1>1 DEF LoadRoot, tree, core, counts, TreeTypes
<1>5. CASE Descend(p)
  BY <1>5, <1>1 DEF Descend, tree, core, counts, TreeTypes
<1>6. CASE RemoveMiss(p)
  BY <1>6, <1>1 DEF RemoveMiss, tree, core, counts, TreeTypes
<1>7. CASE GetExisting(p)
  BY <1>7, <1>1 DEF GetExisting, tree, core, counts, TreeTypes
<1>8. CASE Validate(p)
  <2>1. walk[p].cur \in Nodes
    BY <1>1 DEF ThreadTypes, Walks
  <2> QED BY <1>8, <1>1, <2>1 DEF Validate, core, counts, TreeTypes
<1>9. CASE CheckRatio(p)
  BY <1>9, <1>1 DEF CheckRatio, tree, core, counts, TreeTypes
<1>10. CASE LoadOwn(p)
  BY <1>10, <1>1 DEF LoadOwn, tree, core, counts, TreeTypes
<1>11. CASE Recheck(p)
  BY <1>11, <1>1 DEF Recheck, tree, core, counts, TreeTypes
<1>12. CASE Count(p)
  BY <1>12, <1>1 DEF Count, tree, core, counts, TreeTypes
<1>13. CASE CheckGrowth(p)
  BY <1>13, <1>1 DEF CheckGrowth, tree, core, counts, TreeTypes
<1>14. CASE AdvanceThreshold(p)
  <2>1. num[p] \in Int
    BY <1>1 DEF ThreadTypes
  <2> QED BY <1>14, <1>1, <2>1 DEF AdvanceThreshold, tree, core, counts, TreeTypes
<1>15. CASE ReadRoot(p)
  BY <1>15, <1>1 DEF ReadRoot, tree, core, counts, TreeTypes
<1>16. CASE ReadStep(p)
  BY <1>16, <1>1 DEF ReadStep, tree, core, counts, TreeTypes
<1>17. CASE ScanStep(p)
  BY <1>17, <1>1 DEF ScanStep, tree, core, counts, TreeTypes
<1>18. CASE ScanEnd(p)
  BY <1>18, <1>1 DEF ScanEnd, tree, core, counts, TreeTypes
<1>19. CASE LoadVictim(p)
  BY <1>19, <1>1 DEF LoadVictim, GiveUp, tree, core, counts, TreeTypes
<1>20. CASE ResetCounters(p)
  <2>1. Cardinality(rb[p].pairs) \in Nat
    BY FS_CardinalityType DEF IInv, ThreadInv
  <2> QED BY <1>20, <1>1, <2>1, ConstantsAssumption DEF ResetCounters, tree, core, counts, TreeTypes
<1> QED BY <1>2, <1>3, <1>4, <1>5, <1>6, <1>7, <1>8, <1>9, <1>10, <1>11, <1>12, <1>13, <1>14, <1>15, <1>16, <1>17, <1>18, <1>19, <1>20 DEF LocalStep

-----------------------------------------------------------------------------
(***************************************************************************)
(* The threads that do not take the step.                                  *)
(***************************************************************************)
\* The slot a thread looks at does not move when nodes are allocated.
LEMMA HereStable ==
    ASSUME IInv, Grows, NEW q \in Threads,
           walk'[q].cur = walk[q].cur, call'[q].key = call[q].key
    PROVE  Here(q)' = Here(q)
<1>1. walk[q].cur \in 1..used
  BY UsedFacts DEF IInv, ThreadInv, TypeOK, ThreadTypes, Walks
<1>2. model'[walk[q].cur] = model[walk[q].cur]
  BY <1>1 DEF Grows
<1> QED BY <1>2 DEF Here, predict_slot

\* A thread that does not take the step keeps what it knows and what it owns.
LEMMA Others ==
    ASSUME IInv, NEW p \in Threads, NEW q \in Threads, q # p,
           TypeOK', Grows, Footprint(p), Frame(p)
    PROVE  /\ ThreadInv(q)'
           /\ Here(q)' = Here(q)
           /\ pc[q] = "publish" => st'[Here(q)] = "WRITING"
           /\ Freezing(q) => ptr'[rb[q].cell] = ptr[rb[q].cell]
<1>1. TypeOK /\ ThreadInv(q) /\ SlotExclusive /\ FreezeExclusive
  BY DEF IInv
<1>2. pc'[q] = pc[q] /\ walk'[q] = walk[q] /\ rb'[q] = rb[q] /\ call'[q] = call[q]
  BY DEF Frame
<1>3. Here(q)' = Here(q)
  BY <1>2, HereStable
<1>4. Here(q) \in SlotCells /\ Here(q)[1] <= used
  BY <1>1, HereCell DEF ThreadInv
<1>5. pc[q] = "publish" => st'[Here(q)] = "WRITING" /\ inline'[Here(q)] = inline[Here(q)]
  BY <1>1, <1>4 DEF SlotExclusive, Footprint
<1>6. Freezing(q) => ptr'[rb[q].cell] = ptr[rb[q].cell]
  <2>1. SUFFICES ASSUME Freezing(q), ptr'[rb[q].cell] # ptr[rb[q].cell]
                 PROVE  FALSE
    OBVIOUS
  <2>2. rb[q].cell \in Cells
    BY <1>1 DEF TypeOK, ThreadTypes, Scans
  <2>3. ptr[rb[q].cell].tag = 1
    <3>1. ptr[rb[q].cell] = Frozen(rb[q].victim)
      BY <1>1, <2>1 DEF FreezeExclusive
    <3>2. Frozen(rb[q].victim).tag = 1
      BY DEF Frozen
    <3> QED BY <3>1, <3>2
  <2>4. rb[q].cell = Here(p) /\ pc[p] = "publish"
    <3>1. ~(Freezing(p) /\ rb[q].cell = rb[p].cell)
      BY <1>1, <2>1 DEF FreezeExclusive
    <3>2. rb[q].cell[1] <= used
      BY <1>1, <2>1, <2>2, CellUsed DEF IInv, ThreadInv, Freezing, Rebuilding
    <3> QED BY <3>1, <3>2, <2>1, <2>2, <2>3 DEF Footprint
  <2>5. st[Here(p)] = "WRITING" /\ Here(p) \in SlotCells
    BY <1>1, <2>4, HereCell DEF SlotExclusive
  <2> QED BY <1>1, <2>1, <2>4, <2>5, CellFacts
          DEF ThreadInv, Freezing, Rebuilding, IsChild
<1>7. \A c \in Cells : c # RootCell /\ IsChild(st[c]) => IsChild(st'[c])
  BY CellFacts DEF Grows
<1>8. walk[q].snap \in Cells /\ rb[q].cell \in Cells
      /\ walk[q].entry <= used' /\ walk[q].cur <= used'
  <2>1. walk[q].entry \in Nodes /\ walk[q].cur \in Nodes
    BY <1>1 DEF TypeOK, ThreadTypes, Walks
  <2>2. used' \in 1..MaxNodes
    BY ConstantsAssumption DEF TypeOK, TreeTypes, Nodes
  <2>3. walk[q].entry <= used /\ walk[q].cur <= used /\ used <= used'
    BY <1>1 DEF ThreadInv, Grows
  <2>4. used \in Nat /\ walk[q].entry \in Nat /\ walk[q].cur \in Nat
    BY <1>1, <2>1, UsedFacts
  <2>5. walk[q].snap \in Cells /\ rb[q].cell \in Cells
    BY <1>1 DEF TypeOK, ThreadTypes, Walks, Scans
  <2> QED BY <2>2, <2>3, <2>4, <2>5
<1>9. ThreadInv(q)'
  <2>1. Rebuilding(q)' = Rebuilding(q) /\ OwnPending(q)' = OwnPending(q)
    BY <1>2 DEF Rebuilding, OwnPending
  <2>2. /\ walk'[q].entry <= used' /\ walk'[q].cur <= used'
        /\ IsFiniteSet(rb'[q].pairs)
        /\ walk'[q].snap # RootCell => IsChild(st'[walk'[q].snap])
        /\ Rebuilding(q)' => rb'[q].cell = RootCell \/ IsChild(st'[rb'[q].cell])
    BY <1>1, <1>2, <1>7, <1>8, <2>1 DEF ThreadInv
  <2>3. /\ pc'[q] = "ratio" => call'[q].op = "remove"
        /\ pc'[q] = "rb_post" => rb'[q].kind # "subtree"
        /\ pc'[q] = "own" => call'[q].op = "get_or_insert" /\ walk'[q].from # "EMPTY"
    BY <1>1, <1>2 DEF ThreadInv
  <2>4. OwnPending(q)' => IsChild(st[Here(q)])'
    BY <1>1, <1>3, <1>4, <1>7, <2>1, CellFacts DEF ThreadInv, IsChild
  <2>5. /\ pc'[q] = "publish" /\ walk'[q].from = "DATA" => inline'[Here(q)'] # Nil
        /\ pc'[q] = "publish" /\ walk'[q].from = "EMPTY" => inline'[Here(q)'] = Nil
    BY <1>1, <1>2, <1>3, <1>5 DEF ThreadInv
  <2> QED BY <2>2, <2>3, <2>4, <2>5 DEF ThreadInv, IsChild
<1> QED BY <1>3, <1>5, <1>6, <1>9

-----------------------------------------------------------------------------
(***************************************************************************)
(* The thread that takes the step.                                         *)
(***************************************************************************)
\* Every action changes the locals of its own thread only.
LEMMA StepFrame ==
    ASSUME ThreadTypes, NEW p \in Threads, Begin(p) \/ Step(p)
    PROVE  Frame(p)
<1> USE DEF ThreadTypes, Frame, Goto, StartRebuild
<1>1. CASE Begin(p)
  BY <1>1 DEF Begin
<1>2. CASE Return(p)
  BY <1>2 DEF Return
<1>3. CASE LoadRoot(p)
  BY <1>3 DEF LoadRoot
<1>4. CASE Descend(p)
  BY <1>4 DEF Descend
<1>5. CASE Claim(p)
  BY <1>5 DEF Claim
<1>6. CASE PublishInline(p)
  BY <1>6 DEF PublishInline
<1>7. CASE PublishChild(p)
  BY <1>7 DEF PublishChild
<1>8. CASE RemoveMiss(p)
  BY <1>8 DEF RemoveMiss
<1>9. CASE RemoveHit(p)
  BY <1>9 DEF RemoveHit
<1>10. CASE GetExisting(p)
  BY <1>10 DEF GetExisting
<1>11. CASE Validate(p)
  BY <1>11 DEF Validate
<1>12. CASE CheckRatio(p)
  BY <1>12 DEF CheckRatio
<1>13. CASE LoadOwn(p)
  BY <1>13 DEF LoadOwn
<1>14. CASE Recheck(p)
  BY <1>14 DEF Recheck
<1>15. CASE Count(p)
  BY <1>15 DEF Count
<1>16. CASE CheckGrowth(p)
  BY <1>16 DEF CheckGrowth
<1>17. CASE AdvanceThreshold(p)
  BY <1>17 DEF AdvanceThreshold
<1>18. CASE ReadRoot(p)
  BY <1>18 DEF ReadRoot
<1>19. CASE ReadStep(p)
  BY <1>19 DEF ReadStep
<1>20. CASE ScanStep(p)
  BY <1>20 DEF ScanStep
<1>21. CASE ScanEnd(p)
  BY <1>21 DEF ScanEnd
<1>22. CASE LoadVictim(p)
  BY <1>22 DEF LoadVictim, GiveUp
<1>23. CASE Freeze(p)
  BY <1>23 DEF Freeze, GiveUp
<1>24. CASE Unfreeze(p)
  BY <1>24 DEF Unfreeze, GiveUp
<1>25. CASE Swap(p)
  BY <1>25 DEF Swap
<1>26. CASE ResetCounters(p)
  BY <1>26 DEF ResetCounters
<1> QED BY <1>1, <1>2, <1>3, <1>4, <1>5, <1>6, <1>7, <1>8, <1>9, <1>10, <1>11, <1>12, <1>13,
           <1>14, <1>15, <1>16, <1>17, <1>18, <1>19, <1>20, <1>21, <1>22, <1>23, <1>24, <1>25, <1>26 DEF Step

\* After a step that leaves p outside a publication, a validation, a lookup of
\* its own entry and a rebuild.
LEMMA OwnPlain ==
    ASSUME NEW p \in Threads,
           walk'[p].entry <= used' /\ walk'[p].cur <= used',
           IsFiniteSet(rb'[p].pairs),
           walk'[p].snap # RootCell => IsChild(st'[walk'[p].snap]),
           pc'[p] \notin {"publish", "validate", "ratio", "own", "rb_load",
                          "rb_freeze", "rb_scan", "rb_post"}
    PROVE  ThreadInv(p)'
BY DEF ThreadInv, Rebuilding, OwnPending, IsChild

\* After a step inside or out of a rebuild.
LEMMA OwnRebuild ==
    ASSUME IInv, NEW p \in Threads, TypeOK', Grows, Rebuilding(p),
           walk'[p] = walk[p], call'[p] = call[p],
           rb'[p].cell = rb[p].cell, rb'[p].kind = rb[p].kind,
           IsFiniteSet(rb'[p].pairs),
           \/ pc'[p] \in {"rb_freeze", "rb_scan", Caller(p)}
           \/ pc'[p] = "rb_post" /\ rb[p].kind # "subtree"
    PROVE  ThreadInv(p)'
<1>1. TypeOK /\ ThreadInv(p)
  BY DEF IInv
<1>2. Here(p)' = Here(p) /\ Here(p) \in SlotCells
  BY <1>1, HereStable, HereCell
<1>3. \A c \in Cells : c # RootCell /\ IsChild(st[c]) => IsChild(st'[c])
  BY CellFacts DEF Grows
<1>4. walk[p].snap \in Cells /\ rb[p].cell \in Cells
  BY <1>1 DEF TypeOK, ThreadTypes, Walks, Scans
<1>5. walk'[p].entry <= used' /\ walk'[p].cur <= used'
  <2>1. walk[p].entry \in Nodes /\ walk[p].cur \in Nodes
    BY <1>1 DEF TypeOK, ThreadTypes, Walks
  <2>2. used' \in 1..MaxNodes
    BY ConstantsAssumption DEF TypeOK, TreeTypes, Nodes
  <2>3. walk[p].entry <= used /\ walk[p].cur <= used /\ used <= used'
    BY <1>1 DEF ThreadInv, Grows
  <2>4. used \in Nat /\ walk[p].entry \in Nat /\ walk[p].cur \in Nat
    BY <1>1, <2>1, UsedFacts
  <2> QED BY <2>2, <2>3, <2>4
<1>6. /\ walk'[p].snap # RootCell => IsChild(st'[walk'[p].snap])
      /\ rb'[p].cell = RootCell \/ IsChild(st'[rb'[p].cell])
  BY <1>1, <1>3, <1>4 DEF ThreadInv
<1>7. pc'[p] = "own" => /\ call[p].op = "get_or_insert" /\ walk[p].from # "EMPTY"
                        /\ rb[p].kind = "subtree"
  BY DEF Caller, AfterTrigger
<1>8. OwnPending(p)' => IsChild(st[Here(p)])
  <2>1. OwnPending(p)' => /\ call[p].op = "get_or_insert" /\ walk[p].from # "EMPTY"
                          /\ rb[p].kind = "subtree"
    BY <1>7 DEF OwnPending, Rebuilding, Caller, AfterTrigger
  <2> QED BY <1>1, <2>1 DEF ThreadInv, OwnPending
<1>9. pc'[p] \notin {"ratio", "publish"} /\ (pc'[p] = "rb_post" => rb'[p].kind # "subtree")
  BY DEF Caller, AfterTrigger
<1> QED BY <1>2, <1>3, <1>5, <1>6, <1>7, <1>8, <1>9, CellFacts DEF ThreadInv, IsChild

\* After a step that does not move p in the tree.
LEMMA OwnKeep ==
    ASSUME IInv, NEW p \in Threads, UNCHANGED <<used, st>>,
           walk'[p].entry = walk[p].entry, walk'[p].cur = walk[p].cur,
           walk'[p].snap = walk[p].snap,
           rb'[p] = rb[p] \/ rb'[p].pairs = {},
           pc'[p] \notin {"publish", "validate", "ratio", "own", "rb_load",
                          "rb_freeze", "rb_scan", "rb_post"}
    PROVE  ThreadInv(p)'
<1>1. ThreadInv(p)
  BY DEF IInv
<1>2. IsFiniteSet(rb'[p].pairs)
  BY <1>1, FS_EmptySet DEF ThreadInv
<1> QED BY <1>1, <1>2, OwnPlain DEF ThreadInv

\* After entering a rebuild of a child slot or of the root.
LEMMA OwnStart ==
    ASSUME IInv, NEW p \in Threads, UNCHANGED core, UNCHANGED <<walk, call>>,
           NEW kind, NEW c \in Cells, StartRebuild(p, kind, c),
           c = RootCell \/ IsChild(st[c]),
           kind # "subtree" \/ OwnPending(p) \/ call[p].op = "remove"
             \/ walk[p].from = "EMPTY"
    PROVE  ThreadInv(p)'
<1>1. TypeOK /\ ThreadTypes /\ ThreadInv(p)
  BY DEF IInv, TypeOK
<1>2. pc'[p] = "rb_load" /\ rb'[p] = [NoScan EXCEPT !.kind = kind, !.cell = c]
  BY <1>1 DEF StartRebuild, Goto, ThreadTypes
<1>3. rb'[p].kind = kind /\ rb'[p].cell = c /\ rb'[p].pairs = {}
  BY <1>2 DEF NoScan
<1>4. IsFiniteSet(rb'[p].pairs)
  BY <1>3, FS_EmptySet
<1>5. Here(p)' = Here(p)
  BY DEF core, Here, predict_slot
<1>6. OwnPending(p)' => OwnPending(p)
  BY <1>2, <1>3 DEF OwnPending
<1>7. /\ walk'[p].entry <= used' /\ walk'[p].cur <= used'
      /\ walk'[p].snap # RootCell => IsChild(st'[walk'[p].snap])
      /\ OwnPending(p)' => IsChild(st'[Here(p)'])
  BY <1>1, <1>5, <1>6 DEF ThreadInv, core, IsChild
<1> QED BY <1>2, <1>3, <1>4, <1>7 DEF ThreadInv, core, IsChild

\* What is known of the thread after it begins a call ...
LEMMA OwnBegin ==
    ASSUME IInv, NEW p \in Threads, Begin(p)
    PROVE  ThreadInv(p)'
<1>1. TypeOK /\ ThreadTypes /\ ThreadInv(p)
  BY DEF IInv, TypeOK
<1>2. UNCHANGED core /\ walk' = walk
  BY DEF Begin, tree, core
<1>3. PICK c \in Program[p][ops[p] + 1] :
        IF c.op \in Sweepers
        THEN StartRebuild(p, c.op, RootCell)
        ELSE /\ Goto(p, IF c.op \in Writers THEN "root" ELSE "read_root")
             /\ UNCHANGED rb
  BY DEF Begin
<1>4. CASE c.op \in Sweepers
  <2>1. pc'[p] = "rb_load" /\ rb'[p] = [NoScan EXCEPT !.kind = c.op, !.cell = RootCell]
    BY <1>1, <1>3, <1>4 DEF StartRebuild, Goto, ThreadTypes
  <2>2. rb'[p].kind # "subtree" /\ rb'[p].cell = RootCell /\ rb'[p].pairs = {}
    BY <1>4, <2>1 DEF NoScan, Sweepers
  <2>3. IsFiniteSet(rb'[p].pairs)
    BY <2>2, FS_EmptySet
  <2>4. ~OwnPending(p)'
    BY <2>1, <2>2 DEF OwnPending
  <2> QED BY <1>1, <1>2, <2>1, <2>2, <2>3, <2>4 DEF ThreadInv, core, IsChild
<1>5. CASE c.op \notin Sweepers
  <2>1. pc'[p] \in {"root", "read_root"} /\ rb' = rb
    BY <1>1, <1>3, <1>5 DEF Goto, ThreadTypes
  <2> QED BY <1>2, <2>1, OwnKeep DEF core
<1> QED BY <1>4, <1>5

\* ... after a step that leaves it where it is in the tree ...
LEMMA OwnLocal ==
    ASSUME IInv, NEW p \in Threads,
           \/ RemoveMiss(p) \/ GetExisting(p) \/ LoadOwn(p) \/ Recheck(p)
           \/ Count(p) \/ CheckGrowth(p) \/ ReadRoot(p) \/ ReadStep(p) \/ ScanEnd(p)
    PROVE  ThreadInv(p)'
<1>1. TypeOK /\ ThreadTypes
  BY DEF IInv, TypeOK
<1>2. UNCHANGED <<used, st>>
  BY DEF RemoveMiss, GetExisting, LoadOwn, Recheck, Count, CheckGrowth,
         ReadRoot, ReadStep, ScanEnd, tree
<1>3. rb'[p] = rb[p] \/ rb'[p].pairs = {}
  <2>1. rb' = rb \/ \E t : rb' = [rb EXCEPT ![p] = [NoScan EXCEPT !.todo = t]]
    BY DEF RemoveMiss, GetExisting, LoadOwn, Recheck, Count, CheckGrowth,
           ReadRoot, ReadStep, ScanEnd
  <2>2. \A t : [NoScan EXCEPT !.todo = t].pairs = {}
    BY DEF NoScan
  <2>3. rb \in [Threads -> Scans]
    BY <1>1 DEF ThreadTypes
  <2> QED BY <2>1, <2>2, <2>3
<1>4. /\ walk'[p].entry = walk[p].entry /\ walk'[p].cur = walk[p].cur
      /\ walk'[p].snap = walk[p].snap
  <2>1. walk' = walk \/ \E n : walk' = [walk EXCEPT ![p].at = n]
    BY DEF RemoveMiss, GetExisting, LoadOwn, Recheck, Count, CheckGrowth,
           ReadRoot, ReadStep, ScanEnd
  <2>2. walk[p] \in Walks /\ walk \in [Threads -> Walks]
    BY <1>1 DEF ThreadTypes
  <2> QED BY <2>1, <2>2 DEF Walks
<1>5. pc'[p] \in {"recheck", "read", "root", "count", "return", "grow", "advance",
                  "scan", "slot"}
  BY <1>1 DEF RemoveMiss, GetExisting, LoadOwn, Recheck, Count, CheckGrowth,
              ReadRoot, ReadStep, ScanEnd, ThreadTypes, Goto
<1> QED BY <1>2, <1>3, <1>4, <1>5, OwnKeep

\* ... after it moved in the tree ...
LEMMA OwnMove ==
    ASSUME IInv, NEW p \in Threads, Return(p) \/ LoadRoot(p) \/ Descend(p)
    PROVE  ThreadInv(p)'
<1>1. TypeOK /\ ThreadTypes /\ TreeInv /\ ThreadInv(p)
  BY DEF IInv, TypeOK
<1>2. UNCHANGED <<used, st, ptr>>
  BY DEF Return, LoadRoot, Descend, tree
<1>3. pc'[p] \in {"idle", "slot"}
  BY <1>1 DEF Return, LoadRoot, Descend, Goto, ThreadTypes
<1>4. used >= 1 /\ used \in Nat
  BY <1>1, UsedFacts
<1>5. CASE Return(p)
  <2>1. walk'[p] = NoWalk /\ rb'[p] = NoScan
    BY <1>1, <1>5 DEF Return, ThreadTypes
  <2>2. IsFiniteSet(rb'[p].pairs)
    BY <2>1, FS_EmptySet DEF NoScan
  <2> QED BY <1>2, <1>3, <1>4, <2>1, <2>2, OwnPlain DEF NoWalk
<1>6. CASE LoadRoot(p)
  <2>1. walk'[p] = WalkFrom(ptr[RootCell].node) /\ rb'[p] = rb[p]
    BY <1>1, <1>6 DEF LoadRoot, ThreadTypes
  <2>2. walk'[p].entry = ptr[RootCell].node /\ walk'[p].cur = ptr[RootCell].node
        /\ walk'[p].snap = RootCell
    BY <2>1 DEF WalkFrom, NoWalk
  <2>3. IsFiniteSet(rb'[p].pairs)
    BY <1>1, <2>1 DEF ThreadInv
  <2> QED BY <1>1, <1>2, <1>3, <1>4, <2>2, <2>3, OwnPlain DEF TreeInv
<1>7. CASE Descend(p)
  <2> DEFINE c == Here(p)
  <2>1. c \in SlotCells /\ IsChild(st[c]) /\ walk[p] \in Walks
    BY <1>1, <1>7, HereCell DEF Descend, ThreadTypes
  <2>2. walk'[p] = Followed(p, c) /\ rb'[p] = rb[p]
    BY <1>1, <1>7 DEF Descend, ThreadTypes
  <2>3. /\ walk'[p].entry = walk[p].entry /\ walk'[p].cur = ptr[c].node
        /\ walk'[p].snap \in {c, walk[p].snap}
        /\ walk[p].snap = RootCell => walk'[p].snap = c
    BY <2>1, <2>2 DEF Followed, Walks
  <2>4. ptr[c].node <= used
    BY <1>1, <2>1 DEF TreeInv
  <2>5. IsFiniteSet(rb'[p].pairs)
    BY <1>1, <2>2 DEF ThreadInv
  <2> HIDE DEF c
  <2>6. walk'[p].snap # RootCell => IsChild(st'[walk'[p].snap])
    BY <1>1, <1>2, <2>1, <2>3 DEF ThreadInv
  <2> QED BY <1>1, <1>2, <1>3, <2>3, <2>4, <2>5, <2>6, OwnPlain DEF ThreadInv
<1> QED BY <1>5, <1>6, <1>7

\* ... after it wrote a slot ...
LEMMA OwnWrite ==
    ASSUME IInv, NEW p \in Threads, TypeOK', TreeStep(p), Frame(p),
           Claim(p) \/ PublishInline(p) \/ PublishChild(p) \/ RemoveHit(p)
    PROVE  ThreadInv(p)'
<1>1. TypeOK /\ ThreadTypes /\ TreeTypes /\ TreeInv /\ ThreadInv(p) /\ Grows
  BY DEF IInv, TypeOK, TreeStep
<1>2. rb' = rb /\ call' = call
  BY DEF Claim, PublishInline, PublishChild, RemoveHit
<1>3. /\ walk'[p].entry = walk[p].entry /\ walk'[p].cur = walk[p].cur
      /\ walk'[p].snap = walk[p].snap
  <2>1. walk' = walk \/ \E f : walk' = [walk EXCEPT ![p].from = f]
    BY DEF Claim, PublishInline, PublishChild, RemoveHit
  <2>2. walk[p] \in Walks /\ walk \in [Threads -> Walks]
    BY <1>1 DEF ThreadTypes
  <2> QED BY <2>1, <2>2 DEF Walks
<1>4. Here(p)' = Here(p) /\ Here(p) \in SlotCells
  BY <1>1, <1>2, <1>3, HereStable, HereCell
<1>5. walk'[p].entry <= used' /\ walk'[p].cur <= used'
  <2>1. walk[p].entry \in Nodes /\ walk[p].cur \in Nodes
    BY <1>1 DEF ThreadTypes, Walks
  <2>2. used' \in 1..MaxNodes
    BY ConstantsAssumption DEF TypeOK, TreeTypes, Nodes
  <2>3. walk[p].entry <= used /\ walk[p].cur <= used /\ used <= used'
    BY <1>1 DEF ThreadInv, Grows
  <2>4. used \in Nat /\ walk[p].entry \in Nat /\ walk[p].cur \in Nat
    BY <1>1, <2>1, UsedFacts
  <2> QED BY <1>3, <2>2, <2>3, <2>4
<1>6. walk'[p].snap # RootCell => IsChild(st'[walk'[p].snap])
  <2>1. walk[p].snap \in Cells
    BY <1>1 DEF ThreadTypes, Walks
  <2> QED BY <1>1, <1>3, <2>1, CellFacts DEF ThreadInv, Grows
<1>7. IsFiniteSet(rb'[p].pairs)
  BY <1>1, <1>2 DEF ThreadInv
<1>8. pc'[p] = IF Claim(p) THEN "publish" ELSE "validate"
  BY <1>1 DEF Claim, PublishInline, PublishChild, RemoveHit, Goto, ThreadTypes
<1>9. CASE Claim(p)
  <2>1. walk'[p].from = st[Here(p)] /\ inline' = inline
    BY <1>1, <1>9 DEF Claim, ThreadTypes, Walks
  <2>2. /\ walk'[p].from = "DATA" => inline'[Here(p)'] # Nil
        /\ walk'[p].from = "EMPTY" => inline'[Here(p)'] = Nil
    BY <1>1, <1>4, <2>1 DEF TreeInv
  <2>3. pc'[p] = "publish"
    BY <1>8, <1>9
  <2>4. ~Rebuilding(p)' /\ ~OwnPending(p)'
    BY <2>3 DEF Rebuilding, OwnPending
  <2> QED BY <1>5, <1>6, <1>7, <2>2, <2>3, <2>4 DEF ThreadInv, IsChild
<1>10. CASE ~Claim(p)
  <2>1. pc'[p] = "validate"
    BY <1>8, <1>10
  <2>2. ~Rebuilding(p)'
    BY <2>1 DEF Rebuilding
  <2>3. OwnPending(p)' => IsChild(st'[Here(p)'])
    <3>1. CASE PublishInline(p)
      <4>1. walk'[p].from = "EMPTY"
        BY <3>1 DEF PublishInline, InPlace
      <4> QED BY <4>1 DEF OwnPending
    <3>2. CASE RemoveHit(p)
      <4>1. call'[p].op = "remove"
        BY <3>2 DEF RemoveHit
      <4> QED BY <4>1 DEF OwnPending
    <3>3. CASE PublishChild(p)
      <4>1. \A m, E : DOMAIN StatesWith(m, E) = SlotCells
        BY DEF StatesWith
      <4>2. \E m, E : st' = [StatesWith(m, E) EXCEPT ![Here(p)] = "CHILD_STALE"]
        BY <3>3 DEF PublishChild
      <4> QED BY <1>4, <4>1, <4>2 DEF IsChild
    <3> QED BY <1>10, <3>1, <3>2, <3>3
  <2> QED BY <1>5, <1>6, <1>7, <2>1, <2>2, <2>3 DEF ThreadInv, IsChild
<1> QED BY <1>9, <1>10

\* ... after it validated a write and decided on a rebuild ...
LEMMA OwnTrigger ==
    ASSUME IInv, NEW p \in Threads,
           Validate(p) \/ CheckRatio(p) \/ AdvanceThreshold(p)
    PROVE  ThreadInv(p)'
<1>1. TypeOK /\ ThreadTypes /\ ThreadInv(p)
  BY DEF IInv, TypeOK
<1>2. UNCHANGED core /\ UNCHANGED call
  BY DEF Validate, CheckRatio, AdvanceThreshold, tree, core, counts
<1>3. walk[p].snap \in Cells /\ RootCell \in Cells
  BY <1>1, CellFacts DEF ThreadTypes, Walks
<1>4. walk[p].snap = RootCell \/ IsChild(st[walk[p].snap])
  BY <1>1 DEF ThreadInv
<1>5. CASE Validate(p)
  <2>0. pc[p] = "validate"
    BY <1>5 DEF Validate
  <2>1. CASE /\ walk' = [walk EXCEPT ![p] = WalkFrom(walk[p].entry)]
             /\ Goto(p, "slot") /\ UNCHANGED rb
    <3>1. /\ walk'[p].entry = walk[p].entry /\ walk'[p].cur = walk[p].entry
          /\ walk'[p].snap = RootCell
      BY <1>1, <2>1 DEF WalkFrom, NoWalk, ThreadTypes
    <3>2. pc'[p] = "slot" /\ IsFiniteSet(rb'[p].pairs)
      BY <1>1, <2>1 DEF Goto, ThreadTypes, ThreadInv
    <3> QED BY <1>1, <1>2, <3>1, <3>2, OwnPlain DEF ThreadInv, core
  <2>2. CASE StartRebuild(p, "subtree", walk[p].snap) /\ UNCHANGED walk
    <3>1. OwnPending(p)' => OwnPending(p)
      BY <2>0, <1>2, <2>2 DEF OwnPending
    <3>2. pc'[p] = "rb_load" /\ rb'[p] = [NoScan EXCEPT !.kind = "subtree", !.cell = walk[p].snap]
      BY <1>1, <2>2 DEF StartRebuild, Goto, ThreadTypes
    <3>3. rb'[p].cell = walk[p].snap /\ rb'[p].pairs = {}
      BY <3>2 DEF NoScan
    <3>4. IsFiniteSet(rb'[p].pairs)
      BY <3>3, FS_EmptySet
    <3>5. Here(p)' = Here(p)
      BY <1>2, <2>2 DEF core, Here, predict_slot
    <3> QED BY <1>1, <1>2, <1>4, <2>2, <3>1, <3>2, <3>3, <3>4, <3>5
            DEF ThreadInv, core, IsChild
  <2>3. CASE /\ Goto(p, IF call[p].op = "remove" THEN "ratio" ELSE AfterTrigger(p))
             /\ UNCHANGED <<walk, rb>>
    <3>1. pc'[p] = IF call[p].op = "remove" THEN "ratio" ELSE AfterTrigger(p)
      BY <1>1, <2>3 DEF Goto, ThreadTypes
    <3>2. pc'[p] \in {"ratio", "own", "recheck"}
      BY <3>1 DEF AfterTrigger
    <3>3. pc'[p] = "own" => call[p].op = "get_or_insert" /\ walk[p].from # "EMPTY"
      BY <3>1 DEF AfterTrigger
    <3>4. OwnPending(p)' => OwnPending(p)
      BY <1>2, <2>0, <2>3, <3>2 DEF OwnPending, Rebuilding
    <3>5. Here(p)' = Here(p)
      BY <1>2, <2>3 DEF core, Here, predict_slot
    <3>6. pc'[p] = "ratio" => call[p].op = "remove"
      BY <3>1 DEF AfterTrigger
    <3> QED BY <1>1, <1>2, <2>3, <3>2, <3>3, <3>4, <3>5, <3>6
            DEF ThreadInv, core, IsChild, Rebuilding
  <2> QED BY <1>5, <2>1, <2>2, <2>3 DEF Validate
<1>6. CASE CheckRatio(p)
  <2>1. CASE StartRebuild(p, "subtree", walk[p].snap)
    <3>1. call[p].op = "remove" /\ UNCHANGED <<walk, call>>
      BY <1>1, <1>6 DEF CheckRatio, ThreadInv
    <3> QED BY <1>2, <1>3, <1>4, <2>1, <3>1, OwnStart
  <2>2. CASE Goto(p, "recheck") /\ UNCHANGED rb
    <3>1. pc'[p] = "recheck" /\ UNCHANGED walk
      BY <1>1, <1>6, <2>2 DEF CheckRatio, Goto, ThreadTypes
    <3> QED BY <1>2, <2>2, <3>1, OwnKeep DEF core
  <2> QED BY <1>6, <2>1, <2>2 DEF CheckRatio
<1>7. CASE AdvanceThreshold(p)
  <2>0. UNCHANGED <<walk, call>>
    BY <1>7 DEF AdvanceThreshold
  <2>1. CASE StartRebuild(p, "rebuild", RootCell)
    BY <1>2, <1>3, <2>0, <2>1, OwnStart
  <2>2. CASE Goto(p, "return") /\ UNCHANGED <<next_root_rebuild, rb>>
    <3>1. pc'[p] = "return"
      BY <1>1, <2>2 DEF Goto, ThreadTypes
    <3> QED BY <1>2, <2>0, <2>2, <3>1, OwnKeep DEF core
  <2> QED BY <1>7, <2>1, <2>2 DEF AdvanceThreshold
<1> QED BY <1>5, <1>6, <1>7

\* ... and after a step of an iteration or a rebuild.
LEMMA OwnScan ==
    ASSUME IInv, NEW p \in Threads, TypeOK', TreeStep(p),
           \/ ScanStep(p) \/ LoadVictim(p) \/ Freeze(p) \/ Unfreeze(p)
           \/ Swap(p) \/ ResetCounters(p)
    PROVE  ThreadInv(p)'
<1>1. TypeOK /\ ThreadTypes /\ ThreadInv(p) /\ Grows
  BY DEF IInv, TypeOK, TreeStep
<1>2. walk' = walk /\ call' = call
  BY DEF ScanStep, LoadVictim, GiveUp, Freeze, Unfreeze, Swap, ResetCounters
<1>3. rb[p] \in Scans /\ rb \in [Threads -> Scans] /\ pc \in [Threads -> PcValues]
  BY <1>1 DEF ThreadTypes
<1>4. IsFiniteSet(rb[p].pairs)
  BY <1>1 DEF ThreadInv
<1>5. CASE ScanStep(p)
  <2>1. rb'[p] = Scanned(p, Head(rb[p].todo)) /\ pc'[p] = pc[p]
    BY <1>3, <1>5 DEF ScanStep
  <2>2. /\ rb'[p].cell = rb[p].cell /\ rb'[p].kind = rb[p].kind
        /\ \/ rb'[p].pairs = rb[p].pairs
           \/ \E e : rb'[p].pairs = rb[p].pairs \cup {e}
    BY <1>3, <2>1 DEF Scanned, Scans
  <2>3. IsFiniteSet(rb'[p].pairs)
    BY <1>4, <2>2, FS_AddElement
  <2>4. CASE pc[p] = "rb_scan"
    BY <1>1, <1>2, <2>1, <2>2, <2>3, <2>4, OwnRebuild DEF Rebuilding
  <2>5. CASE pc[p] = "scan"
    <3>1. UNCHANGED <<used, st>>
      BY <1>5 DEF ScanStep, tree
    <3> QED BY <1>1, <1>2, <2>1, <2>3, <2>5, <3>1, OwnPlain DEF ThreadInv
  <2> QED BY <1>5, <2>4, <2>5 DEF ScanStep
<1>6. CASE LoadVictim(p)
  <2>1. pc[p] = "rb_load" /\ pc'[p] \in {Caller(p), "rb_freeze"}
    BY <1>3, <1>6 DEF LoadVictim, GiveUp, Goto
  <2>2. rb'[p].cell = rb[p].cell /\ rb'[p].kind = rb[p].kind /\ rb'[p].pairs = rb[p].pairs
    <3>1. rb' = rb \/ \E v : rb' = [rb EXCEPT ![p].victim = v]
      BY <1>6 DEF LoadVictim, GiveUp
    <3> QED BY <1>3, <3>1 DEF Scans
  <2> QED BY <1>1, <1>2, <1>4, <2>1, <2>2, OwnRebuild DEF Rebuilding
<1>7. CASE Freeze(p)
  <2>1. pc[p] = "rb_freeze" /\ pc'[p] \in {Caller(p), "rb_scan"}
    BY <1>3, <1>7 DEF Freeze, GiveUp, Goto
  <2>2. rb'[p].cell = rb[p].cell /\ rb'[p].kind = rb[p].kind /\ rb'[p].pairs = rb[p].pairs
    <3>1. rb' = rb \/ \E t : rb' = [rb EXCEPT ![p].todo = t]
      BY <1>7 DEF Freeze, GiveUp
    <3> QED BY <1>3, <3>1 DEF Scans
  <2> QED BY <1>1, <1>2, <1>4, <2>1, <2>2, OwnRebuild DEF Rebuilding
<1>8. CASE Unfreeze(p) \/ Swap(p)
  <2>1. /\ pc[p] = "rb_scan" /\ rb' = rb
        /\ \/ pc'[p] = Caller(p)
           \/ pc'[p] = "rb_post" /\ rb[p].kind # "subtree"
    BY <1>3, <1>8 DEF Unfreeze, GiveUp, Swap, Goto
  <2> QED BY <1>1, <1>2, <1>4, <2>1, OwnRebuild DEF Rebuilding
<1>9. CASE ResetCounters(p)
  <2>1. pc[p] = "rb_post" /\ rb' = rb /\ UNCHANGED <<used, st>>
    BY <1>9 DEF ResetCounters, tree
  <2>2. pc'[p] = "return"
    BY <1>1, <1>3, <1>9, <2>1 DEF ResetCounters, Goto, Caller, ThreadInv
  <2> QED BY <1>2, <2>1, <2>2, OwnKeep
<1> QED BY <1>5, <1>6, <1>7, <1>8, <1>9

-----------------------------------------------------------------------------
(***************************************************************************)
(* Ownership.                                                              *)
(***************************************************************************)
\* A step that claims no slot, and publishes the one it has claimed before.
LEMMA SlotKept ==
    ASSUME IInv, NEW p \in Threads, TypeOK', TreeStep(p), Frame(p),
           pc'[p] # "publish",
           \A c \in SlotCells : st'[c] = "WRITING" =>
              st[c] = "WRITING" /\ ~(pc[p] = "publish" /\ Here(p) = c)
    PROVE  SlotExclusive'
<1>1. SlotExclusive /\ Grows /\ Footprint(p)
  BY DEF IInv, TreeStep
<1>2. \A q \in Threads : q # p =>
        /\ pc'[q] = pc[q] /\ Here(q)' = Here(q)
        /\ pc[q] = "publish" => st'[Here(q)] = "WRITING"
  BY <1>1, Others DEF Frame
<1>3. \A c \in SlotCells : st'[c] = "WRITING" =>
        \E q \in Threads : pc'[q] = "publish" /\ Here(q)' = c
  BY <1>1, <1>2 DEF SlotExclusive
<1>4. \A q \in Threads : pc'[q] = "publish" => st'[Here(q)'] = "WRITING"
  BY <1>2
<1>5. \A q, r \in Threads :
        q # r /\ pc'[q] = "publish" /\ pc'[r] = "publish" => Here(q)' # Here(r)'
  BY <1>1, <1>2 DEF SlotExclusive
<1> QED BY <1>3, <1>4, <1>5 DEF SlotExclusive

\* Claim makes the thread the owner of a slot nobody owned.
LEMMA SlotClaim ==
    ASSUME IInv, NEW p \in Threads, TypeOK', TreeStep(p), Frame(p), Claim(p)
    PROVE  SlotExclusive'
<1>1. TypeOK /\ ThreadTypes /\ TreeTypes /\ SlotExclusive /\ Grows /\ Footprint(p)
  BY DEF IInv, TypeOK, TreeStep
<1>2. \A q \in Threads : q # p =>
        /\ pc'[q] = pc[q] /\ Here(q)' = Here(q)
        /\ pc[q] = "publish" => st'[Here(q)] = "WRITING" /\ st[Here(q)] = "WRITING"
  BY <1>1, Others DEF Frame, SlotExclusive
<1>3. Here(p) \in SlotCells /\ pc'[p] = "publish" /\ pc[p] = "slot"
  BY <1>1, HereCell DEF Claim, Goto, ThreadTypes
<1>4. Here(p)' = Here(p)
  <2>1. walk'[p].cur = walk[p].cur /\ call' = call
    BY <1>1 DEF Claim, ThreadTypes, Walks
  <2> QED BY <1>1, <2>1, HereStable
<1>5. st[Here(p)] # "WRITING" /\ st' = [st EXCEPT ![Here(p)] = "WRITING"]
  BY DEF Claim, Claimable, ClaimedState
<1>6. \A c \in SlotCells : st'[c] = "WRITING" =>
        \E q \in Threads : pc'[q] = "publish" /\ Here(q)' = c
  <2> SUFFICES ASSUME NEW c \in SlotCells, st'[c] = "WRITING"
               PROVE  \E q \in Threads : pc'[q] = "publish" /\ Here(q)' = c
    OBVIOUS
  <2>1. CASE c = Here(p)
    BY <2>1, <1>3, <1>4
  <2>2. CASE c # Here(p)
    <3>1. st[c] = "WRITING"
      BY <2>2, <1>1, <1>5 DEF TreeTypes
    <3>2. PICK q \in Threads : pc[q] = "publish" /\ Here(q) = c
      BY <3>1, <1>1 DEF SlotExclusive
    <3>3. q # p
      BY <3>2, <1>3
    <3> QED BY <3>2, <3>3, <1>2
  <2> QED BY <2>1, <2>2
<1>7. \A q \in Threads : pc'[q] = "publish" => st'[Here(q)'] = "WRITING"
  BY <1>1, <1>2, <1>3, <1>4, <1>5 DEF TreeTypes
<1>8. \A q, r \in Threads :
        q # r /\ pc'[q] = "publish" /\ pc'[r] = "publish" => Here(q)' # Here(r)'
  BY <1>1, <1>2, <1>3, <1>4, <1>5 DEF SlotExclusive
<1> QED BY <1>6, <1>7, <1>8 DEF SlotExclusive

\* A step that freezes no pointer, and releases the one it lets go of.
LEMMA FreezeKept ==
    ASSUME IInv, NEW p \in Threads, TypeOK', TreeStep(p), Frame(p),
           Freezing(p)' => /\ Freezing(p) /\ ptr' = ptr
                           /\ rb'[p].cell = rb[p].cell
                           /\ rb'[p].victim = rb[p].victim,
           \A c \in Cells : ptr'[c].tag = 1 => ptr[c].tag = 1,
           Freezing(p) /\ ~Freezing(p)' => ptr'[rb[p].cell].tag = 0
    PROVE  FreezeExclusive'
<1>1. FreezeExclusive /\ Grows /\ Footprint(p)
  BY DEF IInv, TreeStep
<1>2. \A q \in Threads : q # p =>
        /\ Freezing(q)' = Freezing(q) /\ rb'[q] = rb[q]
        /\ Freezing(q) => ptr'[rb[q].cell] = ptr[rb[q].cell]
  BY <1>1, Others DEF Frame, Freezing
<1>3. \A q \in Threads : Freezing(q)' => ptr'[rb'[q].cell] = Frozen(rb'[q].victim)
  BY <1>1, <1>2 DEF FreezeExclusive
<1>4. \A c \in Cells : ptr'[c].tag = 1 =>
        \E q \in Threads : Freezing(q)' /\ rb'[q].cell = c
  <2> SUFFICES ASSUME NEW c \in Cells, ptr'[c].tag = 1
               PROVE  \E q \in Threads : Freezing(q)' /\ rb'[q].cell = c
    OBVIOUS
  <2>1. PICK q \in Threads : Freezing(q) /\ rb[q].cell = c
    BY <1>1 DEF FreezeExclusive
  <2> QED BY <2>1, <1>2
<1>5. \A q, r \in Threads :
        q # r /\ Freezing(q)' /\ Freezing(r)' => rb'[q].cell # rb'[r].cell
  BY <1>1, <1>2 DEF FreezeExclusive
<1> QED BY <1>3, <1>4, <1>5 DEF FreezeExclusive, Freezing, Frozen

\* Freeze makes the thread the owner of a pointer nobody owned.
LEMMA FreezeFreeze ==
    ASSUME IInv, NEW p \in Threads, TypeOK', TreeStep(p), Frame(p), Freeze(p)
    PROVE  FreezeExclusive'
<1>1. TypeOK /\ ThreadTypes /\ TreeTypes /\ FreezeExclusive /\ Grows /\ Footprint(p)
  BY DEF IInv, TypeOK, TreeStep
<1>2. rb[p] \in Scans /\ rb[p].cell \in Cells /\ rb \in [Threads -> Scans]
      /\ pc[p] = "rb_freeze"
  BY <1>1 DEF ThreadTypes, Scans, Freeze, GiveUp
<1>3. CASE ~StillUnfrozen(p)
  <2>1. ptr' = ptr /\ pc'[p] = Caller(p)
    BY <1>1, <1>3 DEF Freeze, GiveUp, Goto, ThreadTypes
  <2>2. ~Freezing(p) /\ ~Freezing(p)'
    BY <1>2, <2>1 DEF Freezing, Caller, AfterTrigger
  <2> QED BY <2>1, <2>2, FreezeKept
<1>4. CASE StillUnfrozen(p)
  <2> DEFINE c == rb[p].cell
             v == rb[p].victim
  <2>1. /\ ptr' = [ptr EXCEPT ![c] = Frozen(v)] /\ pc'[p] = "rb_scan"
        /\ rb' = [rb EXCEPT ![p].todo = ScanOf(v)]
    BY <1>1, <1>4 DEF Freeze, GiveUp, Goto, ThreadTypes
  <2>2. rb'[p].cell = c /\ rb'[p].victim = v
    BY <1>2, <2>1 DEF Scans
  <2>3. ptr[c].tag = 0
    BY <1>4 DEF StillUnfrozen, Plain
  <2>4. \A q \in Threads : Freezing(q) => ptr[rb[q].cell].tag = 1
    <3>1. \A n : Frozen(n).tag = 1
      BY DEF Frozen
    <3> QED BY <1>1, <3>1 DEF FreezeExclusive
  <2>5. \A q \in Threads : q # p =>
          /\ Freezing(q)' = Freezing(q) /\ rb'[q] = rb[q]
          /\ Freezing(q) => rb[q].cell # c /\ ptr'[rb[q].cell] = ptr[rb[q].cell]
    BY <1>1, <2>3, <2>4, Others DEF Frame, Freezing
  <2>6. Freezing(p)' /\ ~Freezing(p) /\ ptr'[c] = Frozen(v)
    BY <1>1, <1>2, <2>1 DEF Freezing, TreeTypes
  <2>7. \A q \in Threads : Freezing(q)' => ptr'[rb'[q].cell] = Frozen(rb'[q].victim)
    BY <1>1, <2>2, <2>5, <2>6 DEF FreezeExclusive
  <2>8. \A d \in Cells : ptr'[d].tag = 1 =>
          \E q \in Threads : Freezing(q)' /\ rb'[q].cell = d
    <3> SUFFICES ASSUME NEW d \in Cells, ptr'[d].tag = 1
                 PROVE  \E q \in Threads : Freezing(q)' /\ rb'[q].cell = d
      OBVIOUS
    <3>1. CASE d = c
      BY <3>1, <2>2, <2>6
    <3>2. CASE d # c
      <4>1. ptr[d].tag = 1
        BY <3>2, <1>1, <2>1 DEF TreeTypes
      <4>2. PICK q \in Threads : Freezing(q) /\ rb[q].cell = d
        BY <4>1, <1>1 DEF FreezeExclusive
      <4> QED BY <4>2, <2>5, <2>6
    <3> QED BY <3>1, <3>2
  <2>9. \A q, r \in Threads :
          q # r /\ Freezing(q)' /\ Freezing(r)' => rb'[q].cell # rb'[r].cell
    BY <1>1, <2>2, <2>5, <2>6 DEF FreezeExclusive
  <2> QED BY <2>7, <2>8, <2>9 DEF FreezeExclusive, Freezing, Frozen
<1> QED BY <1>3, <1>4

-----------------------------------------------------------------------------
(***************************************************************************)
(* The inductive invariant.                                                *)
(***************************************************************************)
\* What a finished call leaves acceptable are outcomes.
LEMMA AcceptedType ==
    ASSUME TypeOK, NEW p \in Threads, NEW k \in Keys
    PROVE  Accepted(p, k) \in SUBSET Outcomes
<1>1. acc[k] \in SUBSET Outcomes
  BY DEF TypeOK, HistoryTypes
<1>2. Val(p) \in Outcomes /\ Nil \in Outcomes
  BY ValType DEF Outcomes
<1>3. acc[k] \cap rival[p][k] \in SUBSET Outcomes
      /\ acc[k] \cap (rival[p][k] \cup {Nil}) \in SUBSET Outcomes
  BY <1>1
<1>4. \A X \in SUBSET Outcomes :
        X \cup {Val(p)} \in SUBSET Outcomes /\ X \cup {Nil} \in SUBSET Outcomes
  BY <1>2
<1> QED BY <1>1, <1>3, <1>4 DEF Accepted

\* Begin records outcomes only.
LEMMA HistoryBegin ==
    ASSUME TypeOK, NEW p \in Threads, Begin(p)
    PROVE  HistoryTypes'
<1>1. HistoryTypes
  BY DEF TypeOK
<1>2. PICK c \in Program[p][ops[p] + 1] :
        rival' = [q \in Threads |->
              [k \in Keys |->
                 IF q = p
                 THEN UNION {Effect(o, k) : o \in Threads \ {p}}
                 ELSE rival[q][k] \cup
                      (IF Active(q) THEN EffectOf(c, Val(p), k) ELSE {})]]
  BY DEF Begin
<1>3. \A o \in Threads : \A k \in Keys : Effect(o, k) \in SUBSET Outcomes
  BY ValType, EffectType DEF Effect
<1>4. \A k \in Keys : EffectOf(c, Val(p), k) \in SUBSET Outcomes
  BY ValType, EffectType
<1>5. \A k \in Keys : UNION {Effect(o, k) : o \in Threads \ {p}} \in SUBSET Outcomes
  BY <1>3
<1>6. \A q \in Threads : \A k \in Keys : rival[q][k] \in SUBSET Outcomes
  BY <1>1 DEF HistoryTypes
<1>7. \A q \in Threads : \A k \in Keys :
        rival[q][k] \cup (IF Active(q) THEN EffectOf(c, Val(p), k) ELSE {})
          \in SUBSET Outcomes
  BY <1>4, <1>6
<1>8. rival' \in [Threads -> [Keys -> SUBSET Outcomes]]
  BY <1>2, <1>5, <1>7
<1>9. before' = [before EXCEPT ![p] = acc] /\ acc' = acc
  BY DEF Begin
<1> QED BY <1>1, <1>8, <1>9 DEF HistoryTypes

\* Return records outcomes only.
LEMMA HistoryReturn ==
    ASSUME TypeOK, NEW p \in Threads, Return(p)
    PROVE  HistoryTypes'
<1>1. HistoryTypes
  BY DEF TypeOK
<1>2. /\ acc' = [k \in Keys |-> Accepted(p, k)]
      /\ before' = [before EXCEPT ![p] = NoOutcomes]
      /\ rival' = [rival EXCEPT ![p] = NoOutcomes]
  BY DEF Return
<1>3. acc' \in [Keys -> SUBSET Outcomes]
  BY <1>2, AcceptedType
<1> QED BY <1>1, <1>2, <1>3, BlankTypes DEF HistoryTypes

\* A step of a thread keeps the types ...
LEMMA StepTypes ==
    ASSUME IInv, NEW p \in Threads, Begin(p) \/ Step(p)
    PROVE  TypeOK' /\ TreeStep(p)
<1>1. TypeOK
  BY DEF IInv
<1>2. ThreadTypes'
  BY TypeBegin, TypeReturn, TypeLoadRoot, TypeDescend, TypeClaim,
     TypePublishInline, TypePublishChild, TypeRemoveMiss, TypeRemoveHit,
     TypeGetExisting, TypeValidate, TypeCheckRatio, TypeLoadOwn, TypeRecheck,
     TypeCount, TypeCheckGrowth, TypeAdvanceThreshold, TypeReadRoot, TypeReadStep,
     TypeScanStep, TypeScanEnd, TypeLoadVictim, TypeFreeze, TypeUnfreeze,
     TypeSwap, TypeResetCounters DEF Step
<1>3. TreeStep(p)
  <2>1. CASE LocalStep(p)
    BY <2>1, LocalCore, TreeLocal
  <2>2. CASE ~LocalStep(p)
    BY <2>2, TreeClaim, TreePublishInline, TreePublishChild, TreeRemoveHit,
       TreeFreeze, TreeUnfreeze, TreeSwap DEF Step, LocalStep
  <2> QED BY <2>1, <2>2
<1>4. HistoryTypes'
  <2>1. CASE Begin(p) \/ Return(p)
    BY <1>1, <2>1, HistoryBegin, HistoryReturn
  <2>2. CASE ~(Begin(p) \/ Return(p))
    <3>1. UNCHANGED history
      BY <2>2 DEF Step, LoadRoot, Descend, Claim, PublishInline, PublishChild,
         RemoveMiss, RemoveHit, GetExisting, Validate, CheckRatio, LoadOwn,
         Recheck, Count, CheckGrowth, AdvanceThreshold, ReadRoot, ReadStep,
         ScanStep, ScanEnd, LoadVictim, GiveUp, Freeze, Unfreeze, Swap, ResetCounters
    <3> QED BY <1>1, <3>1 DEF TypeOK, HistoryTypes, history
  <2> QED BY <2>1, <2>2
<1> QED BY <1>2, <1>3, <1>4 DEF TypeOK, TreeStep

\* ... what is known of each thread ...
LEMMA StepThreads ==
    ASSUME IInv, NEW p \in Threads, Begin(p) \/ Step(p)
    PROVE  \A q \in Threads : ThreadInv(q)'
<1>1. TypeOK' /\ TreeStep(p) /\ Grows /\ Footprint(p)
  BY StepTypes DEF TreeStep
<1>2. Frame(p)
  BY StepFrame DEF IInv, TypeOK
<1>3. ThreadInv(p)'
  BY <1>1, <1>2, OwnBegin, OwnLocal, OwnMove, OwnWrite, OwnTrigger, OwnScan DEF Step
<1> QED BY <1>1, <1>2, <1>3, Others

\* ... and the ownership of slots ...
LEMMA StepSlots ==
    ASSUME IInv, NEW p \in Threads, Begin(p) \/ Step(p)
    PROVE  SlotExclusive'
<1>1. TypeOK' /\ TreeStep(p) /\ TypeOK /\ ThreadTypes /\ TreeTypes
  BY StepTypes DEF IInv, TypeOK
<1>2. Frame(p)
  BY <1>1, StepFrame
<1>3. CASE Claim(p)
  BY <1>1, <1>2, <1>3, SlotClaim
<1>4. CASE PublishInline(p) \/ PublishChild(p)
  <2>1. Here(p) \in SlotCells
    BY <1>1, HereCell
  <2>2. pc'[p] = "validate"
    BY <1>1, <1>4 DEF PublishInline, PublishChild, Goto, ThreadTypes
  <2>3. \A c \in SlotCells : st'[c] = "WRITING" => st[c] = "WRITING" /\ Here(p) # c
    <3>1. CASE PublishInline(p)
      BY <1>1, <2>1, <3>1 DEF PublishInline, TreeTypes
    <3>2. CASE PublishChild(p)
      <4>1. \E m, E : st' = [StatesWith(m, E) EXCEPT ![Here(p)] = "CHILD_STALE"]
        BY <3>2 DEF PublishChild
      <4>2. \A m, E : \A c \in SlotCells : StatesWith(m, E)[c] \in {"DATA", st[c]}
        BY DEF StatesWith
      <4>3. \A m, E : DOMAIN StatesWith(m, E) = SlotCells
        BY DEF StatesWith
      <4> QED BY <2>1, <4>1, <4>2, <4>3
    <3> QED BY <1>4, <3>1, <3>2
  <2> QED BY <1>1, <1>2, <2>2, <2>3, SlotKept
<1>5. CASE RemoveHit(p) \/ Freeze(p) \/ Unfreeze(p) \/ Swap(p)
  <2>1. pc[p] # "publish" /\ pc'[p] # "publish"
    BY <1>1, <1>5 DEF RemoveHit, Freeze, GiveUp, Unfreeze, Swap, Goto, ThreadTypes, Caller,
       AfterTrigger
  <2>2. \A c \in SlotCells : st'[c] = "WRITING" => st[c] = "WRITING"
    <3>1. CASE RemoveHit(p)
      BY <1>1, <3>1 DEF RemoveHit, TreeTypes
    <3>2. CASE Swap(p)
      <4>1. PICK g : Added(rb[p].kind, g, NewEntries(p), rb[p].cell)
        BY <3>2, SwapAdds
      <4>2. ASSUME NEW c \in NewCells PROVE st'[c] # "WRITING"
        BY <4>1 DEF Added, NewEmpty, NewData, NewLink
      <4>3. \A c \in SlotCells \ NewCells : st'[c] = st[c]
        BY <4>1 DEF Added
      <4> QED BY <4>2, <4>3
    <3>3. CASE Freeze(p) \/ Unfreeze(p)
      BY <3>3 DEF Freeze, GiveUp, Unfreeze
    <3> QED BY <1>5, <3>1, <3>2, <3>3
  <2> QED BY <1>1, <1>2, <2>1, <2>2, SlotKept
<1>6. CASE LocalStep(p)
  <2>1. st' = st
    BY <1>6, LocalCore DEF core
  <2>2. pc[p] # "publish"
    BY <1>6 DEF LocalStep, Begin, Return, LoadRoot, Descend, RemoveMiss, GetExisting,
       Validate, CheckRatio, LoadOwn, Recheck, Count, CheckGrowth, AdvanceThreshold,
       ReadRoot, ReadStep, ScanStep, ScanEnd, LoadVictim, GiveUp, ResetCounters
  <2>3. pc'[p] # "publish"
    BY <1>1, <1>6, <2>2 DEF LocalStep, Begin, Return, LoadRoot, Descend, RemoveMiss,
       GetExisting, Validate, CheckRatio, LoadOwn, Recheck, Count, CheckGrowth,
       AdvanceThreshold, ReadRoot, ReadStep, ScanStep, ScanEnd, LoadVictim, GiveUp,
       ResetCounters, Goto, StartRebuild, Caller, AfterTrigger, ThreadTypes
  <2> QED BY <1>1, <1>2, <2>1, <2>2, <2>3, SlotKept
<1> QED BY <1>3, <1>4, <1>5, <1>6 DEF Step, LocalStep

\* ... and of frozen pointers.
LEMMA StepFreezes ==
    ASSUME IInv, NEW p \in Threads, Begin(p) \/ Step(p)
    PROVE  FreezeExclusive'
<1>1. TypeOK' /\ TreeStep(p) /\ TypeOK /\ ThreadTypes /\ TreeTypes
  BY StepTypes DEF IInv, TypeOK
<1>2. Frame(p)
  BY <1>1, StepFrame
<1>3. CASE Freeze(p)
  BY <1>1, <1>2, <1>3, FreezeFreeze
<1>4. CASE Unfreeze(p) \/ Swap(p)
  <2>1. rb[p].cell \in Cells
    BY <1>1 DEF ThreadTypes, Scans
  <2>2. ptr[rb[p].cell] = Frozen(rb[p].victim)
    BY <1>4 DEF Unfreeze, GiveUp, Swap, Freezing, IInv, FreezeExclusive
  <2>3. \A n : Plain(n).tag = 0
    BY DEF Plain
  <2>5. /\ \A c \in Cells : ptr'[c].tag = 1 => ptr[c].tag = 1
        /\ ptr'[rb[p].cell].tag = 0
    <3>1. CASE Unfreeze(p)
      <4>1. \E n : ptr' = [ptr EXCEPT ![rb[p].cell] = Plain(n)]
        BY <3>1, <2>2 DEF Unfreeze
      <4> QED BY <1>1, <2>1, <2>3, <4>1 DEF TreeTypes
    <3>2. CASE Swap(p)
      <4>1. PICK g : Added(rb[p].kind, g, NewEntries(p), rb[p].cell)
        BY <3>2, SwapAdds
      <4>2. ASSUME NEW c \in NewCells, ptr'[c].tag = 1 PROVE ptr[c].tag = 1
        BY <2>3, <4>1, <4>2 DEF Added, NewEmpty, NewData, NewLink
      <4> QED BY <2>1, <2>3, <4>1, <4>2 DEF Added
    <3> QED BY <1>4, <3>1, <3>2
  <2>6. ~Freezing(p)'
    BY <1>1, <1>4 DEF Unfreeze, GiveUp, Swap, Freezing, Goto, ThreadTypes, Caller, AfterTrigger
  <2> QED BY <1>1, <1>2, <2>5, <2>6, FreezeKept
<1>5. CASE Claim(p) \/ PublishInline(p) \/ PublishChild(p) \/ RemoveHit(p)
  <2>1. ~Freezing(p) /\ ~Freezing(p)'
    BY <1>1, <1>5 DEF Claim, PublishInline, PublishChild, RemoveHit, Freezing, Goto,
       ThreadTypes
  <2>2. Here(p) \in Cells
    BY <1>1, HereCell, CellFacts
  <2>3. ptr' = ptr \/ \E n : ptr' = [ptr EXCEPT ![Here(p)] = Plain(n)]
    BY <1>5 DEF Claim, PublishInline, PublishChild, RemoveHit
  <2>4. \A n : Plain(n).tag = 0
    BY DEF Plain
  <2>5. \A c \in Cells : ptr'[c].tag = 1 => ptr[c].tag = 1
    BY <1>1, <2>2, <2>3, <2>4 DEF TreeTypes
  <2> QED BY <1>1, <1>2, <2>1, <2>5, FreezeKept
<1>6. CASE LocalStep(p)
  <2>1. ptr' = ptr
    BY <1>6, LocalCore DEF core
  <2>2. CASE ScanStep(p)
    <3>1. rb'[p] = Scanned(p, Head(rb[p].todo)) /\ pc' = pc /\ rb[p] \in Scans
      BY <1>1, <2>2 DEF ScanStep, ThreadTypes
    <3>2. rb'[p].cell = rb[p].cell /\ rb'[p].victim = rb[p].victim
      BY <3>1 DEF Scanned, Scans
    <3> QED BY <1>1, <1>2, <2>1, <3>1, <3>2, FreezeKept DEF Freezing
  <2>3. CASE ~ScanStep(p)
    <3>1. pc[p] # "rb_scan"
      BY <1>6, <2>3 DEF LocalStep, Begin, Return, LoadRoot, Descend, RemoveMiss,
         GetExisting, Validate, CheckRatio, LoadOwn, Recheck, Count, CheckGrowth,
         AdvanceThreshold, ReadRoot, ReadStep, ScanEnd, LoadVictim, GiveUp, ResetCounters
    <3>2. pc'[p] # "rb_scan"
      BY <1>1, <1>6, <2>3, <3>1 DEF LocalStep, Begin, Return, LoadRoot, Descend,
         RemoveMiss, GetExisting, Validate, CheckRatio, LoadOwn, Recheck, Count,
         CheckGrowth, AdvanceThreshold, ReadRoot, ReadStep, ScanEnd, LoadVictim, GiveUp,
         ResetCounters, Goto, StartRebuild, Caller, AfterTrigger, ThreadTypes
    <3> QED BY <1>1, <1>2, <2>1, <3>1, <3>2, FreezeKept DEF Freezing
  <2> QED BY <2>2, <2>3
<1> QED BY <1>3, <1>4, <1>5, <1>6 DEF Step, LocalStep

\* The invariant holds initially ...
LEMMA InitInv == Init => IInv
<1> SUFFICES ASSUME Init PROVE IInv
  OBVIOUS
<1>1. TypeOK
  BY TypeInit
<1>2. TreeInv
  <2>1. \A c \in SlotCells : c # RootCell /\ c \in Cells
    BY CellFacts
  <2>2. ptr[RootCell] = Plain(1) /\ used = 1 /\ \A c \in SlotCells : ptr[c] = Plain(Nil)
    BY <2>1, CellFacts DEF Init
  <2>3. \A c \in SlotCells : st[c] = "EMPTY" /\ inline[c] = Nil
    BY DEF Init
  <2> QED BY <2>2, <2>3 DEF TreeInv, Plain, IsChild
<1>3. ASSUME NEW p \in Threads PROVE ThreadInv(p)
  <2>1. pc[p] = "idle" /\ walk[p] = NoWalk /\ rb[p] = NoScan /\ used = 1
    BY DEF Init
  <2>2. IsFiniteSet(rb[p].pairs)
    BY <2>1, FS_EmptySet DEF NoScan
  <2> QED BY <2>1, <2>2 DEF ThreadInv, NoWalk, Rebuilding, OwnPending
<1>4. SlotExclusive
  BY DEF Init, SlotExclusive
<1>5. FreezeExclusive
  <2>1. \A c \in Cells : ptr[c] = Plain(1) \/ ptr[c] = Plain(Nil)
    BY DEF Init
  <2>2. \A c \in Cells : ptr[c].tag = 0
    BY <2>1 DEF Plain
  <2> QED BY <2>2 DEF Init, FreezeExclusive, Freezing
<1> QED BY <1>1, <1>2, <1>3, <1>4, <1>5 DEF IInv

\* ... and every step keeps it.
LEMMA NextInv == IInv /\ [Next]_vars => IInv' /\ (UNCHANGED vars \/ Grows)
<1> SUFFICES ASSUME IInv, [Next]_vars PROVE IInv' /\ (UNCHANGED vars \/ Grows)
  OBVIOUS
<1>1. CASE UNCHANGED vars
  <2>1. UNCHANGED <<tree, counts, pc, ops, call, walk, changed, ret, num, rb, history>>
    BY <1>1 DEF vars
  <2>2. TypeOK'
    BY <2>1 DEF IInv, TypeOK, TreeTypes, ThreadTypes, HistoryTypes, tree, counts,
       history
  <2>3. TreeInv'
    BY <2>1 DEF IInv, TreeInv, IsChild, tree
  <2>4. ASSUME NEW q \in Threads PROVE ThreadInv(q)'
    BY <2>1 DEF IInv, ThreadInv, Rebuilding, OwnPending, Here, predict_slot, Frozen,
       IsChild, tree
  <2>5. SlotExclusive'
    BY <2>1 DEF IInv, SlotExclusive, Here, predict_slot, tree
  <2>6. FreezeExclusive'
    BY <2>1 DEF IInv, FreezeExclusive, Freezing, Frozen, tree
  <2> QED BY <1>1, <2>2, <2>3, <2>4, <2>5, <2>6 DEF IInv
<1>2. ASSUME NEW p \in Threads, Begin(p) \/ Step(p)
      PROVE  IInv' /\ Grows
  <2>1. TypeOK' /\ TreeInv' /\ Grows
    BY <1>2, StepTypes DEF TreeStep
  <2>2. (\A q \in Threads : ThreadInv(q)) ' /\ SlotExclusive' /\ FreezeExclusive'
    BY <1>2, StepThreads, StepSlots, StepFreezes
  <2> QED BY <2>1, <2>2 DEF IInv
<1> QED BY <1>1, <1>2 DEF Next, Rest

\* The inductive invariant holds in every reachable state.
THEOREM Invariance == Spec => []IInv
BY InitInv, NextInv, PTL DEF Spec

\* Type correctness: in particular no thread ever holds the null pointer as a
\* node (load_child of node.rs is only called on slots that have a child).
THEOREM TypeCorrect == Spec => []TypeOK
<1>1. IInv => TypeOK
  BY DEF IInv
<1> QED BY <1>1, Invariance, PTL

\* A WRITING slot belongs to one thread: cas_empty_to_data and its two siblings
\* never let two threads write the data of one slot.
THEOREM SlotOwnership == Spec => []SlotExclusive
<1>1. IInv => SlotExclusive
  BY DEF IInv
<1> QED BY <1>1, Invariance, PTL

\* A frozen pointer belongs to one rebuild, which finds it as it left it: the
\* unfreezing and the swapping CAS of its owner cannot fail.
THEOREM FreezeOwnership == Spec => []FreezeExclusive
<1>1. IInv => FreezeExclusive
  BY DEF IInv
<1> QED BY <1>1, Invariance, PTL

\* Inline data, once published, is never written again, so that the references
\* get and Iter hand out stay valid for the guard's lifetime.
THEOREM InlineImmutable == Spec => WriteOnce
<1>1. IInv /\ [Next]_vars =>
        [\A c \in SlotCells : inline[c] # Nil => inline'[c] = inline[c]]_vars
  <2> SUFFICES ASSUME IInv, [Next]_vars
               PROVE  [\A c \in SlotCells : inline[c] # Nil => inline'[c] = inline[c]]_vars
    OBVIOUS
  <2>1. UNCHANGED vars \/ Grows
    BY NextInv
  <2> QED BY <2>1 DEF Grows
<1> QED BY <1>1, Invariance, PTL DEF Spec, WriteOnce
=============================================================================
