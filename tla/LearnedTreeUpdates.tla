-------------------------- MODULE LearnedTreeUpdates --------------------------
(***************************************************************************)
(* Proof that LearnedTree loses no update, for every set of threads, keys  *)
(* and programs, every configuration and every family of models: when the  *)
(* calls that may change a key have returned, the map holds the outcome of *)
(* a finished call that no later one supersedes.                           *)
(*                                                                         *)
(* The danger is a write to a node that a rebuild has copied already.  So  *)
(* a key has versions, one at each of three places: what readers find (the *)
(* live one), and what the snapshots of a rebuild of its subtree and of a  *)
(* rebuild of the root may end with.  A version is harmless if a call on   *)
(* the key is due to write over it, as it starts over at the new root, or  *)
(* will find at its validation that it wrote to a replaced subtree.  Every *)
(* other version is                                                        *)
(*   - acceptable, or the outcome of a call still under way  (AccInv);     *)
(*   - after a call has written: its outcome or a rival's    (WroteInv);   *)
(*   - while a call looks on: what it sees, or a rival's     (LooksInv);   *)
(*   - after it has found the key: its answer, or a rival's  (AnswerInv).  *)
(* A rival is a call that overlaps.  That the snapshot of a subtree equals *)
(* the subtree, but for writes that are due to be found in vain, is SubInv.*)
(*                                                                         *)
(* The two functions R (the keys of a node, from LearnedTreeRouting) and H *)
(* (the child of a root that it is below, from LearnedTreeWalks) are not   *)
(* part of the state; the invariant says that they exist.                  *)
(***************************************************************************)
EXTENDS LearnedTreeWalks
-----------------------------------------------------------------------------
(***************************************************************************)
(* What a place holds for a key, and the calls that will write over it.    *)
(***************************************************************************)
\* What readers of key k find, and the two snapshots that may replace it: that of
\* a rebuild of the subtree k is in and that of a rebuild of the root.
Root    == ptr[RootCell].node
Live(k) == Value(k, Root)
Sub(b, k) == pc[b] = "rb_scan" /\ rb[b].cell = predict_slot(Root, k)
Top(b)    == pc[b] = "rb_scan" /\ rb[b].cell = RootCell /\ rb[b].kind = "rebuild"

\* The snapshot of rebuild b may end with x for key k: it has collected x, or will
\* if nothing changes, or x is Nil and it is past all slots of the key.
Snap(R, b, k, x) ==
    \/ \E e \in rb[b].pairs : e.key = k /\ e.val = x
    \/ \E i \in 1..Len(rb[b].todo) :
         k \in OnSlot(R, rb[b].todo[i]) /\ x = Value(k, rb[b].todo[i][1])
    \/ /\ x = Nil
       /\ \A e \in rb[b].pairs : e.key # k
       /\ \A i \in 1..Len(rb[b].todo) : k \notin OnSlot(R, rb[b].todo[i])

\* The map as readers see it, and what two kinds of rebuild may put in its place.
Places == {"live", "sub", "top"}
IsVersion(R, k, j, x) ==
    \/ j = "live" /\ x = Live(k)
    \/ j = "sub" /\ \E b \in Threads : Sub(b, k) /\ Snap(R, b, k, x)
    \/ j = "top" /\ \E b \in Threads : Top(b) /\ Snap(R, b, k, x)

\* A call of key k that would replace outcome x.
On(p, k) == pc[p] # "idle" /\ call[p].op \in Writers /\ call[p].key = k
Overwrites(p, x) ==
    \/ call[p].op = "insert"
    \/ call[p].op = "remove" /\ x # Nil
    \/ call[p].op = "get_or_insert" /\ x = Nil

\* It may yet start over at the root.
Early(p) ==
    \/ pc[p] \in {"root", "slot", "publish", "validate", "ratio", "own", "read", "recheck"}
    \/ Rebuilding(p) /\ rb[p].kind = "subtree"
Restarts(p) == pc[p] = "root" \/ (Early(p) /\ walk[p].entry # Root)

\* The value its walk leads to.
Deep(p) == walk[p].snap # RootCell
Seen(p) == IF Deep(p) THEN walk[p].child ELSE walk[p].entry
Sees(p) == Value(call[p].key, Seen(p))

\* It will write again if x is, or comes to be, what the map holds: it starts over,
\* or sees x, or will find at its validation that its write was in vain.
Pending(p, j, x) ==
    \/ Restarts(p)
    \/ j = "top" /\ Early(p)
    \/ j # "top" /\ pc[p] \in {"slot", "publish"} /\ Sees(p) = x
    \/ j = "live" /\ pc[p] = "validate" /\ Deep(p)
         /\ ptr[walk[p].snap].node # walk[p].child
    \/ j = "sub" /\ pc[p] = "validate" /\ Deep(p)
    \/ j = "sub" /\ pc[p] \in {"slot", "publish"} /\ ~Deep(p)
DueBy(p, k, j, x) == On(p, k) /\ Overwrites(p, x) /\ Pending(p, j, x)
Due(k, j, x) == \E p \in Threads : DueBy(p, k, j, x)

\* Whatever place j holds for k is in A or will be written over.
Cov(R, k, A, j) == \A x : IsVersion(R, k, j, x) => x \in A \/ Due(k, j, x)

\* Facts about the roots.
LEMMA RootFacts ==
    ASSUME NEW R, NEW H, Ready(R, H)
    PROVE  /\ Root \in 1..used /\ Root \in Nodes /\ H[Root] = 0 /\ R[Root] = Keys
           /\ Nodes = 1..MaxNodes /\ MaxNodes \in Nat /\ used \in 1..MaxNodes
           /\ 0 \notin Nodes /\ Fresh = used + 1
           /\ TypeOK /\ ThreadTypes /\ IInv /\ OwnInv /\ TreeHomes(H) /\ TreeRoutes(R)
<1>1. TypeOK /\ ThreadTypes /\ IInv /\ OwnInv /\ TreeHomes(H) /\ TreeRoutes(R)
  BY DEF Ready, IInv, TypeOK, Homed, Routed
<1>2. Root \in 1..used
  BY <1>1 DEF IInv, TreeInv, Root
<1>3. H[Root] = 0 /\ R[Root] = Keys
  BY <1>1 DEF TreeHomes, TreeRoutes, Root
<1> QED BY <1>1, <1>2, <1>3, UsedFacts, NodeZero

\* One level of a walk.
LEMMA LeafLevel ==
    ASSUME IInv, OwnInv, NEW k \in Keys, NEW n \in Nodes, NEW c, c = predict_slot(n, k)
    PROVE  /\ c \in SlotCells /\ c[1] = n /\ c # RootCell /\ c \in Cells
           /\ IsChild(st[c]) => /\ ptr[c].node \in Nodes /\ ptr[c].node # Nil
                                /\ ptr[c].node \in 1..used
                                /\ Leaf(k)[n] = Leaf(k)[ptr[c].node]
                                /\ Value(k, n) = Value(k, ptr[c].node)
           /\ ~IsChild(st[c]) => Leaf(k)[n] = n /\ Value(k, n) = ValueAt(c, k)
<1>1. /\ c \in SlotCells /\ c[1] = n /\ c # RootCell /\ c \in Cells
      /\ IsChild(st[c]) => /\ ptr[c].node \in Nodes /\ ptr[c].node # Nil
                           /\ ptr[c].node <= used
  BY ChildFacts
<1>2. Leaf(k)[n] = IF IsChild(st[c]) THEN Leaf(k)[ptr[c].node] ELSE n
  BY LeafNow DEF LeafSpec, LeafOf
<1>3. IsChild(st[c]) => ptr[c].node \in 1..used
  BY <1>1, UsedFacts DEF IInv
<1>4. IsChild(st[c]) => Value(k, n) = Value(k, ptr[c].node)
  BY <1>2 DEF Value
<1>5. ~IsChild(st[c]) => Value(k, n) = ValueAt(c, k)
  BY <1>2 DEF Value
<1> QED BY <1>1, <1>2, <1>3, <1>4, <1>5

\* Where a writer is.
LEMMA WriterFacts ==
    ASSUME NEW R, NEW H, Ready(R, H), NEW q \in Threads, NEW k, On(q, k),
           pc[q] # "root"
    PROVE  /\ k \in Keys /\ walk[q].entry \in 1..used /\ walk[q].cur \in 1..used
           /\ H[walk[q].entry] = 0 /\ R[walk[q].entry] = Keys
           /\ Seen(q) \in 1..used /\ Sees(q) = Value(k, Seen(q))
           /\ Leaf(k)[Seen(q)] = Leaf(k)[walk[q].cur]
           /\ ~Deep(q) => walk[q].cur = walk[q].entry /\ Seen(q) = walk[q].entry
                          /\ Here(q) = predict_slot(walk[q].entry, k)
           /\ Deep(q) => /\ walk[q].snap \in SlotCells /\ IsChild(st[walk[q].snap])
                         /\ walk[q].snap = predict_slot(walk[q].entry, k)
                         /\ walk[q].snap[1] = walk[q].entry
                         /\ walk[q].child \in 1..used /\ Seen(q) = walk[q].child
                         /\ H[walk[q].child] = walk[q].child /\ H[walk[q].child] # 0
                         /\ \/ ptr[walk[q].snap].node = walk[q].child
                            \/ walk[q].child \in retired
<1>1. /\ IInv /\ TypeOK /\ Nodes = 1..MaxNodes /\ MaxNodes \in Nat /\ used \in 1..MaxNodes
      /\ 0 \notin Nodes /\ WalkHomes(H, q) /\ WalkRoutes(R, q) /\ ThreadInv(q)
  BY RootFacts DEF Ready, Homed, Routed, IInv
<1>2. /\ call[q].op \in Writers /\ call[q].key = k /\ pc[q] \notin {"idle", "root"}
  BY DEF On
<1>3. /\ walk[q].entry \in 1..used /\ walk[q].cur \in 1..used /\ k \in Keys
      /\ walk[q].snap \in Cells /\ walk[q].child \in Nodes
  BY <1>1, <1>2 DEF ThreadInv, TypeOK, ThreadTypes, Walks, Calls
<1>4. H[walk[q].entry] = 0 /\ R[walk[q].entry] = Keys
  BY <1>1, <1>2 DEF WalkHomes, WalkRoutes
<1>5. CASE ~Deep(q)
  <2>1. walk[q].cur = walk[q].entry
    BY <1>1, <1>2, <1>5 DEF WalkHomes, Deep
  <2> QED BY <1>2, <1>3, <1>4, <1>5, <2>1 DEF Seen, Sees, Here
<1>6. CASE Deep(q)
  <2>1. /\ walk[q].snap = predict_slot(walk[q].entry, k)
        /\ H[walk[q].child] = walk[q].child /\ walk[q].child <= used
        /\ Leaf(k)[walk[q].child] = Leaf(k)[walk[q].cur]
        /\ ptr[walk[q].snap].node = walk[q].child \/ walk[q].child \in retired
    BY <1>1, <1>2, <1>6 DEF WalkHomes, Deep
  <2>2. walk[q].snap \in SlotCells /\ IsChild(st[walk[q].snap])
    BY <1>1, <1>3, <1>6, CellFacts DEF ThreadInv, Deep
  <2>3. walk[q].child \in 1..used /\ H[walk[q].child] # 0
    BY <1>1, <1>3, <2>1
  <2>4. walk[q].snap[1] = walk[q].entry
    BY <2>1 DEF predict_slot
  <2> QED BY <1>2, <1>3, <1>4, <1>6, <2>1, <2>2, <2>3, <2>4 DEF Seen, Sees
<1> QED BY <1>5, <1>6

\* At a slot that is not a child slot, it sees what the slot holds.
LEMMA SeesHere ==
    ASSUME NEW R, NEW H, Ready(R, H), NEW q \in Threads, NEW k, On(q, k),
           pc[q] # "root", ~IsChild(st[Here(q)])
    PROVE  Leaf(k)[Seen(q)] = walk[q].cur /\ Sees(q) = ValueAt(Here(q), k)
<1>1. /\ k \in Keys /\ walk[q].cur \in 1..used /\ Leaf(k)[Seen(q)] = Leaf(k)[walk[q].cur]
      /\ Sees(q) = Value(k, Seen(q)) /\ call[q].key = k
  BY WriterFacts DEF On
<1>2. walk[q].cur \in Nodes /\ IInv /\ OwnInv
  BY <1>1, RootFacts
<1>3. /\ Leaf(k)[walk[q].cur] = walk[q].cur
      /\ Value(k, walk[q].cur) = ValueAt(Here(q), k)
  BY <1>1, <1>2, LeafLevel DEF Here
<1>4. Value(k, Seen(q)) = Value(k, walk[q].cur)
  BY <1>1 DEF Value
<1> QED BY <1>1, <1>3, <1>4

\* A frozen slot of the root.
LEMMA SubFacts ==
    ASSUME NEW R, NEW H, Ready(R, H), NEW b \in Threads, NEW k \in Keys, Sub(b, k),
           NEW c, c = predict_slot(Root, k)
    PROVE  /\ c \in SlotCells /\ IsChild(st[c]) /\ ptr[c] = Frozen(rb[b].victim)
           /\ ptr[c].tag = 1 /\ ptr[c].node = rb[b].victim /\ c[1] = Root
           /\ rb[b].cell # RootCell /\ rb[b].cell = c
<1>1. pc[b] = "rb_scan" /\ rb[b].cell = c
  BY DEF Sub
<1>2. c \in SlotCells /\ c # RootCell /\ c[1] = Root
  BY RootFacts, LeafLevel
<1> QED BY <1>1, <1>2, RootFacts, ScanFacts

\* A place that is reached later has more calls due.
LEMMA DueLater ==
    ASSUME NEW k, NEW x, NEW i \in Places, NEW j \in Places,
           i = j \/ i = "live" \/ (i = "sub" /\ j = "top"), Due(k, i, x)
    PROVE  Due(k, j, x)
<1> SUFFICES ASSUME NEW p \in Threads, DueBy(p, k, i, x) PROVE DueBy(p, k, j, x)
  BY DEF Due
<1>1. Restarts(p) => Early(p)
  BY DEF Restarts, Early
<1>2. pc[p] \in {"slot", "publish", "validate"} => Early(p)
  BY DEF Early
<1> QED BY <1>1, <1>2 DEF DueBy, Pending, Places

\* Snap after a step, spelled out.
LEMMA SnapNext ==
    ASSUME NEW U, NEW b, NEW k, NEW x
    PROVE  Snap(U, b, k, x)' <=>
             \/ \E e \in rb'[b].pairs : e.key = k /\ e.val = x
             \/ \E i \in 1..Len(rb'[b].todo) : \E d :
                  /\ d = rb'[b].todo[i] /\ k \in U[d[1]]
                  /\ <<d[1], model'[d[1]].slot[k]>> = d /\ x = Value(k, d[1])'
             \/ /\ x = Nil
                /\ \A e \in rb'[b].pairs : e.key # k
                /\ \A i \in 1..Len(rb'[b].todo) : \A d :
                     d = rb'[b].todo[i] =>
                       ~(k \in U[d[1]] /\ <<d[1], model'[d[1]].slot[k]>> = d)
BY DEF Snap, OnSlot, predict_slot, Value, ValueAt, Holding, ClaimedData

\* What every step leaves as it is.
LEMMA MovedFacts ==
    ASSUME NEW p \in Threads, NEW R, NEW U, NEW H, NEW G, Moved(p, R, U, H, G)
    PROVE  /\ IInv /\ OwnInv /\ IInv' /\ OwnInv' /\ TypeOK /\ TypeOK' /\ ThreadTypes
           /\ Nodes = 1..MaxNodes /\ MaxNodes \in Nat /\ used \in 1..MaxNodes
           /\ used' \in 1..MaxNodes /\ used <= used' /\ Fresh = used + 1
           /\ Root \in 1..used /\ H[Root] = 0 /\ R[Root] = Keys
           /\ Root' \in 1..used' /\ G[Root'] = 0 /\ U[Root'] = Keys
           /\ \A n \in 1..used : n \in Nodes /\ U[n] = R[n] /\ G[n] = H[n]
                                /\ model'[n] = model[n] /\ n \in 1..used'
           /\ \A q \in Threads \ {p} :
                /\ pc'[q] = pc[q] /\ walk'[q] = walk[q] /\ rb'[q] = rb[q]
                /\ call'[q] = call[q] /\ changed'[q] = changed[q]
                /\ ops'[q] = ops[q] /\ ret'[q] = ret[q]
                /\ \A k \in Keys : rival[q][k] \subseteq rival'[q][k]
<1>1. /\ Ready(R, H) /\ Ready(U, G)' /\ Agree(R, U) /\ Agree(H, G)
      /\ TypeOK /\ TypeOK' /\ Grows /\ Frame(p) /\ OthersKept(p)
  BY DEF Moved
<1>2. /\ IInv /\ OwnInv /\ ThreadTypes /\ Nodes = 1..MaxNodes /\ MaxNodes \in Nat
      /\ used \in 1..MaxNodes /\ Fresh = used + 1
      /\ Root \in 1..used /\ H[Root] = 0 /\ R[Root] = Keys
  BY <1>1, RootFacts
<1>3. IInv' /\ OwnInv' /\ Routed(U)' /\ Homed(U, G)'
  BY <1>1 DEF Ready
<1>4. used' \in 1..MaxNodes /\ used <= used'
  BY <1>1, <1>2 DEF TypeOK, TreeTypes, Grows
<1>5. Root' \in 1..used' /\ G[Root'] = 0 /\ U[Root'] = Keys
  BY <1>3 DEF IInv, TreeInv, Root, Routed, Homed, TreeRoutes, TreeHomes
<1>6. \A n \in 1..used : n \in Nodes /\ U[n] = R[n] /\ G[n] = H[n]
                         /\ model'[n] = model[n] /\ n \in 1..used'
  BY <1>1, <1>2, <1>4 DEF Agree, Grows
<1>7. \A q \in Threads \ {p} :
        /\ pc'[q] = pc[q] /\ walk'[q] = walk[q] /\ rb'[q] = rb[q]
        /\ call'[q] = call[q] /\ changed'[q] = changed[q]
        /\ ops'[q] = ops[q] /\ ret'[q] = ret[q]
        /\ \A k \in Keys : rival[q][k] \subseteq rival'[q][k]
  BY <1>1 DEF Frame, OthersKept
<1> QED BY <1>1, <1>2, <1>3, <1>4, <1>5, <1>6, <1>7

\* The threads that do not take the step are where they were.
LEMMA OthersDue ==
    ASSUME NEW p \in Threads, NEW R, NEW U, NEW H, NEW G, Moved(p, R, U, H, G),
           NEW q \in Threads \ {p}, NEW k, NEW x
    PROVE  /\ On(q, k)' <=> On(q, k)
           /\ Overwrites(q, x)' <=> Overwrites(q, x)
           /\ Early(q)' <=> Early(q)
           /\ Deep(q)' <=> Deep(q)
           /\ Seen(q)' = Seen(q)
<1>1. /\ pc'[q] = pc[q] /\ walk'[q] = walk[q] /\ rb'[q] = rb[q] /\ call'[q] = call[q]
  BY MovedFacts
<1> QED BY <1>1 DEF On, Overwrites, Early, Deep, Seen, Rebuilding

\* Snapshots that the step does not add to: they may end as before, or with one
\* of the values W the step writes.
LEMMA SnapMoved ==
    ASSUME NEW p \in Threads, NEW R, NEW U, NEW H, NEW G, Moved(p, R, U, H, G),
           NEW b \in Threads, pc[b] = "rb_scan", rb'[b] = rb[b], NEW k \in Keys, NEW x, NEW W,
           \A d \in SlotCells : d[1] \in 1..used /\ k \in OnSlot(R, d)
               /\ (\E i \in 1..Len(rb[b].todo) : d = rb[b].todo[i])
             => Value(k, d[1])' = Value(k, d[1]) \/ Value(k, d[1])' \in W,
           Snap(U, b, k, x)'
    PROVE  Snap(R, b, k, x) \/ x \in W
<1>1. \A i \in 1..Len(rb[b].todo) :
        rb[b].todo[i] \in SlotCells /\ rb[b].todo[i][1] \in 1..used
  <2> SUFFICES ASSUME NEW i \in 1..Len(rb[b].todo)
               PROVE  rb[b].todo[i] \in SlotCells /\ rb[b].todo[i][1] \in 1..used
    OBVIOUS
  <2>1. rb[b].todo \in Seq(SlotCells) /\ ScanRoutes(R, b)
    BY MovedFacts DEF Moved, Ready, Routed, ThreadTypes, Scans
  <2>2. rb[b].todo[i] \in SlotCells /\ rb[b].todo[i][1] <= used
    BY <2>1 DEF ScanRoutes
  <2> QED BY <2>2, MovedFacts, UsedFacts
<1>2. ASSUME NEW i \in 1..Len(rb[b].todo), NEW d, d = rb[b].todo[i]
      PROVE  k \in U[d[1]] /\ <<d[1], model'[d[1]].slot[k]>> = d <=> k \in OnSlot(R, d)
  <2>1. d[1] \in 1..used
    BY <1>1, <1>2
  <2>2. U[d[1]] = R[d[1]] /\ model'[d[1]] = model[d[1]]
    BY <2>1, MovedFacts
  <2> QED BY <2>2 DEF OnSlot, predict_slot
<1>3. CASE \E e \in rb'[b].pairs : e.key = k /\ e.val = x
  BY <1>3 DEF Snap
<1>4. CASE \E i \in 1..Len(rb'[b].todo) : \E d :
             /\ d = rb'[b].todo[i] /\ k \in U[d[1]]
             /\ <<d[1], model'[d[1]].slot[k]>> = d /\ x = Value(k, d[1])'
  <2>1. PICK i, d :
             /\ i \in 1..Len(rb[b].todo) /\ d = rb[b].todo[i] /\ k \in U[d[1]]
             /\ <<d[1], model'[d[1]].slot[k]>> = d /\ x = Value(k, d[1])'
    BY <1>4
  <2>2. k \in OnSlot(R, d)
    BY <1>2, <2>1
  <2>3. x = Value(k, d[1]) \/ x \in W
    BY <1>1, <2>1, <2>2
  <2>4. k \in OnSlot(R, rb[b].todo[i])
        /\ (x = Value(k, rb[b].todo[i][1]) \/ x \in W)
    BY <2>1, <2>2, <2>3
  <2> QED BY <2>1, <2>4 DEF Snap
<1>5. CASE /\ x = Nil
           /\ \A e \in rb'[b].pairs : e.key # k
           /\ \A i \in 1..Len(rb'[b].todo) : \A d :
                d = rb'[b].todo[i] =>
                  ~(k \in U[d[1]] /\ <<d[1], model'[d[1]].slot[k]>> = d)
  <2>1. \A i \in 1..Len(rb[b].todo) : k \notin OnSlot(R, rb[b].todo[i])
    BY <1>2, <1>5
  <2> QED BY <1>5, <2>1 DEF Snap
<1> QED BY <1>3, <1>4, <1>5, SnapNext

\* A snapshot that a step does not touch ends with nothing new, where the slots it
\* has yet to read keep their values.
LEMMA SnapKept ==
    ASSUME NEW p \in Threads, NEW R, NEW U, NEW H, NEW G, Moved(p, R, U, H, G),
           NEW b \in Threads, pc[b] = "rb_scan", rb'[b] = rb[b], NEW k \in Keys, NEW x,
           \A d \in SlotCells : d[1] \in 1..used /\ k \in OnSlot(R, d)
               /\ (\E i \in 1..Len(rb[b].todo) : d = rb[b].todo[i])
             => Value(k, d[1])' = Value(k, d[1]),
           Snap(U, b, k, x)'
    PROVE  Snap(R, b, k, x)
<1>1. PICK W : W = {}
  OBVIOUS
<1> QED BY <1>1, SnapMoved
-----------------------------------------------------------------------------
(***************************************************************************)
(* Quiet steps, that write no entry, keep every version.                   *)
(***************************************************************************)
\* An iterator visits the slots the keys predict to.
LEMMA ScanCovers ==
    ASSUME TypeOK, NEW n \in Nodes, NEW k \in Keys
    PROVE  \E j \in 1..Len(ScanOf(n)) : ScanOf(n)[j] = predict_slot(n, k)
<1>1. PICK m : m = model[n]
  OBVIOUS
<1>2. m \in Models
  BY <1>1 DEF TypeOK, TreeTypes
<1>3. m.scan \in Seq(Slots) /\ Len(m.scan) \in Nat
  BY <1>2 DEF Models
<1>4. PICK j \in 1..Len(m.scan) : m.scan[j] = m.slot[k]
  BY <1>2 DEF Models
<1>5. ScanOf(n) = [i \in 1..Len(m.scan) |-> <<n, m.scan[i]>>]
  BY <1>1 DEF ScanOf
<1>6. Len(ScanOf(n)) = Len(m.scan)
  BY <1>3, <1>5
<1>7. ScanOf(n)[j] = predict_slot(n, k)
  BY <1>1, <1>4, <1>5 DEF predict_slot
<1> QED BY <1>4, <1>6, <1>7

\* The map's value and what a thread sees, after a step.
LEMMA LiveNext ==
    ASSUME NEW k, NEW n, n = Root'
    PROVE  Live(k)' = Value(k, n)'
BY DEF Live, Value, ValueAt, Holding, ClaimedData, predict_slot

\* What a call sees after a step, spelled out.
LEMMA SeesNext ==
    ASSUME NEW q, NEW k, k = call'[q].key, NEW n, n = Seen(q)'
    PROVE  Sees(q)' = Value(k, n)'
BY DEF Sees, Value, ValueAt, Holding, ClaimedData, predict_slot

\* A quiet step changes no value.
LEMMA QuietFacts ==
    ASSUME NEW p \in Threads, NEW R, NEW U, NEW H, NEW G, Moved(p, R, U, H, G),
           Quiet(p)
    PROVE  /\ UNCHANGED <<model, inline, used>>
           /\ \A c \in Cells : ptr'[c].node = ptr[c].node
           /\ Root' = Root
           /\ \A k \in Keys : /\ Live(k)' = Live(k)
                              /\ predict_slot(Root, k)' = predict_slot(Root, k)
                              /\ \A n \in 1..used : Value(k, n)' = Value(k, n)
                                                 /\ Leaf(k)'[n] = Leaf(k)[n]
<1>1. IInv /\ OwnInv /\ IInv' /\ OwnInv' /\ TypeOK' /\ Grows /\ Frame(p) /\ Root \in 1..used
  BY MovedFacts DEF Moved
<1>2. /\ UNCHANGED <<model, inline, used>>
      /\ \A c \in Cells : ptr'[c].node = ptr[c].node
  BY <1>1, QuietTree
<1>3. Root' = Root
  BY <1>2, CellFacts DEF Root
<1>4. \A k \in Keys : \A n \in 1..used : Value(k, n)' = Value(k, n)
                                      /\ Leaf(k)'[n] = Leaf(k)[n]
  BY <1>1, QuietValues
<1>5. ASSUME NEW k \in Keys
      PROVE  Live(k)' = Live(k)
  <2>1. PICK n \in 1..used : n = Root
    BY <1>1
  <2>2. Live(k)' = Value(k, n)'
    BY <1>3, <2>1, LiveNext
  <2> QED BY <1>4, <2>1, <2>2 DEF Live
<1>6. \A k \in Keys : predict_slot(Root, k)' = predict_slot(Root, k)
  BY <1>2, <1>3 DEF predict_slot
<1> QED BY <1>2, <1>3, <1>4, <1>5, <1>6

\* A quiet step that leaves its thread scanning for a rebuild has frozen the
\* pointer or scanned a slot.
LEMMA EnterScan ==
    ASSUME IInv, NEW p \in Threads, Quiet(p), pc'[p] = "rb_scan"
    PROVE  \/ /\ Freeze(p) /\ pc[p] = "rb_freeze"
              /\ ptr[rb[p].cell] = Plain(rb[p].victim)
              /\ rb'[p] = [rb[p] EXCEPT !.todo = ScanOf(rb[p].victim)]
           \/ ScanStep(p) /\ pc[p] = "rb_scan"
<1>1. ThreadTypes
  BY DEF IInv, TypeOK
<1> USE DEF Goto, ThreadTypes
<1>2. CASE Begin(p)
  BY <1>1, <1>2 DEF Begin, StartRebuild
<1>3. CASE Return(p) \/ LoadRoot(p) \/ Descend(p) \/ RemoveMiss(p) \/ GetExisting(p)
           \/ LoadOwn(p) \/ Recheck(p) \/ Count(p) \/ CheckGrowth(p) \/ Claim(p)
  BY <1>1, <1>3 DEF Return, LoadRoot, Descend, RemoveMiss, GetExisting, LoadOwn,
     Recheck, Count, CheckGrowth, Claim
<1>4. CASE Validate(p) \/ CheckRatio(p) \/ AdvanceThreshold(p)
  BY <1>1, <1>4 DEF Validate, CheckRatio, AdvanceThreshold, StartRebuild, AfterTrigger
<1>5. CASE ReadRoot(p) \/ ReadStep(p) \/ ScanStep(p) \/ ScanEnd(p)
  BY <1>1, <1>5 DEF ReadRoot, ReadStep, ScanStep, ScanEnd
<1>6. CASE LoadVictim(p) \/ ResetCounters(p) \/ Unfreeze(p)
  BY <1>1, <1>6 DEF LoadVictim, ResetCounters, Unfreeze, GiveUp, Caller, AfterTrigger
<1>7. CASE Freeze(p)
  <2>1. StillUnfrozen(p)
    BY <1>1, <1>7 DEF Freeze, GiveUp, Caller, AfterTrigger
  <2>2. rb' = [rb EXCEPT ![p].todo = ScanOf(rb[p].victim)] /\ pc[p] = "rb_freeze"
    BY <1>7, <2>1 DEF Freeze
  <2> QED BY <1>1, <1>7, <2>1, <2>2 DEF StillUnfrozen
<1> QED BY <1>2, <1>3, <1>4, <1>5, <1>6, <1>7 DEF Quiet, LocalStep

\* A scanned slot keeps what the snapshot may end with.
LEMMA ScanSnap ==
    ASSUME NEW p \in Threads, NEW R, NEW U, NEW H, NEW G, Moved(p, R, U, H, G),
           ScanStep(p), pc[p] = "rb_scan", NEW k \in Keys, NEW x, Snap(U, p, k, x)'
    PROVE  Snap(R, p, k, x)
<1>1. /\ IInv /\ OwnInv /\ TypeOK /\ ThreadTypes
      /\ \A n \in 1..used : n \in Nodes /\ U[n] = R[n] /\ model'[n] = model[n]
  BY MovedFacts
<1>2. Quiet(p)
  BY DEF Quiet, LocalStep
<1>3. \A n \in 1..used : Value(k, n)' = Value(k, n)
  BY <1>2, QuietFacts
<1>4. PICK c, todo, below, rest :
          /\ c = Head(rb[p].todo) /\ todo = rb[p].todo
          /\ below = IF IsChild(st[c]) THEN ScanOf(ptr[c].node) ELSE <<>>
          /\ rest = Tail(todo)
  OBVIOUS
<1>5. /\ todo # <<>> /\ rb'[p] = Scanned(p, c) /\ st[c] # "WRITING"
  BY <1>1, <1>4 DEF ScanStep, ThreadTypes, ScanReady
<1>6. /\ rb'[p].todo = below \o rest
      /\ rb'[p].pairs = IF st[c] = "DATA" THEN rb[p].pairs \cup {inline[c]}
                                          ELSE rb[p].pairs
  <2>1. PICK r : r = rb[p]
    OBVIOUS
  <2>2. r \in Scans /\ DOMAIN r = {"kind", "cell", "victim", "todo", "pairs"}
    BY <1>1, <2>1 DEF ThreadTypes, Scans
  <2>3. rb'[p] = [r EXCEPT !.todo  = below \o rest,
                          !.pairs = IF st[c] = "DATA" THEN r.pairs \cup {inline[c]}
                                                      ELSE r.pairs]
    BY <1>4, <1>5, <2>1 DEF Scanned
  <2>4. rb'[p].todo = below \o rest
    BY <2>2, <2>3
  <2>5. rb'[p].pairs = IF st[c] = "DATA" THEN r.pairs \cup {inline[c]} ELSE r.pairs
    BY <2>2, <2>3
  <2> QED BY <2>1, <2>4, <2>5
<1>7. todo \in Seq(SlotCells) /\ Len(todo) \in Nat
  BY <1>1, <1>4 DEF ThreadTypes, Scans
<1>8. /\ c = todo[1] /\ 1 \in 1..Len(todo)
      /\ rest \in Seq(SlotCells) /\ Len(rest) = Len(todo) - 1
      /\ \A i \in 1..Len(rest) : rest[i] = todo[i + 1] /\ i + 1 \in 1..Len(todo)
  BY <1>4, <1>5, <1>7
<1>9. \A i \in 1..Len(todo) : todo[i] \in SlotCells /\ todo[i][1] \in 1..used
  <2> SUFFICES ASSUME NEW i \in 1..Len(todo)
               PROVE  todo[i] \in SlotCells /\ todo[i][1] \in 1..used
    OBVIOUS
  <2>1. ScanRoutes(R, p)
    BY DEF Moved, Ready, Routed
  <2>2. todo[i] \in SlotCells /\ todo[i][1] <= used
    BY <1>4, <1>7, <2>1 DEF ScanRoutes
  <2> QED BY <2>2, MovedFacts, UsedFacts
<1>10. c \in SlotCells /\ c[1] \in 1..used /\ TreeRoutes(R)
  BY <1>8, <1>9 DEF Moved, Ready, Routed
<1>11. ASSUME k \in OnSlot(R, c), x = Value(k, c[1])
       PROVE  Snap(R, p, k, x)
  BY <1>4, <1>8, <1>11 DEF Snap
<1>12. ASSUME NEW i \in 1..Len(rest), k \in OnSlot(R, rest[i]), x = Value(k, rest[i][1])
       PROVE  Snap(R, p, k, x)
  BY <1>4, <1>8, <1>12 DEF Snap
<1>13. ASSUME k \in OnSlot(R, c), ~IsChild(st[c])
       PROVE  Value(k, c[1]) = ValueAt(c, k)
  <2>1. c = predict_slot(c[1], k) /\ c[1] \in Nodes
    BY <1>1, <1>10, <1>13 DEF OnSlot
  <2> QED BY <1>1, <1>13, <2>1, LeafLevel
<1>14. ASSUME k \in OnSlot(R, c), IsChild(st[c]), NEW m, m = ptr[c].node
       PROVE  /\ Value(k, c[1]) = Value(k, m) /\ m \in 1..used /\ k \in R[m]
              /\ m \in Nodes
  <2>1. c = predict_slot(c[1], k) /\ c[1] \in Nodes
    BY <1>1, <1>10, <1>14 DEF OnSlot
  <2>2. m \in 1..used /\ m # Nil /\ Value(k, c[1]) = Value(k, m) /\ m \in Nodes
    BY <1>1, <1>14, <2>1, LeafLevel
  <2> QED BY <1>10, <1>14, <2>2 DEF TreeRoutes
<1>15. below \in Seq(SlotCells) /\ (IsChild(st[c]) => below = ScanOf(ptr[c].node)
          /\ \A i \in 1..Len(below) : below[i][1] = ptr[c].node)
  <2>1. CASE IsChild(st[c])
    <3>1. PICK m : m = ptr[c].node
      OBVIOUS
    <3>2. m \in Nodes
      <4>1. m # Nil
        BY <1>1, <1>10, <2>1, <3>1 DEF IInv, TreeInv
      <4> QED BY <1>1, <1>10, <3>1, <4>1, Allocated
    <3>3. ScanOf(m) \in Seq(SlotCells) /\ \A i \in 1..Len(ScanOf(m)) : ScanOf(m)[i][1] = m
      BY <1>1, <3>2, ScanOfType, ScanOfNode
    <3> QED BY <1>4, <2>1, <3>1, <3>3
  <2>2. CASE ~IsChild(st[c])
    BY <1>4, <2>2
  <2> QED BY <2>1, <2>2
<1>16. CASE \E e \in rb'[p].pairs : e.key = k /\ e.val = x
  <2>1. PICK e \in rb'[p].pairs : e.key = k /\ e.val = x
    BY <1>16
  <2>2. CASE e \in rb[p].pairs
    BY <2>1, <2>2 DEF Snap
  <2>3. CASE e \notin rb[p].pairs
    <3>1. st[c] = "DATA" /\ e = inline[c]
      BY <1>6, <2>1, <2>3
    <3>2. inline[c] # Nil
      BY <1>1, <1>10, <3>1 DEF IInv, TreeInv
    <3>3. k \in OnSlot(R, c)
      BY <1>10, <2>1, <3>1, <3>2 DEF TreeRoutes
    <3>4. x = Value(k, c[1])
      BY <1>13, <2>1, <3>1, <3>3 DEF ValueAt, Holding, IsChild
    <3> QED BY <1>11, <3>3, <3>4
  <2> QED BY <2>2, <2>3
<1>17. CASE \E i \in 1..Len(rb'[p].todo) : \E d :
              /\ d = rb'[p].todo[i] /\ k \in U[d[1]]
              /\ <<d[1], model'[d[1]].slot[k]>> = d /\ x = Value(k, d[1])'
  <2>1. PICK i, d :
              /\ i \in 1..Len(below \o rest) /\ d = (below \o rest)[i] /\ k \in U[d[1]]
              /\ <<d[1], model'[d[1]].slot[k]>> = d /\ x = Value(k, d[1])'
    BY <1>6, <1>17
  <2>2. CASE i \in 1..Len(below)
    <3>1. d = below[i] /\ IsChild(st[c])
      <4>1. below \in Seq(SlotCells) /\ rest \in Seq(SlotCells)
        BY <1>8, <1>15
      <4>2. (below \o rest)[i] = below[i]
        BY <2>2, <4>1, ConcatProperties
      <4>3. below # <<>>
        BY <2>2
      <4> QED BY <1>4, <2>1, <4>2, <4>3
    <3>2. PICK m : m = ptr[c].node
      OBVIOUS
    <3>3. d[1] = m /\ m # Nil
      BY <1>1, <1>10, <1>15, <2>2, <3>1, <3>2 DEF IInv, TreeInv
    <3>4. m \in Nodes /\ m <= used
      BY <1>1, <1>10, <3>2, <3>3, Allocated
    <3>5. m \in 1..used
      BY <3>4, MovedFacts
    <3>6. k \in OnSlot(R, c)
      BY <1>1, <1>10, <2>1, <3>2, <3>3, <3>5 DEF TreeRoutes
    <3>7. x = Value(k, m)
      BY <1>3, <2>1, <3>3, <3>5
    <3> QED BY <1>11, <1>14, <3>1, <3>2, <3>6, <3>7
  <2>3. CASE i \notin 1..Len(below)
    <3>1. PICK j \in 1..Len(rest) : d = rest[j]
      <4>1. /\ Len(below) \in Nat /\ Len(rest) \in Nat
            /\ below \in Seq(SlotCells) /\ rest \in Seq(SlotCells)
        BY <1>8, <1>15
      <4>2. Len(below \o rest) = Len(below) + Len(rest)
        BY <4>1, ConcatProperties
      <4>3. i - Len(below) \in 1..Len(rest)
        BY <2>1, <2>3, <4>1, <4>2
      <4>4. (below \o rest)[i] = rest[i - Len(below)]
        BY <1>8, <1>15, <2>1, <2>3
      <4> QED BY <2>1, <4>3, <4>4
    <3>2. d[1] \in 1..used
      BY <1>8, <1>9, <3>1
    <3>3. k \in OnSlot(R, d) /\ x = Value(k, d[1])
      BY <1>1, <1>3, <2>1, <3>2 DEF OnSlot, predict_slot
    <3> QED BY <1>12, <3>1, <3>3
  <2> QED BY <2>2, <2>3
<1>18. CASE /\ x = Nil
            /\ \A e \in rb'[p].pairs : e.key # k
            /\ \A i \in 1..Len(rb'[p].todo) : \A d :
                 d = rb'[p].todo[i] =>
                   ~(k \in U[d[1]] /\ <<d[1], model'[d[1]].slot[k]>> = d)
  <2>1. \A e \in rb[p].pairs : e.key # k
    BY <1>6, <1>18
  <2>2. ASSUME NEW i \in 1..Len(below \o rest)
        PROVE  k \notin OnSlot(R, (below \o rest)[i])
                 \/ (below \o rest)[i][1] \notin 1..used
    <3>1. PICK d : d = (below \o rest)[i]
      OBVIOUS
    <3>2. ~(k \in U[d[1]] /\ <<d[1], model'[d[1]].slot[k]>> = d)
      BY <1>6, <1>18, <3>1
    <3> QED BY <1>1, <3>1, <3>2 DEF OnSlot, predict_slot
  <2>3. CASE k \in OnSlot(R, c) /\ IsChild(st[c])
    <3>1. PICK m : m = ptr[c].node
      OBVIOUS
    <3>2. m \in 1..used /\ m \in Nodes /\ k \in R[m]
      BY <1>14, <2>3, <3>1
    <3>3. PICK j \in 1..Len(ScanOf(m)) : ScanOf(m)[j] = predict_slot(m, k)
      BY <1>1, <3>2, ScanCovers
    <3>4. j \in 1..Len(below) /\ below[j] = predict_slot(m, k)
      BY <1>15, <2>3, <3>1, <3>3
    <3>5. j \in 1..Len(below \o rest) /\ (below \o rest)[j] = below[j]
      BY <1>8, <1>15, <3>4
    <3>6. predict_slot(m, k)[1] = m
      BY DEF predict_slot
    <3> QED BY <2>2, <3>2, <3>4, <3>5, <3>6 DEF OnSlot
  <2>4. CASE k \in OnSlot(R, c) /\ ~IsChild(st[c])
    <3>1. ~ClaimedData(c)
      BY <1>1, <1>5 DEF ClaimedData, IInv, SlotExclusive
    <3>2. st[c] = "DATA" => inline[c].key # k
      BY <1>6, <1>18
    <3>3. ValueAt(c, k) = Nil
      BY <3>1, <3>2 DEF ValueAt, Holding
    <3> QED BY <1>11, <1>13, <1>18, <2>4, <3>3
  <2>5. CASE k \notin OnSlot(R, c)
    <3>1. ASSUME NEW i \in 1..Len(todo)
          PROVE  k \notin OnSlot(R, todo[i])
      <4>1. CASE i = 1
        BY <1>8, <2>5, <4>1
      <4>2. CASE i # 1
        <5>1. Len(below) \in Nat /\ Len(rest) \in Nat
          BY <1>8, <1>15
        <5>2. i - 1 \in 1..Len(rest) /\ rest[i - 1] = todo[i]
          BY <1>7, <1>8, <4>2
        <5>3. Len(below) + (i - 1) \in 1..Len(below \o rest)
              /\ (below \o rest)[Len(below) + (i - 1)] = rest[i - 1]
          BY <1>8, <1>15, <5>1, <5>2
        <5> QED BY <1>9, <2>2, <5>2, <5>3
      <4> QED BY <4>1, <4>2
    <3> QED BY <1>4, <1>18, <2>1, <3>1 DEF Snap
  <2> QED BY <2>3, <2>4, <2>5
<1> QED BY <1>16, <1>17, <1>18, SnapNext

\* A snapshot just begun is what is below the frozen pointer.
LEMMA FreezeSnap ==
    ASSUME NEW p \in Threads, NEW R, NEW U, NEW H, NEW G, Moved(p, R, U, H, G),
           Freeze(p), pc'[p] = "rb_scan", NEW v, v = rb[p].victim, v \in 1..used,
           NEW k \in Keys, k \in R[v], NEW x, Snap(U, p, k, x)'
    PROVE  x = Value(k, v)
<1>1. /\ IInv /\ OwnInv /\ TypeOK /\ ThreadTypes
      /\ \A n \in 1..used : n \in Nodes /\ U[n] = R[n] /\ model'[n] = model[n]
  BY MovedFacts
<1>2. Quiet(p)
  BY DEF Quiet
<1>3. \A n \in 1..used : Value(k, n)' = Value(k, n)
  BY <1>2, QuietFacts
<1>4. pc[p] = "rb_freeze" /\ rb'[p] = [rb[p] EXCEPT !.todo = ScanOf(v)]
  BY <1>1, <1>2, EnterScan DEF Freeze, ScanStep
<1>5. rb'[p].todo = ScanOf(v) /\ rb'[p].pairs = {}
  <2>1. rb[p].pairs = {}
    BY <1>4 DEF Moved, Ready, Routed, ScanRoutes
  <2> QED BY <1>1, <1>4, <2>1 DEF ThreadTypes, Scans
<1>6. PICK j \in 1..Len(ScanOf(v)) : ScanOf(v)[j] = predict_slot(v, k)
  BY <1>1, ScanCovers
<1>7. \A i \in 1..Len(ScanOf(v)) : ScanOf(v)[i][1] = v
  BY <1>1, ScanOfNode
<1>8. CASE \E i \in 1..Len(rb'[p].todo) : \E d :
              /\ d = rb'[p].todo[i] /\ k \in U[d[1]]
              /\ <<d[1], model'[d[1]].slot[k]>> = d /\ x = Value(k, d[1])'
  <2>1. PICK d : d[1] = v /\ x = Value(k, d[1])'
    BY <1>5, <1>7, <1>8
  <2> QED BY <1>3, <2>1
<1>9. CASE /\ x = Nil
           /\ \A e \in rb'[p].pairs : e.key # k
           /\ \A i \in 1..Len(rb'[p].todo) : \A d :
                d = rb'[p].todo[i] =>
                  ~(k \in U[d[1]] /\ <<d[1], model'[d[1]].slot[k]>> = d)
  <2>1. PICK d : d = ScanOf(v)[j]
    OBVIOUS
  <2>2. ~(k \in U[d[1]] /\ <<d[1], model'[d[1]].slot[k]>> = d)
    BY <1>5, <1>6, <1>9, <2>1
  <2>3. d[1] = v /\ d = <<v, model[v].slot[k]>>
    BY <1>6, <1>7, <2>1 DEF predict_slot
  <2> QED BY <1>1, <2>2, <2>3
<1> QED BY <1>5, <1>8, <1>9, SnapNext

\* What a quiet step of a thread may be, by where the thread is.
LEMMA QuietAt ==
    ASSUME IInv, NEW p \in Threads, Quiet(p)
    PROVE  /\ pc[p] # "publish"
           /\ pc[p] = "root" => LoadRoot(p)
           /\ pc[p] = "slot" => Descend(p) \/ Claim(p) \/ RemoveMiss(p) \/ GetExisting(p)
           /\ pc[p] = "validate" => Validate(p)
           /\ pc[p] = "recheck" => Recheck(p)
           /\ pc[p] = "ratio" => CheckRatio(p)
           /\ pc[p] = "own" => LoadOwn(p)
           /\ pc[p] = "read" => ReadStep(p)
           /\ Rebuilding(p) => \/ LoadVictim(p) \/ Freeze(p) \/ Unfreeze(p)
                               \/ (ScanStep(p) /\ pc[p] = "rb_scan")
<1> USE DEF Rebuilding
<1>1. CASE Begin(p) \/ Return(p)
  BY <1>1 DEF Begin, Return
<1>2. CASE LoadRoot(p) \/ Descend(p) \/ RemoveMiss(p) \/ GetExisting(p)
  BY <1>2 DEF LoadRoot, Descend, RemoveMiss, GetExisting
<1>3. CASE Validate(p) \/ CheckRatio(p) \/ LoadOwn(p)
  BY <1>3 DEF Validate, CheckRatio, LoadOwn
<1>4. CASE Recheck(p) \/ Count(p) \/ CheckGrowth(p) \/ AdvanceThreshold(p)
  BY <1>4 DEF Recheck, Count, CheckGrowth, AdvanceThreshold
<1>5. CASE ReadRoot(p) \/ ReadStep(p) \/ ScanStep(p) \/ ScanEnd(p)
  BY <1>5 DEF ReadRoot, ReadStep, ScanStep, ScanEnd
<1>6. CASE LoadVictim(p) \/ ResetCounters(p)
  BY <1>6 DEF LoadVictim, ResetCounters
<1>7. CASE Claim(p) \/ Freeze(p) \/ Unfreeze(p)
  BY <1>7 DEF Claim, Freeze, Unfreeze
<1> QED BY <1>1, <1>2, <1>3, <1>4, <1>5, <1>6, <1>7 DEF Quiet, LocalStep

\* What the slots of a root that is being rebuilt, or the root itself, cannot be.
LEMMA FrozenFacts ==
    ASSUME NEW R, NEW H, Ready(R, H), NEW b \in Threads, NEW k \in Keys
    PROVE  /\ Top(b) => ptr[RootCell].tag = 1 /\ ptr[RootCell].node = rb[b].victim
           /\ Sub(b, k) => /\ IsChild(st[predict_slot(Root, k)])
                           /\ ptr[predict_slot(Root, k)].tag = 1
<1>1. IInv /\ OwnInv
  BY DEF Ready
<1>2. ASSUME Top(b)
      PROVE  ptr[RootCell].tag = 1 /\ ptr[RootCell].node = rb[b].victim
  BY <1>1, <1>2, ScanFacts DEF Top
<1>3. ASSUME Sub(b, k)
      PROVE  /\ IsChild(st[predict_slot(Root, k)])
             /\ ptr[predict_slot(Root, k)].tag = 1
  BY <1>3, SubFacts
<1> QED BY <1>2, <1>3

\* What a rebuild begins with.
LEMMA StartFacts ==
    ASSUME ThreadTypes, NEW p \in Threads, NEW kind, NEW c, StartRebuild(p, kind, c)
    PROVE  pc'[p] = "rb_load" /\ rb'[p].kind = kind /\ rb'[p].cell = c
<1>1. PICK r : r = [NoScan EXCEPT !.kind = kind, !.cell = c]
  OBVIOUS
<1>2. r.kind = kind /\ r.cell = c
  BY <1>1 DEF NoScan
<1>3. rb'[p] = r /\ pc'[p] = "rb_load"
  BY <1>1 DEF StartRebuild, Goto, ThreadTypes
<1> QED BY <1>2, <1>3

\* A quiet step leaves a thread that may start over in the same root, unless the
\* thread starts over or its last validation succeeds.
LEMMA EarlyStep ==
    ASSUME NEW p \in Threads, NEW R, NEW U, NEW H, NEW G, Moved(p, R, U, H, G),
           Quiet(p), NEW k, On(p, k), Early(p), pc[p] # "root"
    PROVE  \/ /\ Early(p)' /\ walk'[p].entry = walk[p].entry
           \/ Recheck(p) /\ (pc'[p] = "root" \/ RootValid(p))
<1>1. IInv /\ TypeOK /\ ThreadTypes /\ TypeOK' /\ Stages(p)
  BY MovedFacts DEF Moved, Ready
<1>2. call[p].op \in Writers /\ p \in DOMAIN pc /\ p \in DOMAIN walk /\ p \in DOMAIN rb
      /\ walk[p] \in Walks
  BY <1>1 DEF On, ThreadTypes
<1> USE DEF Early, Goto, Rebuilding, ThreadTypes
<1>3. CASE pc[p] = "slot"
  <2>1. Descend(p) \/ Claim(p) \/ RemoveMiss(p) \/ GetExisting(p)
    BY <1>1, <1>3, QuietAt
  <2>2. CASE Descend(p)
    BY <1>1, <1>2, <1>3, <2>2 DEF Descend, Followed, Walks
  <2>3. CASE Claim(p)
    BY <1>1, <1>2, <2>3 DEF Claim, Walks
  <2>4. CASE RemoveMiss(p) \/ GetExisting(p)
    BY <1>1, <1>2, <2>4 DEF RemoveMiss, GetExisting
  <2> QED BY <2>1, <2>2, <2>3, <2>4
<1>4. CASE pc[p] = "validate"
  <2>1. Validate(p)
    BY <1>1, <1>4, QuietAt
  <2>2. CASE ~SnapshotValid(p)
    BY <1>1, <1>2, <2>1, <2>2 DEF Validate, WalkFrom, NoWalk
  <2>3. CASE SnapshotValid(p)
    <3>1. CASE StartRebuild(p, "subtree", walk[p].snap) /\ UNCHANGED walk
      <4>1. pc'[p] = "rb_load" /\ rb'[p].kind = "subtree"
        BY <1>1, <3>1, StartFacts
      <4> QED BY <3>1, <4>1
    <3>2. CASE /\ Goto(p, IF call[p].op = "remove" THEN "ratio" ELSE AfterTrigger(p))
               /\ UNCHANGED <<walk, rb>>
      BY <1>1, <3>2 DEF AfterTrigger
    <3> QED BY <2>1, <2>3, <3>1, <3>2 DEF Validate
  <2> QED BY <2>2, <2>3
<1>5. CASE pc[p] = "recheck"
  BY <1>1, <1>2, <1>5, QuietAt DEF Recheck
<1>6. CASE pc[p] = "ratio"
  <2>1. CheckRatio(p)
    BY <1>1, <1>6, QuietAt
  <2>2. CASE StartRebuild(p, "subtree", walk[p].snap)
    <3>1. pc'[p] = "rb_load" /\ rb'[p].kind = "subtree"
      BY <1>1, <2>2, StartFacts
    <3> QED BY <2>1, <3>1 DEF CheckRatio
  <2>3. CASE Goto(p, "recheck")
    BY <1>1, <2>1, <2>3 DEF CheckRatio
  <2> QED BY <2>1, <2>2, <2>3 DEF CheckRatio
<1>7. CASE pc[p] = "own"
  BY <1>1, <1>2, <1>7, QuietAt DEF LoadOwn, Walks
<1>8. CASE pc[p] = "read"
  <2>1. ReadStep(p) /\ call[p].op # "get"
    BY <1>1, <1>2, <1>8, QuietAt DEF Writers
  <2> QED BY <1>1, <1>2, <1>8, <2>1 DEF ReadStep, Walks
<1>9. CASE Rebuilding(p) /\ rb[p].kind = "subtree"
  <2>1. \/ LoadVictim(p) \/ Freeze(p) \/ Unfreeze(p)
        \/ (ScanStep(p) /\ pc[p] = "rb_scan")
    BY <1>1, <1>9, QuietAt
  <2>2. CASE LoadVictim(p)
    BY <1>1, <1>2, <1>9, <2>2 DEF LoadVictim, GiveUp, Caller, AfterTrigger, Scans
  <2>3. CASE Freeze(p)
    BY <1>1, <1>2, <1>9, <2>3 DEF Freeze, GiveUp, Caller, AfterTrigger, Scans
  <2>4. CASE Unfreeze(p)
    BY <1>1, <1>2, <1>9, <2>4 DEF Unfreeze, GiveUp, Caller, AfterTrigger
  <2>5. CASE ScanStep(p) /\ pc[p] = "rb_scan"
    BY <1>1, <1>2, <1>9, <2>5 DEF ScanStep, Scanned, Scans
  <2> QED BY <2>1, <2>2, <2>3, <2>4, <2>5
<1>10. pc[p] # "publish"
  BY <1>1, QuietAt
<1> QED BY <1>3, <1>4, <1>5, <1>6, <1>7, <1>8, <1>9, <1>10

\* A quiet step brings no new version of a key: a snapshot just begun is what
\* the map holds.
LEMMA QuietVersion ==
    ASSUME NEW p \in Threads, NEW R, NEW U, NEW H, NEW G, Moved(p, R, U, H, G),
           Quiet(p), NEW k \in Keys, NEW j \in Places, NEW x, IsVersion(U, k, j, x)'
    PROVE  IsVersion(R, k, j, x) \/ IsVersion(R, k, "live", x)
<1>1. /\ IInv /\ OwnInv /\ TypeOK /\ ThreadTypes /\ Ready(R, H)
      /\ Root \in 1..used /\ R[Root] = Keys
      /\ \A n \in 1..used : n \in Nodes
      /\ \A q \in Threads \ {p} : pc'[q] = pc[q] /\ rb'[q] = rb[q]
  BY MovedFacts DEF Moved
<1>2. /\ Live(k)' = Live(k) /\ predict_slot(Root, k)' = predict_slot(Root, k)
      /\ \A n \in 1..used : Value(k, n)' = Value(k, n)
  BY QuietFacts
<1>3. ASSUME NEW b \in Threads \ {p}, pc[b] = "rb_scan", Snap(U, b, k, x)'
      PROVE  Snap(R, b, k, x)
  <2>1. rb'[b] = rb[b]
    BY <1>1
  <2> QED BY <1>2, <1>3, <2>1, SnapKept
<1>4. ASSUME pc'[p] = "rb_scan", Freeze(p), NEW v, v = rb[p].victim,
             v \in 1..used, k \in R[v], Snap(U, p, k, x)'
      PROVE  x = Value(k, v)
  BY <1>4, FreezeSnap
<1>5. CASE j = "live"
  BY <1>2, <1>5 DEF IsVersion
<1>6. CASE j = "sub"
  <2>1. PICK b \in Threads : Sub(b, k)' /\ Snap(U, b, k, x)'
    BY <1>6 DEF IsVersion
  <2>2. PICK c : c = predict_slot(Root, k)
    OBVIOUS
  <2>3. pc'[b] = "rb_scan" /\ rb'[b].cell = c
    BY <1>2, <2>1, <2>2 DEF Sub
  <2>4. CASE b # p
    <3>1. Sub(b, k)
      BY <1>1, <2>2, <2>3, <2>4 DEF Sub
    <3> QED BY <1>3, <1>6, <2>1, <2>4, <3>1 DEF IsVersion, Sub
  <2>5. CASE b = p /\ ScanStep(p) /\ pc[p] = "rb_scan"
    <3>1. rb'[p].cell = rb[p].cell
      BY <1>1, <2>5 DEF ScanStep, Scanned, ThreadTypes, Scans
    <3>2. Sub(p, k)
      BY <2>2, <2>3, <2>5, <3>1 DEF Sub
    <3>3. Snap(R, p, k, x)
      BY <2>1, <2>5, ScanSnap
    <3> QED BY <1>6, <3>2, <3>3 DEF IsVersion
  <2>6. CASE /\ b = p /\ Freeze(p) /\ ptr[rb[p].cell] = Plain(rb[p].victim)
             /\ rb'[p] = [rb[p] EXCEPT !.todo = ScanOf(rb[p].victim)]
    <3>1. PICK v : v = rb[p].victim
      OBVIOUS
    <3>2. rb[p].cell = c /\ ptr[c].node = v /\ v \in Nodes /\ v # Nil
      BY <1>1, <2>3, <2>6, <3>1, ConstantsAssumption DEF ThreadTypes, Scans, Plain
    <3>3. Root \in Nodes
      BY <1>1
    <3>4. /\ c \in SlotCells /\ c[1] = Root
          /\ IsChild(st[c]) => ptr[c].node \in 1..used
                               /\ Value(k, Root) = Value(k, ptr[c].node)
      BY <1>1, <2>2, <3>3, LeafLevel
    <3>5. IsChild(st[c])
      BY <1>1, <3>2, <3>4 DEF OwnInv, NoStrayChild
    <3>6. k \in R[v]
      BY <1>1, <2>2, <3>2, <3>4 DEF Ready, Routed, TreeRoutes, OnSlot
    <3>7. x = Value(k, v)
      BY <1>4, <2>1, <2>3, <2>6, <3>1, <3>2, <3>4, <3>5, <3>6
    <3> QED BY <3>2, <3>4, <3>5, <3>7 DEF IsVersion, Live
  <2> QED BY <1>1, <2>3, <2>4, <2>5, <2>6, EnterScan
<1>7. CASE j = "top"
  <2>1. PICK b \in Threads : Top(b)' /\ Snap(U, b, k, x)'
    BY <1>7 DEF IsVersion
  <2>2. pc'[b] = "rb_scan" /\ rb'[b].cell = RootCell /\ rb'[b].kind = "rebuild"
    BY <2>1 DEF Top
  <2>3. CASE b # p
    <3>1. Top(b)
      BY <1>1, <2>2, <2>3 DEF Top
    <3> QED BY <1>3, <1>7, <2>1, <2>3, <3>1 DEF IsVersion, Top
  <2>4. CASE b = p /\ ScanStep(p) /\ pc[p] = "rb_scan"
    <3>1. rb'[p].cell = rb[p].cell /\ rb'[p].kind = rb[p].kind
      BY <1>1, <2>4 DEF ScanStep, Scanned, ThreadTypes, Scans
    <3>2. Top(p)
      BY <2>2, <2>4, <3>1 DEF Top
    <3>3. Snap(R, p, k, x)
      BY <2>1, <2>4, ScanSnap
    <3> QED BY <1>7, <3>2, <3>3 DEF IsVersion
  <2>5. CASE /\ b = p /\ Freeze(p) /\ ptr[rb[p].cell] = Plain(rb[p].victim)
             /\ rb'[p] = [rb[p] EXCEPT !.todo = ScanOf(rb[p].victim)]
    <3>1. PICK v : v = rb[p].victim
      OBVIOUS
    <3>2. rb[p].cell = RootCell /\ v = Root
      BY <1>1, <2>2, <2>5, <3>1 DEF ThreadTypes, Scans, Plain, Root
    <3>3. x = Value(k, v)
      BY <1>1, <1>4, <2>1, <2>2, <2>5, <3>1, <3>2
    <3> QED BY <3>2, <3>3 DEF IsVersion, Live
  <2> QED BY <1>1, <2>2, <2>3, <2>4, <2>5, EnterScan
<1> QED BY <1>5, <1>6, <1>7 DEF Places

\* A thread whose write is due for a version stays due while others take quiet
\* steps.
LEMMA QuietDueOther ==
    ASSUME NEW p \in Threads, NEW R, NEW U, NEW H, NEW G, Moved(p, R, U, H, G),
           Quiet(p), NEW k \in Keys, NEW j \in Places, NEW x,
           NEW q \in Threads \ {p}, DueBy(q, k, j, x)
    PROVE  DueBy(q, k, j, x)'
<1>1. /\ pc'[q] = pc[q] /\ walk'[q] = walk[q] /\ call'[q] = call[q] /\ Ready(R, H)
  BY MovedFacts DEF Moved
<1>2. /\ On(q, k)' <=> On(q, k)
      /\ Overwrites(q, x)' <=> Overwrites(q, x)
      /\ Early(q)' <=> Early(q)
      /\ Deep(q)' <=> Deep(q)
      /\ Seen(q)' = Seen(q)
  BY OthersDue
<1>3. Root' = Root /\ \A n \in 1..used : Value(k, n)' = Value(k, n)
  BY QuietFacts
<1>4. On(q, k) /\ call[q].key = k
  BY DEF DueBy, On
<1>5. Restarts(q)' <=> Restarts(q)
  BY <1>1, <1>2, <1>3 DEF Restarts
<1>6. pc[q] # "root" => Sees(q)' = Sees(q)
  <2> SUFFICES ASSUME pc[q] # "root" PROVE Sees(q)' = Sees(q)
    OBVIOUS
  <2>1. PICK n : n = Seen(q)
    OBVIOUS
  <2>2. n \in 1..used /\ Sees(q) = Value(k, n)
    BY <1>1, <1>4, <2>1, WriterFacts
  <2>3. Sees(q)' = Value(k, n)'
    BY <1>1, <1>2, <1>4, <2>1, SeesNext
  <2> QED BY <1>3, <2>2, <2>3
<1>7. pc[q] # "root" /\ Deep(q) => ptr'[walk[q].snap].node = ptr[walk[q].snap].node
  <2> SUFFICES ASSUME pc[q] # "root", Deep(q)
               PROVE  ptr'[walk[q].snap].node = ptr[walk[q].snap].node
    OBVIOUS
  <2>1. walk[q].snap \in Cells
    BY <1>1, <1>4, WriterFacts, CellFacts
  <2> QED BY <2>1, QuietFacts
<1> QED BY <1>1, <1>2, <1>5, <1>6, <1>7 DEF DueBy, Pending

\* What a thread sees at its slot does not change by its claim or by a descent.
LEMMA DescendSees ==
    ASSUME NEW p \in Threads, NEW R, NEW U, NEW H, NEW G, Moved(p, R, U, H, G),
           Descend(p) \/ Claim(p), NEW k \in Keys, On(p, k)
    PROVE  /\ On(p, k)' /\ pc'[p] \in {"slot", "publish"} /\ call'[p] = call[p]
           /\ walk'[p].entry = walk[p].entry
           /\ Sees(p)' = Sees(p) /\ pc[p] = "slot"
           /\ Claim(p) => (Deep(p)' <=> Deep(p))
           /\ Descend(p) => Deep(p)'
<1>1. /\ IInv /\ OwnInv /\ TypeOK /\ ThreadTypes /\ Ready(R, H) /\ pc[p] = "slot"
  BY MovedFacts DEF Moved, Descend, Claim
<1>2. walk[p] \in Walks /\ UNCHANGED call
  BY <1>1 DEF ThreadTypes, Descend, Claim
<1>3. Quiet(p)
  BY DEF Quiet, LocalStep
<1>4. \A n \in 1..used : Value(k, n)' = Value(k, n)
  BY <1>3, QuietFacts
<1>5. /\ Seen(p) \in 1..used /\ Sees(p) = Value(k, Seen(p)) /\ walk[p].cur \in 1..used
      /\ ~Deep(p) => walk[p].cur = walk[p].entry /\ Seen(p) = walk[p].entry
                     /\ Here(p) = predict_slot(walk[p].entry, k)
      /\ Deep(p) => walk[p].snap # RootCell /\ Seen(p) = walk[p].child
  BY <1>1, WriterFacts DEF Deep
<1>6. CASE Claim(p)
  <2>1. /\ walk'[p].entry = walk[p].entry /\ walk'[p].snap = walk[p].snap
        /\ walk'[p].child = walk[p].child /\ pc'[p] = "publish"
    BY <1>1, <1>2, <1>6 DEF Claim, Goto, ThreadTypes, Walks
  <2>2. (Deep(p)' <=> Deep(p)) /\ Seen(p)' = Seen(p)
    BY <2>1 DEF Deep, Seen
  <2>3. PICK n \in 1..used : n = Seen(p)
    BY <1>5
  <2>4. Sees(p)' = Value(k, n)'
    BY <1>2, <2>2, <2>3, SeesNext DEF On
  <2>5. ~Descend(p)
    BY <1>1, <2>1 DEF Descend, ThreadTypes
  <2> QED BY <1>1, <1>2, <1>4, <1>5, <2>1, <2>2, <2>3, <2>4, <2>5 DEF On
<1>7. CASE Descend(p)
  <2>1. PICK c, m : c = Here(p) /\ m = ptr[c].node
    OBVIOUS
  <2>2. /\ IsChild(st[c]) /\ pc'[p] = "slot"
        /\ walk'[p] = [walk[p] EXCEPT !.cur   = m,
                  !.snap  = IF walk[p].snap = RootCell THEN c ELSE walk[p].snap,
                  !.child = IF walk[p].snap = RootCell THEN m ELSE walk[p].child,
                  !.depth = walk[p].depth + 1]
    BY <1>1, <1>7, <2>1 DEF Descend, Followed, ThreadTypes
  <2>3. PICK w : w = walk[p]
    OBVIOUS
  <2>4. w \in Walks
    BY <1>2, <2>3
  <2>5. /\ walk'[p].entry = w.entry
        /\ walk'[p].snap = IF w.snap = RootCell THEN c ELSE w.snap
        /\ walk'[p].child = IF w.snap = RootCell THEN m ELSE w.child
    BY <2>2, <2>3, <2>4 DEF Walks
  <2>6. c \in SlotCells /\ c # RootCell /\ m \in 1..used
        /\ Value(k, walk[p].cur) = Value(k, m)
    <3>1. walk[p].cur \in Nodes
      BY <1>1, <1>5, UsedFacts
    <3> QED BY <1>1, <2>1, <2>2, <3>1, LeafLevel DEF Here, On
  <2>7. Deep(p)' /\ (Deep(p) => Seen(p)' = Seen(p)) /\ (~Deep(p) => Seen(p)' = m)
    BY <2>3, <2>5, <2>6 DEF Deep, Seen
  <2>8. PICK n : n = Seen(p)'
    OBVIOUS
  <2>9. n \in 1..used /\ Value(k, n) = Sees(p)
    BY <1>5, <2>6, <2>7, <2>8
  <2>10. Sees(p)' = Value(k, n)'
    BY <1>2, <2>8, SeesNext DEF On
  <2>11. ~Claim(p)
    BY <1>1, <2>2 DEF Claim, Goto, ThreadTypes
  <2> QED BY <1>1, <1>2, <1>4, <2>2, <2>3, <2>5, <2>7, <2>9, <2>10, <2>11 DEF On
<1> QED BY <1>6, <1>7

\* A removal that misses sees that the key is not there, a get_or_insert that
\* hits sees that it is.
LEMMA MissSees ==
    ASSUME NEW R, NEW H, Ready(R, H), NEW p \in Threads, NEW k \in Keys, On(p, k),
           RemoveMiss(p) \/ GetExisting(p)
    PROVE  /\ ~IsChild(st[Here(p)])
           /\ RemoveMiss(p) => Sees(p) = Nil
           /\ GetExisting(p) => Sees(p) = inline[Here(p)].val /\ Sees(p) # Nil
<1>1. /\ IInv /\ TypeOK /\ pc[p] = "slot" /\ ~IsChild(st[Here(p)])
      /\ Here(p) \in SlotCells /\ call[p].key = k
  BY HereCell DEF Ready, RemoveMiss, GetExisting, IInv, IsChild, On, TypeOK
<1>2. Sees(p) = ValueAt(Here(p), k)
  BY <1>1, SeesHere
<1>3. st[Here(p)] # "WRITING" => ~ClaimedData(Here(p))
  BY <1>1 DEF ClaimedData, IInv, SlotExclusive
<1>4. ASSUME RemoveMiss(p) PROVE Sees(p) = Nil
  <2>1. st[Here(p)] # "WRITING" /\ (st[Here(p)] = "DATA" => ~SameKey(p))
    BY <1>4 DEF RemoveMiss
  <2>2. st[Here(p)] = "DATA" => inline[Here(p)] # Nil
    BY <1>1 DEF IInv, TreeInv
  <2> QED BY <1>1, <1>2, <1>3, <2>1, <2>2 DEF ValueAt, Holding, SameKey
<1>5. ASSUME GetExisting(p)
      PROVE  Sees(p) = inline[Here(p)].val /\ Sees(p) # Nil
  <2>1. st[Here(p)] = "DATA" /\ SameKey(p)
    BY <1>5 DEF GetExisting
  <2>2. Sees(p) = inline[Here(p)].val
    BY <1>1, <1>2, <2>1 DEF ValueAt, Holding, SameKey
  <2>3. inline[Here(p)] \in Entries
    BY <1>1, <2>1 DEF TypeOK, TreeTypes, SameKey
  <2> QED BY <2>2, <2>3, ConstantsAssumption DEF Entries, Values
<1> QED BY <1>1, <1>4, <1>5

\* Nor does the step of the thread itself lose what is due.
LEMMA QuietDueOwn ==
    ASSUME NEW p \in Threads, NEW R, NEW U, NEW H, NEW G, Moved(p, R, U, H, G),
           Quiet(p), NEW k \in Keys, NEW j \in Places, NEW x,
           IsVersion(U, k, j, x)', DueBy(p, k, j, x)
    PROVE  DueBy(p, k, j, x)'
<1>1. /\ IInv /\ OwnInv /\ TypeOK /\ ThreadTypes /\ TypeOK' /\ Ready(R, H)
      /\ Root \in 1..used /\ Root' = Root
      /\ Live(k)' = Live(k) /\ predict_slot(Root, k)' = predict_slot(Root, k)
      /\ \A q \in Threads \ {p} : pc'[q] = pc[q] /\ rb'[q] = rb[q]
      /\ \A n \in 1..used : Value(k, n)' = Value(k, n)
  BY MovedFacts, QuietFacts DEF Moved
<1>2. On(p, k) /\ Overwrites(p, x) /\ Pending(p, j, x) /\ call[p].key = k
  BY DEF DueBy, On
<1>3. pc[p] = "root" \/ Early(p)
  BY <1>2 DEF Pending, Restarts, Early
<1>4. pc[p] \notin {"idle", "return"}
  BY <1>2, <1>3 DEF Early, On, Rebuilding
<1>5. call'[p] = call[p] /\ pc'[p] # "idle"
  <2>1. Step(p) /\ ~Return(p)
    BY <1>1, <1>4 DEF Moved, Begin, Return
  <2> QED BY <1>1, <2>1, StepCall
<1>6. On(p, k)' /\ Overwrites(p, x)'
  BY <1>2, <1>5 DEF On, Overwrites
<1> SUFFICES Pending(p, j, x)'
  BY <1>6 DEF DueBy
<1>7. j = "live" => x = Live(k)
  BY <1>1 DEF IsVersion
<1>8. j = "sub" => IsChild(st[predict_slot(Root, k)])
                   /\ (ptr[predict_slot(Root, k)].tag = 1 \/ pc'[p] = "rb_scan")
  <2> SUFFICES ASSUME j = "sub"
               PROVE  IsChild(st[predict_slot(Root, k)])
                      /\ (ptr[predict_slot(Root, k)].tag = 1 \/ pc'[p] = "rb_scan")
    OBVIOUS
  <2>1. PICK b \in Threads : Sub(b, k)'
    BY DEF IsVersion
  <2>2. PICK c : c = predict_slot(Root, k)
    OBVIOUS
  <2>3. pc'[b] = "rb_scan" /\ rb'[b].cell = c
    BY <1>1, <2>1, <2>2 DEF Sub
  <2>4. CASE b # p
    <3>1. Sub(b, k)
      BY <1>1, <2>2, <2>3, <2>4 DEF Sub
    <3> QED BY <1>1, <3>1, FrozenFacts
  <2>5. CASE b = p
    <3>1. rb'[p].cell = rb[p].cell /\ Rebuilding(p)
      <4>1. CASE /\ pc[p] = "rb_freeze"
                 /\ rb'[p] = [rb[p] EXCEPT !.todo = ScanOf(rb[p].victim)]
        BY <1>1, <4>1 DEF ThreadTypes, Scans, Rebuilding
      <4>2. CASE ScanStep(p) /\ pc[p] = "rb_scan"
        BY <1>1, <4>2 DEF ScanStep, Scanned, ThreadTypes, Scans, Rebuilding
      <4> QED BY <1>1, <2>3, <2>5, <4>1, <4>2, EnterScan
    <3>2. c # RootCell
      BY <1>1, <2>2, LeafLevel, RootFacts
    <3>3. IsChild(st[rb[p].cell])
      BY <1>1, <2>3, <2>5, <3>1, <3>2 DEF IInv, ThreadInv
    <3> QED BY <2>2, <2>3, <2>5, <3>1, <3>3
  <2> QED BY <2>4, <2>5
<1>9. j = "top" => ptr[RootCell].tag = 1 \/ pc'[p] = "rb_scan"
  <2> SUFFICES ASSUME j = "top"
               PROVE  ptr[RootCell].tag = 1 \/ pc'[p] = "rb_scan"
    OBVIOUS
  <2>1. PICK b \in Threads : Top(b)'
    BY DEF IsVersion
  <2>2. CASE b # p
    <3>1. Top(b)
      BY <1>1, <2>1, <2>2 DEF Top
    <3> QED BY <1>1, <3>1, FrozenFacts
  <2>3. CASE b = p
    BY <2>1, <2>3 DEF Top
  <2> QED BY <2>2, <2>3
<1>10. Restarts(p)' \/ (j = "top" /\ Early(p)') => Pending(p, j, x)'
  BY DEF Pending
<1>11. CASE pc[p] = "root"
  <2>1. pc'[p] = "slot" /\ walk'[p] = WalkFrom(Root)
    BY <1>1, <1>11, QuietAt DEF LoadRoot, Goto, ThreadTypes, Root
  <2>2. walk'[p].entry = Root /\ walk'[p].snap = RootCell
    BY <2>1 DEF WalkFrom, NoWalk
  <2>3. ~Deep(p)' /\ Seen(p)' = Root
    BY <2>2 DEF Deep, Seen
  <2>4. PICK n \in 1..used : n = Root
    BY <1>1
  <2>5. Sees(p)' = Value(k, n)'
    BY <1>2, <1>5, <2>3, <2>4, SeesNext
  <2>6. Sees(p)' = Live(k)
    BY <1>1, <2>4, <2>5 DEF Live
  <2> QED BY <1>7, <2>1, <2>3, <2>6 DEF Pending, Early, Places
<1>12. CASE Early(p) /\ pc[p] # "root" /\ Restarts(p)
  <2>1. walk[p].entry # Root
    BY <1>12 DEF Restarts
  <2>2. Recheck(p) => pc'[p] = "root"
    BY <1>1, <2>1 DEF Recheck, Goto, ThreadTypes, RootValid, Plain, Root
  <2>3. \/ Early(p)' /\ walk'[p].entry = walk[p].entry
        \/ pc'[p] = "root"
    BY <1>2, <1>12, <2>2, EarlyStep
  <2> QED BY <1>1, <1>10, <2>1, <2>3 DEF Restarts
<1>13. CASE Early(p) /\ pc[p] # "root" /\ j = "top"
  <2>1. Recheck(p) => pc'[p] = "root"
    BY <1>1, <1>9, <1>13 DEF Recheck, Goto, ThreadTypes, RootValid, Plain
  <2>2. Early(p)' \/ pc'[p] = "root"
    BY <1>2, <1>13, <2>1, EarlyStep
  <2> QED BY <1>10, <1>13, <2>2 DEF Restarts
<1>14. ASSUME pc[p] = "slot", j # "top", ~Restarts(p), Sees(p) = x \/ (j = "sub" /\ ~Deep(p))
       PROVE  Pending(p, j, x)'
  <2>1. walk[p].entry = Root
    BY <1>14 DEF Restarts, Early
  <2>2. j = "sub" /\ ~Deep(p) => Here(p) = predict_slot(Root, k)
    BY <1>1, <1>2, <1>14, <2>1, WriterFacts
  <2>3. CASE Descend(p) \/ Claim(p)
    <3>1. /\ pc'[p] \in {"slot", "publish"} /\ Sees(p)' = Sees(p)
          /\ Claim(p) => (Deep(p)' <=> Deep(p))
      BY <1>2, <2>3, DescendSees
    <3>2. ~(Descend(p) /\ j = "sub" /\ ~Deep(p))
      BY <1>8, <2>2, <3>1 DEF Descend
    <3> QED BY <1>14, <2>3, <3>1, <3>2 DEF Pending
  <2>4. CASE RemoveMiss(p) \/ GetExisting(p)
    <3>1. /\ ~IsChild(st[Here(p)])
          /\ RemoveMiss(p) => Sees(p) = Nil
          /\ GetExisting(p) => Sees(p) # Nil
      BY <1>1, <1>2, <2>4, MissSees
    <3>2. Sees(p) = x
      BY <1>8, <1>14, <2>2, <3>1
    <3> QED BY <1>2, <2>4, <3>1, <3>2 DEF Overwrites, RemoveMiss, GetExisting
  <2> QED BY <1>1, <1>14, <2>3, <2>4, QuietAt
<1>15. ASSUME pc[p] = "validate", Deep(p), ~Restarts(p),
              j = "sub" \/ (j = "live" /\ ptr[walk[p].snap].node # walk[p].child)
       PROVE  Pending(p, j, x)'
  <2>1. walk[p].entry = Root /\ Validate(p)
    BY <1>1, <1>15, QuietAt DEF Restarts, Early
  <2>2. walk[p].snap = predict_slot(Root, k)
    BY <1>1, <1>2, <1>15, <2>1, WriterFacts
  <2>3. pc'[p] # "rb_scan"
    BY <1>1, <2>1, StartFacts DEF Validate, Goto, ThreadTypes, AfterTrigger
  <2>4. ~SnapshotValid(p)
    BY <1>8, <1>15, <2>2, <2>3 DEF SnapshotValid, Plain, Deep
  <2>5. pc'[p] = "slot" /\ walk'[p] = WalkFrom(Root)
    BY <1>1, <2>1, <2>4 DEF Validate, Goto, ThreadTypes
  <2>6. walk'[p].entry = Root /\ walk'[p].snap = RootCell
    BY <2>5 DEF WalkFrom, NoWalk
  <2>7. ~Deep(p)' /\ Seen(p)' = Root
    BY <2>6 DEF Deep, Seen
  <2>8. PICK n \in 1..used : n = Root
    BY <1>1
  <2>9. Sees(p)' = Value(k, n)'
    BY <1>2, <1>5, <2>7, <2>8, SeesNext
  <2>10. Sees(p)' = Live(k)
    BY <1>1, <2>8, <2>9 DEF Live
  <2> QED BY <1>7, <1>15, <2>5, <2>7, <2>10 DEF Pending
<1>16. pc[p] # "publish"
  BY <1>1, QuietAt
<1> QED BY <1>2, <1>3, <1>11, <1>12, <1>13, <1>14, <1>15, <1>16 DEF Pending

\* The values quiet steps leave in the map and in snapshots are covered as
\* they were.
LEMMA QuietDue ==
    ASSUME NEW p \in Threads, NEW R, NEW U, NEW H, NEW G, Moved(p, R, U, H, G),
           Quiet(p), NEW k \in Keys, NEW j \in Places, NEW x, IsVersion(U, k, j, x)'
    PROVE  \E i \in {j, "live"} : IsVersion(R, k, i, x) /\ (Due(k, i, x) => Due(k, j, x)')
<1>1. PICK i \in {j, "live"} : IsVersion(R, k, i, x)
  BY QuietVersion
<1>2. ASSUME Due(k, i, x)
      PROVE  Due(k, j, x)'
  <2>1. Due(k, j, x)
    BY <1>1, <1>2, DueLater DEF Places
  <2>2. PICK q \in Threads : DueBy(q, k, j, x)
    BY <2>1 DEF Due
  <2>3. DueBy(q, k, j, x)'
    BY <2>2, QuietDueOther, QuietDueOwn
  <2> QED BY <2>3 DEF Due
<1> QED BY <1>1, <1>2
-----------------------------------------------------------------------------
(***************************************************************************)
(* Steps that write an entry.                                              *)
(***************************************************************************)
\* What a write leaves as it is.
LEMMA WriteFacts ==
    ASSUME NEW p \in Threads, NEW R, NEW U, NEW H, NEW G, Moved(p, R, U, H, G),
           Write(p)
    PROVE  /\ pc[p] \in {"slot", "publish"} /\ pc'[p] = "validate"
           /\ walk' = walk /\ call' = call /\ rb' = rb
           /\ \E k \in Keys : On(p, k) /\ k = call[p].key
           /\ Put(p) \in Effect(p, call[p].key)
           /\ Here(p) \in SlotCells /\ ~IsChild(st[Here(p)])
           /\ \A c \in Cells : c # Here(p) => ptr'[c] = ptr[c]
           /\ Root' = Root
           /\ \A k \in Keys : predict_slot(Root, k)' = predict_slot(Root, k)
           /\ \A k \in Keys : \A n \in 1..used :
                Value(k, n)' = IF Hits(p, k, n) THEN Put(p) ELSE Value(k, n)
<1>1. /\ IInv /\ OwnInv /\ IInv' /\ OwnInv' /\ TypeOK /\ ThreadTypes /\ TypeOK'
      /\ TreeStep(p) /\ Grows /\ Frame(p) /\ Stages(p) /\ Root \in 1..used
      /\ \A n \in 1..used : model'[n] = model[n]
  BY MovedFacts DEF Moved, Ready
<1>2. /\ pc[p] \in {"slot", "publish"} /\ pc'[p] = "validate"
      /\ walk' = walk /\ call' = call /\ rb' = rb
      /\ pc[p] = "slot" => call[p].op = "remove"
  BY <1>1 DEF Write, PublishInline, PublishChild, RemoveHit, Goto, ThreadTypes
<1>3. pc[p] = "publish" => call[p].op \in {"insert", "get_or_insert"}
  BY <1>1 DEF Stages
<1>4. call[p].op \in Writers /\ call[p].key \in Keys
  BY <1>1, <1>2, <1>3 DEF Writers, ThreadTypes, Calls
<1>5. \E k \in Keys : On(p, k) /\ k = call[p].key
  BY <1>2, <1>4 DEF On
<1>6. Put(p) \in Effect(p, call[p].key)
  BY <1>2, <1>3, <1>4 DEF Put, Effect, Active, EffectOf, Writers
<1>7. Here(p) \in SlotCells /\ Here(p) # RootCell
  BY <1>1, HereCell, CellFacts DEF TypeOK
<1>8. ~IsChild(st[Here(p)])
  <2>1. pc[p] = "publish" => st[Here(p)] = "WRITING"
    BY <1>1 DEF IInv, SlotExclusive
  <2>2. pc[p] = "slot" => st[Here(p)] = "DATA"
    BY DEF Write, PublishInline, PublishChild, RemoveHit
  <2> QED BY <1>2, <2>1, <2>2 DEF IsChild
<1>9. \A c \in Cells : c # Here(p) => ptr'[c] = ptr[c]
  BY <1>1 DEF Write, PublishInline, PublishChild, RemoveHit, TypeOK, TreeTypes
<1>10. Root' = Root
  BY <1>7, <1>9, CellFacts DEF Root
<1>11. \A k \in Keys : predict_slot(Root, k)' = predict_slot(Root, k)
  BY <1>1, <1>10 DEF predict_slot
<1>12. pc[p] = "publish" => call[p].op # "remove"
  BY <1>3
<1>13. \A k \in Keys : \A n \in 1..used :
                Value(k, n)' = IF Hits(p, k, n) THEN Put(p) ELSE Value(k, n)
  BY <1>1, <1>12, WriteValues
<1> QED BY <1>2, <1>5, <1>6, <1>7, <1>8, <1>9, <1>10, <1>11, <1>13

\* A write replaces only what its call is meant to replace.
LEMMA WriteOld ==
    ASSUME NEW p \in Threads, NEW R, NEW U, NEW H, NEW G, Moved(p, R, U, H, G),
           Write(p), NEW k \in Keys, NEW n \in 1..used, Hits(p, k, n)
    PROVE  Overwrites(p, Value(k, n))
<1>1. /\ IInv /\ OwnInv /\ TypeOK /\ Stages(p) /\ k = call[p].key
      /\ Leaf(k)[n] = walk[p].cur
  BY MovedFacts DEF Moved, Ready, Hits
<1>2. PICK c : c = Here(p)
  OBVIOUS
<1>3. Value(k, n) = ValueAt(c, k) /\ c \in SlotCells
  BY <1>1, <1>2, WriteFacts DEF Value, Here
<1>4. CASE call[p].op = "insert"
  BY <1>4 DEF Overwrites
<1>5. CASE RemoveHit(p)
  <2>1. st[c] = "DATA" /\ SameKey(p) /\ call[p].op = "remove"
    BY <1>2, <1>5 DEF RemoveHit
  <2>2. ValueAt(c, k) = inline[c].val
    BY <1>1, <1>2, <2>1 DEF ValueAt, Holding, SameKey
  <2>3. inline[c] \in Entries
    BY <1>1, <1>2, <1>3, <2>1 DEF TypeOK, TreeTypes, SameKey
  <2>4. inline[c].val # Nil
    BY <2>3, ConstantsAssumption DEF Entries, Values
  <2> QED BY <1>3, <2>1, <2>2, <2>4 DEF Overwrites
<1>6. CASE call[p].op = "get_or_insert" /\ pc[p] = "publish"
  <2>1. st[c] = "WRITING" /\ ~IsUpdate(p)
    BY <1>1, <1>2, <1>6 DEF IInv, SlotExclusive, Stages
  <2>2. ASSUME Holding(c) PROVE walk[p].from = "DATA"
    <3>1. PICK r \in Threads : pc[r] = "publish" /\ Here(r) = c /\ walk[r].from = "DATA"
      BY <2>1, <2>2 DEF Holding, ClaimedData
    <3>2. r = p
      BY <1>1, <1>2, <1>6, <3>1 DEF IInv, SlotExclusive
    <3> QED BY <3>1, <3>2
  <2>3. Holding(c) => inline[c].key # k
    BY <1>1, <1>2, <1>6, <2>1, <2>2 DEF IInv, ThreadInv, IsUpdate, SameKey
  <2> QED BY <1>3, <1>6, <2>3 DEF ValueAt, Overwrites
<1>7. pc[p] = "publish" => call[p].op \in {"insert", "get_or_insert"}
  BY <1>1 DEF Stages
<1> QED BY <1>4, <1>5, <1>6, <1>7 DEF Write, PublishInline, PublishChild

\* The versions of a key after a write.
LEMMA WriteVersion ==
    ASSUME NEW p \in Threads, NEW R, NEW U, NEW H, NEW G, Moved(p, R, U, H, G),
           Write(p), NEW k \in Keys, NEW j \in Places, NEW x, IsVersion(U, k, j, x)'
    PROVE  IsVersion(R, k, j, x) \/ (On(p, k) /\ x = Put(p))
<1>1. /\ Root \in 1..used /\ Root' = Root
      /\ predict_slot(Root, k)' = predict_slot(Root, k)
      /\ rb' = rb /\ pc'[p] = "validate"
      /\ \A q \in Threads \ {p} : pc'[q] = pc[q]
      /\ \A n \in 1..used :
           Value(k, n)' = IF Hits(p, k, n) THEN Put(p) ELSE Value(k, n)
  BY MovedFacts, WriteFacts
<1>2. \A n : Hits(p, k, n) => On(p, k)
  BY WriteFacts DEF Hits
<1>3. ASSUME NEW b \in Threads, pc[b] = "rb_scan", Snap(U, b, k, x)'
      PROVE  Snap(R, b, k, x) \/ (On(p, k) /\ x = Put(p))
  <2>1. PICK W : W = {y \in {Put(p)} : On(p, k)}
    OBVIOUS
  <2>2. \A n \in 1..used : Value(k, n)' = Value(k, n) \/ Value(k, n)' \in W
    BY <1>1, <1>2, <2>1
  <2>3. Snap(R, b, k, x) \/ x \in W
    BY <1>1, <1>3, <2>2, SnapMoved
  <2> QED BY <2>1, <2>3
<1>4. CASE j = "live"
  <2>1. PICK n \in 1..used : n = Root
    BY <1>1
  <2>2. x = Value(k, n)'
    BY <1>1, <1>4, <2>1, LiveNext DEF IsVersion
  <2> QED BY <1>1, <1>2, <1>4, <2>1, <2>2 DEF IsVersion, Live
<1>5. CASE j = "sub"
  <2>1. PICK b \in Threads : Sub(b, k)' /\ Snap(U, b, k, x)'
    BY <1>5 DEF IsVersion
  <2>2. b # p /\ Sub(b, k)
    BY <1>1, <2>1 DEF Sub
  <2> QED BY <1>3, <1>5, <2>1, <2>2 DEF IsVersion, Sub
<1>6. CASE j = "top"
  <2>1. PICK b \in Threads : Top(b)' /\ Snap(U, b, k, x)'
    BY <1>6 DEF IsVersion
  <2>2. b # p /\ Top(b)
    BY <1>1, <2>1 DEF Top
  <2> QED BY <1>3, <1>6, <2>1, <2>2 DEF IsVersion, Top
<1> QED BY <1>4, <1>5, <1>6 DEF Places

\* A version of its key that a call is meant to replace, but that its write has
\* not reached, will make it write again.
LEMMA WriteAgain ==
    ASSUME NEW p \in Threads, NEW R, NEW U, NEW H, NEW G, Moved(p, R, U, H, G),
           Write(p), NEW k \in Keys, On(p, k), NEW j \in Places, NEW x,
           IsVersion(U, k, j, x)', x # Put(p), Overwrites(p, x)
    PROVE  DueBy(p, k, j, x)'
<1>1. /\ IInv /\ OwnInv /\ Ready(R, H) /\ Root \in 1..used /\ Root' = Root
      /\ pc'[p] = "validate" /\ walk' = walk /\ call' = call
      /\ ~IsChild(st[Here(p)]) /\ call[p].key = k
      /\ predict_slot(Root, k)' = predict_slot(Root, k)
      /\ \A c \in Cells : c # Here(p) => ptr'[c] = ptr[c]
      /\ \A n \in 1..used :
           Value(k, n)' = IF Hits(p, k, n) THEN Put(p) ELSE Value(k, n)
  BY MovedFacts, WriteFacts DEF Moved, On
<1>2. On(p, k)' /\ Overwrites(p, x)' /\ Early(p)' /\ (Deep(p)' <=> Deep(p))
  BY <1>1 DEF On, Overwrites, Early, Deep
<1>3. pc[p] # "root"
  BY WriteFacts
<1> SUFFICES ASSUME walk[p].entry = Root PROVE Pending(p, j, x)'
  BY <1>1, <1>2 DEF DueBy, Pending, Restarts
<1>4. /\ Leaf(k)[Seen(p)] = walk[p].cur
      /\ ~Deep(p) => Seen(p) = Root /\ Here(p) = predict_slot(Root, k)
      /\ Deep(p) => /\ walk[p].snap = predict_slot(Root, k)
                    /\ walk[p].snap \in SlotCells /\ IsChild(st[walk[p].snap])
                    /\ Seen(p) = walk[p].child
  BY <1>1, <1>3, WriterFacts, SeesHere
<1>5. j = "live" => ~Hits(p, k, Root)
  <2> SUFFICES ASSUME j = "live", Hits(p, k, Root) PROVE FALSE
    OBVIOUS
  <2>1. PICK n \in 1..used : n = Root
    BY <1>1
  <2>2. x = Value(k, n)'
    BY <1>1, <2>1, LiveNext DEF IsVersion
  <2> QED BY <1>1, <2>1, <2>2
<1>6. j = "sub" => IsChild(st[predict_slot(Root, k)])
  <2> SUFFICES ASSUME j = "sub" PROVE IsChild(st[predict_slot(Root, k)])
    OBVIOUS
  <2>1. PICK b \in Threads : Sub(b, k)'
    BY DEF IsVersion
  <2>2. b # p /\ Sub(b, k)
    BY <1>1, <2>1, MovedFacts DEF Sub
  <2> QED BY <1>1, <2>2, FrozenFacts
<1>7. CASE ~Deep(p)
  BY <1>1, <1>2, <1>4, <1>5, <1>6, <1>7 DEF Pending, Places, Hits
<1>8. CASE Deep(p)
  <2>1. ASSUME j = "live"
        PROVE  ptr'[walk[p].snap].node # walk[p].child
    <3>1. ptr'[walk[p].snap].node = ptr[walk[p].snap].node
      BY <1>1, <1>4, <1>8, CellFacts
    <3>2. Root \in Nodes
      BY <1>1, RootFacts
    <3>3. Leaf(k)[Root] = Leaf(k)[ptr[walk[p].snap].node]
      BY <1>1, <1>4, <1>8, <3>2, LeafLevel
    <3>4. Leaf(k)[Root] # walk[p].cur
      BY <1>1, <1>5, <2>1 DEF Hits
    <3> QED BY <1>4, <1>8, <3>1, <3>3, <3>4
  <2> QED BY <1>1, <1>2, <1>8, <2>1 DEF Pending, Places
<1> QED BY <1>7, <1>8

\* Calls that see what the write has not touched are due as before.
LEMMA WriteDue ==
    ASSUME NEW p \in Threads, NEW R, NEW U, NEW H, NEW G, Moved(p, R, U, H, G),
           Write(p), NEW k \in Keys, NEW j \in Places, NEW x,
           On(p, k) => ~Overwrites(p, x), Due(k, j, x)
    PROVE  Due(k, j, x)'
<1>1. PICK q \in Threads : DueBy(q, k, j, x)
  BY DEF Due
<1>2. On(q, k) /\ Overwrites(q, x) /\ q # p /\ call[q].key = k
  BY <1>1 DEF DueBy, On
<1>3. /\ Ready(R, H) /\ Root' = Root /\ walk'[q] = walk[q] /\ pc'[q] = pc[q]
      /\ call'[q] = call[q] /\ ~IsChild(st[Here(p)])
      /\ \A c \in Cells : c # Here(p) => ptr'[c] = ptr[c]
      /\ \A n \in 1..used :
           Value(k, n)' = IF Hits(p, k, n) THEN Put(p) ELSE Value(k, n)
  BY <1>2, MovedFacts, WriteFacts DEF Moved
<1>4. /\ On(q, k)' /\ Overwrites(q, x)'
      /\ Early(q)' <=> Early(q)
      /\ Deep(q)' <=> Deep(q)
      /\ Seen(q)' = Seen(q)
  BY <1>2, OthersDue
<1>5. Restarts(q)' <=> Restarts(q)
  BY <1>3, <1>4 DEF Restarts
<1>6. pc[q] # "root" /\ Sees(q) = x => Sees(q)' = Sees(q)
  <2> SUFFICES ASSUME pc[q] # "root", Sees(q) = x PROVE Sees(q)' = Sees(q)
    OBVIOUS
  <2>1. PICK n : n = Seen(q)
    OBVIOUS
  <2>2. n \in 1..used /\ Sees(q) = Value(k, n)
    BY <1>2, <1>3, <2>1, WriterFacts
  <2>3. Sees(q)' = Value(k, n)'
    BY <1>2, <1>3, <1>4, <2>1, SeesNext
  <2>4. ~Hits(p, k, n)
    <3> SUFFICES ASSUME Hits(p, k, n) PROVE FALSE
      OBVIOUS
    <3>1. Overwrites(p, x)
      BY <2>2, WriteOld
    <3>2. On(p, k)
      BY WriteFacts DEF Hits
    <3> QED BY <3>1, <3>2
  <2> QED BY <1>3, <2>2, <2>3, <2>4
<1>7. pc[q] # "root" /\ Deep(q) => ptr'[walk[q].snap] = ptr[walk[q].snap]
  <2> SUFFICES ASSUME pc[q] # "root", Deep(q)
               PROVE  ptr'[walk[q].snap] = ptr[walk[q].snap]
    OBVIOUS
  <2>1. walk[q].snap \in Cells /\ walk[q].snap # Here(p)
    BY <1>2, <1>3, WriterFacts, CellFacts
  <2> QED BY <1>3, <2>1
<1>8. Pending(q, j, x)'
  BY <1>1, <1>3, <1>4, <1>5, <1>6, <1>7 DEF DueBy, Pending
<1> QED BY <1>4, <1>8 DEF Due, DueBy

\* Versions after a write that nobody will write over: it wrote them, or they
\* were versions that nobody would write over.
LEMMA WriteCover ==
    ASSUME NEW p \in Threads, NEW R, NEW U, NEW H, NEW G, Moved(p, R, U, H, G),
           Write(p), NEW k \in Keys, NEW j \in Places, NEW x,
           IsVersion(U, k, j, x)', ~Due(k, j, x)'
    PROVE  \/ /\ IsVersion(R, k, j, x) /\ ~Due(k, j, x)
              /\ On(p, k) => ~Overwrites(p, x)
           \/ On(p, k) /\ x = Put(p)
<1> SUFFICES ASSUME ~(On(p, k) /\ x = Put(p))
             PROVE  /\ IsVersion(R, k, j, x) /\ ~Due(k, j, x)
                    /\ On(p, k) => ~Overwrites(p, x)
  OBVIOUS
<1>1. IsVersion(R, k, j, x)
  BY WriteVersion
<1>2. On(p, k) => ~Overwrites(p, x)
  BY WriteAgain DEF Due
<1> QED BY <1>1, <1>2, WriteDue
-----------------------------------------------------------------------------
(***************************************************************************)
(* Steps that put a new node in place, or drop a snapshot.                 *)
(***************************************************************************)
\* A swap always succeeds.
LEMMA SwapBase ==
    ASSUME NEW p \in Threads, NEW R, NEW U, NEW H, NEW G, Moved(p, R, U, H, G),
           Swap(p)
    PROVE  /\ pc[p] = "rb_scan" /\ rb[p].kind # "none"
           /\ rb[p].cell \in Cells /\ rb[p].todo = <<>>
           /\ ptr[rb[p].cell] = Frozen(rb[p].victim)
           /\ ptr'[rb[p].cell] = Plain(Fresh) /\ Fresh \notin 1..used
           /\ \A c \in Cells : c[1] <= used /\ c # rb[p].cell => ptr'[c] = ptr[c]
           /\ rb[p].cell # RootCell => Root' = Root
           /\ UNCHANGED <<walk, call, rb>>
           /\ rb[p].cell = RootCell <=> rb[p].kind # "subtree"
           /\ rb[p].cell = RootCell => pc'[p] = "rb_post"
           /\ rb[p].cell # RootCell => pc'[p] = AfterTrigger(p)
           /\ rb[p].cell = RootCell /\ rb[p].kind # "rebuild" =>
                rb[p].kind \in {"clear", "drain"} /\ call[p].op \in {"clear", "drain"}
                /\ changed'[p]
           /\ \A k \in Keys : \A n \in 1..used :
                predict_slot(n, k) = rb[p].cell <=>
                  rb[p].cell # RootCell /\ n = rb[p].cell[1]
                  /\ predict_slot(rb[p].cell[1], k) = rb[p].cell
<1>1. /\ IInv /\ OwnInv /\ TypeOK /\ ThreadTypes /\ Stages(p) /\ ScanHomes(R, H, p)
      /\ Fresh = used + 1 /\ used \in 1..MaxNodes /\ MaxNodes \in Nat
  BY MovedFacts DEF Moved, Ready, Homed
<1>2. pc[p] = "rb_scan" /\ rb[p].todo = <<>> /\ UNCHANGED <<walk, call, rb>>
  BY DEF Swap
<1>3. rb[p].kind # "none"
  BY <1>1, <1>2 DEF Stages, Rebuilding, Sweepers
<1>4. /\ rb[p].cell \in Cells
      /\ ptr[rb[p].cell] = Frozen(rb[p].victim)
      /\ ptr'[rb[p].cell] = Plain(Fresh)
      /\ \A c \in Cells : c[1] <= used /\ c # rb[p].cell => ptr'[c] = ptr[c]
  BY <1>1, SwapFacts
<1>5. rb[p].cell = RootCell <=> rb[p].kind # "subtree"
  BY <1>1, <1>2 DEF ScanHomes, Rebuilding
<1>6. /\ pc'[p] = IF rb[p].kind # "subtree" THEN "rb_post" ELSE Caller(p)
      /\ rb[p].kind \in {"clear", "drain"} => changed'[p]
  BY <1>1, <1>4 DEF Swap, Goto, ThreadTypes
<1>7. /\ rb[p].cell = RootCell => pc'[p] = "rb_post"
      /\ rb[p].cell # RootCell => pc'[p] = AfterTrigger(p)
  BY <1>5, <1>6 DEF Caller
<1>8. rb[p].cell = RootCell /\ rb[p].kind # "rebuild" =>
        rb[p].kind \in {"clear", "drain"} /\ call[p].op \in {"clear", "drain"}
        /\ changed'[p]
  BY <1>1, <1>2, <1>5, <1>6 DEF Stages, Rebuilding, Sweepers
<1>9. Fresh \notin 1..used
  BY <1>1
<1>10. ASSUME NEW k \in Keys, NEW n \in 1..used
       PROVE  predict_slot(n, k) = rb[p].cell <=>
                rb[p].cell # RootCell /\ n = rb[p].cell[1]
                /\ predict_slot(rb[p].cell[1], k) = rb[p].cell
  <2>1. predict_slot(n, k) # RootCell /\ predict_slot(n, k)[1] = n
    BY <1>1 DEF predict_slot, RootCell
  <2> QED BY <2>1
<1>11. rb[p].cell # RootCell => Root' = Root
  BY <1>1, <1>4, CellFacts, CellUsed DEF IInv, Root
<1> QED BY <1>2, <1>3, <1>4, <1>5, <1>7, <1>8, <1>9, <1>10, <1>11

\* What walks find after a swap: the replacement for the keys of its slot.
LEMMA SwapKeys ==
    ASSUME NEW p \in Threads, NEW R, NEW U, NEW H, NEW G, Moved(p, R, U, H, G),
           Swap(p), NEW k \in Keys, NEW x, x = Fresh
    PROVE  /\ rb[p].kind \in {"subtree", "rebuild"} => Snap(R, p, k, Value(k, x)')
           /\ rb[p].kind \in {"clear", "drain"} => Value(k, x)' = Nil
           /\ \A n \in 1..used :
                Value(k, n)' = IF predict_slot(n, k) = rb[p].cell
                               THEN Value(k, x)' ELSE Value(k, n)
<1>1. /\ IInv /\ OwnInv /\ IInv' /\ OwnInv' /\ TypeOK' /\ TypeOK
      /\ TreeStep(p) /\ Grows /\ Frame(p) /\ Homed(R, H)
  BY MovedFacts DEF Moved, Ready
<1>2. rb[p].kind # "none" /\ rb[p].todo = <<>> /\ pc[p] = "rb_scan"
  BY SwapBase
<1>3. rb[p].cell # RootCell => \A c \in SlotCells : ptr[c].node # rb[p].cell[1]
  BY <1>1, <1>2, NoParent DEF Rebuilding
<1>4. /\ \/ Value(k, x)' = Nil /\ \A e \in NewEntries(p) : e.key # k
         \/ \E e \in NewEntries(p) : e.key = k /\ Value(k, x)' = e.val
      /\ \A n \in 1..used :
           Value(k, n)' = IF predict_slot(n, k) = rb[p].cell
                          THEN Value(k, x)' ELSE Value(k, n)
  BY <1>1, <1>2, <1>3, SwapValues
<1>5. rb[p].kind \in {"clear", "drain"} => Value(k, x)' = Nil
  BY <1>4 DEF NewEntries
<1>6. ASSUME rb[p].kind \in {"subtree", "rebuild"}
      PROVE  Snap(R, p, k, Value(k, x)')
  <2>1. PICK y : y = Value(k, x)'
    OBVIOUS
  <2>2. NewEntries(p) = rb[p].pairs
    BY <1>6 DEF NewEntries
  <2>3. Len(rb[p].todo) = 0
    BY <1>2
  <2>4. Snap(R, p, k, y)
    BY <1>4, <2>1, <2>2, <2>3 DEF Snap
  <2> QED BY <2>1, <2>4
<1> QED BY <1>4, <1>5, <1>6

\* The versions of a key after a subtree has been replaced: those it had, and in
\* the place of the subtree the snapshot of it.
LEMMA SubtreeVersion ==
    ASSUME NEW p \in Threads, NEW R, NEW U, NEW H, NEW G, Moved(p, R, U, H, G),
           Swap(p), rb[p].cell # RootCell, NEW k \in Keys, NEW j \in Places, NEW x,
           IsVersion(U, k, j, x)'
    PROVE  \/ IsVersion(R, k, j, x) /\ (j = "live" => ~Sub(p, k)) /\ ~(j = "sub" /\ Sub(p, k))
           \/ Sub(p, k) /\ x = Live(k)' /\ IsVersion(R, k, "sub", x) /\ j # "sub"
<1>1. /\ IInv /\ OwnInv /\ TypeOK /\ ThreadTypes /\ Ready(R, H) /\ Homed(R, H)
      /\ Root \in 1..used /\ Fresh = used + 1
      /\ \A n \in 1..used : n \in Nodes /\ model'[n] = model[n]
      /\ \A q \in Threads \ {p} : pc'[q] = pc[q] /\ rb'[q] = rb[q]
  BY MovedFacts DEF Moved, Ready
<1>2. PICK c, w : c = rb[p].cell /\ w = Fresh
  OBVIOUS
<1>3. PICK y : y = Value(k, w)'
  OBVIOUS
<1>4. /\ pc[p] = "rb_scan" /\ pc'[p] # "rb_scan" /\ UNCHANGED rb
      /\ Root' = Root /\ c \in SlotCells /\ c[1] \in 1..used
      /\ rb[p].kind = "subtree"
      /\ \A n \in 1..used : predict_slot(n, k) = c <=>
                              n = c[1] /\ predict_slot(c[1], k) = c
  BY <1>1, <1>2, SwapBase, ScanFacts DEF AfterTrigger
<1>5. /\ Snap(R, p, k, y)
      /\ \A n \in 1..used :
           Value(k, n)' = IF predict_slot(n, k) = c THEN y ELSE Value(k, n)
  BY <1>2, <1>3, <1>4, SwapKeys
<1>6. Root' = Root /\ predict_slot(Root, k)' = predict_slot(Root, k)
  BY <1>1, <1>4 DEF predict_slot
<1>7. Sub(p, k) <=> predict_slot(Root, k) = c
  BY <1>2, <1>4 DEF Sub
<1>8. Live(k)' = IF Sub(p, k) THEN y ELSE Live(k)
  <2>1. PICK n \in 1..used : n = Root
    BY <1>1
  <2>2. Live(k)' = Value(k, n)'
    BY <1>6, <2>1, LiveNext
  <2> QED BY <1>5, <1>7, <2>1, <2>2 DEF Live
<1>9. Sub(p, k) => IsVersion(R, k, "sub", y)
  BY <1>5 DEF IsVersion
<1>10. CASE j = "live"
  BY <1>8, <1>9, <1>10 DEF IsVersion
<1>11. CASE j = "sub"
  <2>1. PICK b \in Threads : Sub(b, k)' /\ Snap(U, b, k, x)'
    BY <1>11 DEF IsVersion
  <2>2. b # p /\ pc[b] = "rb_scan" /\ rb'[b] = rb[b] /\ Sub(b, k)
    BY <1>1, <1>4, <1>6, <2>1 DEF Sub
  <2>3. ~Sub(p, k) /\ rb[b].cell # RootCell
    <3>1. rb[b].cell # c
      BY <1>1, <1>2, <1>4, <2>2 DEF IInv, FreezeExclusive, Freezing
    <3> QED BY <1>1, <1>7, <2>2, <3>1, SubFacts DEF Sub
  <2>4. H[c[1]] = 0 /\ H[rb[b].victim] # 0
    <3>1. H[c[1]] = 0
      BY <1>1, <1>2, <1>4 DEF Homed, ScanHomes, Rebuilding
    <3>2. /\ rb[b].cell \in SlotCells /\ ptr[rb[b].cell].node = rb[b].victim
          /\ rb[b].victim # Nil
      BY <1>1, <2>2, <2>3, ScanFacts
    <3> QED BY <1>1, <3>1, <3>2, ChildHome DEF Homed
  <2>5. ASSUME NEW d \in SlotCells, d[1] \in 1..used,
               \E i \in 1..Len(rb[b].todo) : d = rb[b].todo[i]
        PROVE  Value(k, d[1])' = Value(k, d[1])
    <3>1. H[d[1]] # 0
      BY <1>1, <2>2, <2>4, <2>5 DEF Homed, ScanHomes
    <3> QED BY <1>4, <1>5, <2>4, <2>5, <3>1
  <2>6. Snap(R, b, k, x)
    BY <2>1, <2>2, <2>5, SnapKept
  <2> QED BY <1>11, <2>2, <2>3, <2>6 DEF IsVersion
<1>12. CASE j = "top"
  <2>1. PICK b \in Threads : Top(b)' /\ Snap(U, b, k, x)'
    BY <1>12 DEF IsVersion
  <2>2. b # p /\ pc[b] = "rb_scan" /\ rb'[b] = rb[b] /\ Top(b)
    BY <1>1, <1>4, <2>1 DEF Top
  <2>3. rb[b].victim = Root
    BY <1>1, <2>2, FrozenFacts DEF Root
  <2>4. H[c[1]] = 0
    BY <1>1, <1>2, <1>4 DEF Homed, ScanHomes, Rebuilding
  <2>5. PICK W : W = {z \in {y} : Sub(p, k)}
    OBVIOUS
  <2>6. ASSUME NEW d \in SlotCells, d[1] \in 1..used,
               \E i \in 1..Len(rb[b].todo) : d = rb[b].todo[i]
        PROVE  Value(k, d[1])' = Value(k, d[1]) \/ Value(k, d[1])' \in W
    <3>1. H[d[1]] # 0 \/ d[1] = Root
      BY <1>1, <2>2, <2>3, <2>6 DEF Homed, ScanHomes
    <3> QED BY <1>4, <1>5, <1>7, <2>4, <2>5, <2>6, <3>1
  <2>7. Snap(R, b, k, x) \/ x \in W
    BY <2>1, <2>2, <2>6, SnapMoved
  <2> QED BY <1>8, <1>9, <1>12, <2>2, <2>5, <2>7 DEF IsVersion
<1> QED BY <1>10, <1>11, <1>12 DEF Places

\* What was due for the subtree's snapshot is due for the subtree.
LEMMA SubtreeDue ==
    ASSUME NEW p \in Threads, NEW R, NEW U, NEW H, NEW G, Moved(p, R, U, H, G),
           Swap(p), rb[p].cell # RootCell, NEW k \in Keys, NEW j \in Places, NEW x,
           IsVersion(U, k, j, x)', NEW i \in Places,
           i = j \/ (i = "sub" /\ Sub(p, k) /\ x = Live(k)'), Due(k, i, x)
    PROVE  Due(k, j, x)'
<1>1. /\ IInv /\ OwnInv /\ TypeOK /\ ThreadTypes /\ Ready(R, H) /\ Homed(R, H)
      /\ Root \in 1..used /\ Fresh = used + 1
      /\ \A n \in 1..used : n \in Nodes /\ model'[n] = model[n]
  BY MovedFacts DEF Moved, Ready
<1>2. PICK c, w : c = rb[p].cell /\ w = Fresh
  OBVIOUS
<1>3. PICK y : y = Value(k, w)'
  OBVIOUS
<1>4. /\ pc[p] = "rb_scan" /\ pc'[p] \in {"own", "recheck"} /\ UNCHANGED <<walk, call>>
      /\ ptr'[c] = Plain(w) /\ c \in SlotCells /\ c[1] \in 1..used
      /\ \A d \in Cells : d[1] <= used /\ d # c => ptr'[d] = ptr[d]
      /\ Root' = Root /\ rb[p].kind = "subtree" /\ w \notin 1..used
      /\ \A n \in 1..used : predict_slot(n, k) = c <=>
                              n = c[1] /\ predict_slot(c[1], k) = c
  BY <1>1, <1>2, SwapBase, ScanFacts DEF AfterTrigger
<1>5. \A n \in 1..used :
           Value(k, n)' = IF predict_slot(n, k) = c THEN y ELSE Value(k, n)
  BY <1>2, <1>3, SwapKeys
<1>6. Root' = Root
  BY <1>4
<1>7. Sub(p, k) <=> predict_slot(Root, k) = c
  BY <1>2, <1>4 DEF Sub
<1>8. Live(k)' = IF Sub(p, k) THEN y ELSE Live(k)
  <2>1. PICK n \in 1..used : n = Root
    BY <1>1
  <2>2. Live(k)' = Value(k, n)'
    BY <1>6, <2>1, LiveNext
  <2> QED BY <1>5, <1>7, <2>1, <2>2 DEF Live
<1>9. H[c[1]] = 0
  BY <1>1, <1>2, <1>4 DEF Homed, ScanHomes, Rebuilding
<1>10. j = "live" => x = Live(k)'
  BY DEF IsVersion
<1>11. PICK q \in Threads : DueBy(q, k, i, x)
  BY DEF Due
<1>12. On(q, k) /\ Overwrites(q, x) /\ call[q].key = k /\ Pending(q, i, x)
  BY <1>11 DEF DueBy, On
<1>13. CASE q = p
  <2>1. Early(p)' /\ On(p, k)' /\ Overwrites(p, x)'
    BY <1>4, <1>12, <1>13 DEF On, Overwrites, Early
  <2>2. Restarts(p) \/ i = "top"
    BY <1>4, <1>12, <1>13 DEF Pending
  <2>3. Restarts(p) => Restarts(p)'
    BY <1>4, <1>6, <2>1 DEF Restarts
  <2>4. Pending(p, j, x)'
    BY <2>1, <2>2, <2>3 DEF Pending
  <2> QED BY <2>1, <2>4 DEF Due, DueBy
<1>14. CASE q # p
  <2>1. /\ On(q, k)' /\ Overwrites(q, x)'
        /\ Early(q)' <=> Early(q)
        /\ Deep(q)' <=> Deep(q)
        /\ Seen(q)' = Seen(q)
    BY <1>12, <1>14, OthersDue
  <2>2. walk'[q] = walk[q] /\ call'[q] = call[q] /\ pc'[q] = pc[q]
    BY <1>14, MovedFacts
  <2>3. Restarts(q)' <=> Restarts(q)
    BY <1>6, <2>1, <2>2 DEF Restarts
  <2> SUFFICES ASSUME ~Restarts(q) PROVE Pending(q, j, x)'
    BY <2>1, <2>3 DEF Due, DueBy, Pending
  <2>4. pc[q] # "root" /\ (Early(q) => walk[q].entry = Root)
    BY DEF Restarts
  <2>5. CASE j = "top"
    <3>1. Early(q)
      BY <1>12, <2>5 DEF Pending, Early
    <3> QED BY <2>1, <2>5, <3>1 DEF Pending
  <2>6. CASE j # "top"
    <3>1. Early(q) /\ walk[q].entry = Root
      BY <1>12, <2>4, <2>6 DEF Pending, Early
    <3>2. /\ Seen(q) \in 1..used /\ Sees(q) = Value(k, Seen(q))
          /\ ~Deep(q) => Seen(q) = Root
          /\ Deep(q) => /\ walk[q].snap = predict_slot(Root, k)
                        /\ walk[q].snap \in SlotCells
                        /\ walk[q].child \in 1..used /\ Seen(q) = walk[q].child
                        /\ H[walk[q].child] # 0
      BY <1>1, <1>12, <2>4, <3>1, WriterFacts
    <3>3. PICK n : n = Seen(q)
      OBVIOUS
    <3>4. Sees(q)' = Value(k, n)' /\ n \in 1..used /\ Sees(q) = Value(k, n)
      BY <1>12, <2>1, <2>2, <3>2, <3>3, SeesNext DEF On
    <3>5. Deep(q) => Sees(q)' = Sees(q)
      BY <1>4, <1>5, <1>9, <3>2, <3>3, <3>4
    <3>6. ~Deep(q) => Sees(q)' = Live(k)'
      <4>1. Live(k)' = IF predict_slot(Root, k) = c THEN y ELSE Value(k, Root)
        BY <1>7, <1>8 DEF Live
      <4> QED BY <1>5, <3>2, <3>3, <3>4, <4>1
    <3>12. Deep(q) => walk[q].snap \in Cells /\ walk[q].snap[1] <= used
      BY <1>1, <3>2, CellFacts DEF predict_slot
    <3>7. Deep(q) /\ ptr[walk[q].snap].node # walk[q].child =>
            ptr'[walk[q].snap].node # walk[q].child
      BY <1>4, <3>2, <3>12 DEF Plain
    <3>8. Deep(q) /\ Sub(p, k) => ptr'[walk[q].snap].node # walk[q].child
      BY <1>4, <1>7, <3>2 DEF Plain
    <3>9. CASE pc[q] \in {"slot", "publish"}
      BY <1>10, <1>12, <2>1, <2>2, <2>4, <2>6, <3>5, <3>6, <3>9 DEF Pending, Places, Restarts
    <3>10. CASE pc[q] = "validate"
      BY <1>12, <2>1, <2>2, <2>4, <2>6, <3>7, <3>8, <3>10 DEF Pending, Places, Restarts
    <3>11. pc[q] \in {"slot", "publish", "validate"}
      BY <1>12, <2>6 DEF Pending, Restarts
    <3> QED BY <3>9, <3>10, <3>11
  <2> QED BY <2>5, <2>6
<1> QED BY <1>13, <1>14

\* After the root has been replaced the map holds its snapshot, and everybody who
\* may start over does.
LEMMA RootCover ==
    ASSUME NEW p \in Threads, NEW R, NEW U, NEW H, NEW G, Moved(p, R, U, H, G),
           Swap(p), rb[p].cell = RootCell, NEW k \in Keys, NEW j \in Places, NEW x,
           IsVersion(U, k, j, x)', ~Due(k, j, x)'
    PROVE  \/ /\ rb[p].kind = "rebuild"
              /\ IsVersion(R, k, "top", x) /\ ~Due(k, "top", x)
           \/ x = Nil /\ call[p].op \in {"clear", "drain"} /\ changed'[p]
<1>1. /\ IInv /\ OwnInv /\ TypeOK /\ ThreadTypes /\ Ready(R, H) /\ Fresh = used + 1
      /\ \A q \in Threads \ {p} : pc'[q] = pc[q] /\ rb'[q] = rb[q] /\ walk'[q] = walk[q]
  BY MovedFacts DEF Moved, Ready
<1>2. PICK w : w = Fresh
  OBVIOUS
<1>3. /\ pc[p] = "rb_scan" /\ pc'[p] = "rb_post" /\ w \notin 1..used
      /\ ptr'[RootCell] = Plain(w) /\ rb[p].kind # "subtree"
      /\ rb[p].kind # "rebuild" =>
           rb[p].kind \in {"clear", "drain"} /\ call[p].op \in {"clear", "drain"}
           /\ changed'[p]
  BY <1>2, SwapBase
<1>4. Root' = w
  BY <1>3 DEF Root, Plain
<1>5. j = "live"
  <2>1. CASE j = "sub"
    <3>1. PICK b \in Threads : Sub(b, k)'
      BY <2>1 DEF IsVersion
    <3>2. b # p /\ pc[b] = "rb_scan" /\ rb'[b] = rb[b]
      BY <1>1, <1>3, <3>1 DEF Sub
    <3>3. rb[b].cell[1] = w
      BY <1>4, <3>1, <3>2 DEF Sub, predict_slot
    <3>4. rb[b].cell # RootCell
      BY <1>1, <1>3, <3>2 DEF IInv, FreezeExclusive, Freezing
    <3>5. rb[b].cell[1] \in 1..used
      BY <1>1, <3>2, <3>4, ScanFacts
    <3> QED BY <1>3, <3>3, <3>5
  <2>2. CASE j = "top"
    <3>1. PICK b \in Threads : Top(b)'
      BY <2>2 DEF IsVersion
    <3>2. b # p /\ pc[b] = "rb_scan" /\ rb[b].cell = RootCell
      BY <1>1, <1>3, <3>1 DEF Top
    <3> QED BY <1>1, <1>3, <3>2 DEF IInv, FreezeExclusive, Freezing
  <2> QED BY <2>1, <2>2 DEF Places
<1>6. x = Value(k, w)'
  BY <1>4, <1>5, LiveNext DEF IsVersion
<1>7. CASE rb[p].kind # "rebuild"
  <2>1. x = Nil
    BY <1>2, <1>3, <1>6, <1>7, SwapKeys
  <2> QED BY <1>3, <1>7, <2>1
<1>8. CASE rb[p].kind = "rebuild"
  <2>1. Snap(R, p, k, x) /\ Top(p)
    BY <1>2, <1>3, <1>6, <1>8, SwapKeys DEF Top
  <2>2. IsVersion(R, k, "top", x)
    BY <2>1 DEF IsVersion
  <2>3. ASSUME NEW q \in Threads, DueBy(q, k, "top", x)
        PROVE  Due(k, j, x)'
    <3>1. /\ On(q, k) /\ Overwrites(q, x)
          /\ pc[q] = "root" \/ Early(q)
      BY <2>3 DEF DueBy, Pending, Restarts, Early
    <3>2. q # p
      BY <1>3, <3>1 DEF Early, Rebuilding
    <3>3. /\ On(q, k)' /\ Overwrites(q, x)'
          /\ Early(q)' <=> Early(q)
      BY <3>1, <3>2, OthersDue
    <3>4. pc[q] # "root" => walk[q].entry \in 1..used
      BY <1>1, <3>1, WriterFacts
    <3>5. Restarts(q)'
      BY <1>1, <1>3, <1>4, <3>1, <3>2, <3>3, <3>4 DEF Restarts
    <3> QED BY <3>3, <3>5 DEF Due, DueBy, Pending
  <2> QED BY <1>8, <2>2, <2>3 DEF Due
<1> QED BY <1>7, <1>8

\* Versions after a swap that nobody will write over were there before it, or it
\* cleared the map.
LEMMA SwapCover ==
    ASSUME NEW p \in Threads, NEW R, NEW U, NEW H, NEW G, Moved(p, R, U, H, G),
           Swap(p), NEW k \in Keys, NEW j \in Places, NEW x,
           IsVersion(U, k, j, x)', ~Due(k, j, x)'
    PROVE  \/ IsVersion(R, k, j, x) /\ ~Due(k, j, x) /\ ~(j = "live" /\ Sub(p, k))
              /\ rb[p].cell # RootCell
           \/ /\ Sub(p, k) /\ x = Live(k)' /\ rb[p].cell # RootCell /\ j # "sub"
              /\ IsVersion(R, k, "sub", x) /\ ~Due(k, "sub", x)
           \/ /\ rb[p].cell = RootCell
              /\ \/ /\ rb[p].kind = "rebuild"
                    /\ IsVersion(R, k, "top", x) /\ ~Due(k, "top", x)
                 \/ x = Nil /\ call[p].op \in {"clear", "drain"} /\ changed'[p]
<1>1. CASE rb[p].cell = RootCell
  BY <1>1, RootCover
<1>2. CASE rb[p].cell # RootCell
  <2>1. \/ IsVersion(R, k, j, x) /\ ~(j = "live" /\ Sub(p, k))
        \/ Sub(p, k) /\ x = Live(k)' /\ IsVersion(R, k, "sub", x) /\ j # "sub"
    BY <1>2, SubtreeVersion
  <2>2. Due(k, j, x) => Due(k, j, x)'
    BY <1>2, SubtreeDue
  <2>3. Sub(p, k) /\ x = Live(k)' /\ Due(k, "sub", x) => Due(k, j, x)'
    BY <1>2, SubtreeDue DEF Places
  <2> QED BY <1>2, <2>1, <2>2, <2>3
<1> QED BY <1>1, <1>2
-----------------------------------------------------------------------------
(***************************************************************************)
(* The inductive invariant, and its part on acceptable outcomes.           *)
(***************************************************************************)
\* The calls whose outcome will count when they return, and these outcomes.
Certain(p) == call[p].op \in {"insert", "get_or_insert"} \/ changed[p]
Sure(k) == UNION {Effect(p, k) : p \in {q \in Threads : Certain(q)}}

\* Whatever a place holds for a key, that no call will write over, is acceptable
\* or will be when the calls under way have returned.
AccInv(R) == \A k \in Keys : \A j \in Places : Cov(R, k, acc[k] \cup Sure(k), j)

\* The labels of insert.rs behind the write of its entry.
Past(p) ==
    \/ pc[p] \in {"validate", "own", "read"}
    \/ Rebuilding(p) /\ rb[p].kind = "subtree"

\* A call that has written: its outcome is what every place holds, unless a rival
\* has written since.
Wrote(p) ==
    /\ pc[p] # "idle"
    /\ \/ call[p].op = "insert" /\ pc[p] \notin {"root", "slot", "publish"}
       \/ call[p].op = "remove" /\ pc[p] \notin {"root", "slot"}
       \/ call[p].op = "get_or_insert" /\ (changed[p] \/ Past(p))
       \/ call[p].op \in {"clear", "drain"} /\ changed[p]
WroteInv(R, p) ==
    Wrote(p) => \A k \in Keys : Effect(p, k) # {} =>
        \A j \in Places : Cov(R, k, Effect(p, k) \cup rival[p][k], j)

\* A call that has not written, and may find that it need not: what it sees is
\* what the places hold, unless a rival writes.  A root slot that it has looked
\* at itself is not being rebuilt.
Looks(p) ==
    \/ call[p].op = "remove" /\ pc[p] = "slot"
    \/ call[p].op = "get_or_insert" /\ ~changed[p]
         /\ (pc[p] \in {"slot", "publish"} \/ Past(p))
Looked(p, k) ==
    {Sees(p)} \cup rival[p][k] \cup {x \in {Nil} : call[p].op = "remove"}
LooksInv(R, p) ==
    Looks(p) => \A k \in Keys : On(p, k) => \A j \in Places :
        (j = "sub" => Deep(p) \/ walk[p].entry # Root) => Cov(R, k, Looked(p, k), j)

\* A get_or_insert that has found the key.
Answers(p) ==
    call[p].op = "get_or_insert" /\ ~changed[p] /\ pc[p] \in {"recheck", "return"}
AnswerInv(R, p) ==
    Answers(p) => \A k \in Keys : On(p, k) => \A j \in Places :
        Cov(R, k, {ret[p]} \cup rival[p][k], j)

\* The snapshot of a subtree may only differ from the subtree by a write that the
\* validation of its call finds to be in vain.
Dirty(q, b, k) ==
    /\ On(q, k) /\ walk[q].entry = rb[b].cell[1]
    /\ Value(k, rb[b].cell[1]) \in Effect(q, k)
    /\ \/ pc[q] = "validate" /\ Deep(q) /\ walk[q].child = rb[b].victim
       \/ pc[q] = "slot" /\ ~Deep(q) /\ (call[q].op = "insert" \/ changed[q])
SubInv(R, b) ==
    pc[b] = "rb_scan" /\ rb[b].cell # RootCell =>
        \A k \in OnSlot(R, rb[b].cell) : \A x : Snap(R, b, k, x) =>
            \/ x = Value(k, rb[b].cell[1])
            \/ \E q \in Threads : Dirty(q, b, k)

\* The outcomes of a call.
LEMMA EffectFacts ==
    ASSUME TypeOK, NEW p \in Threads, Active(p), NEW k \in Keys
    PROVE  /\ call[p].op \in {"insert", "get_or_insert"} /\ call[p].key = k =>
                Effect(p, k) = {Val(p)}
           /\ call[p].op = "remove" /\ call[p].key = k => Effect(p, k) = {Nil}
           /\ call[p].op \in {"clear", "drain"} => Effect(p, k) = {Nil}
           /\ call[p].op \in {"insert", "get_or_insert", "remove"} /\ call[p].key # k =>
                Effect(p, k) = {}
           /\ call[p].op \in {"rebuild", "get", "iter"} => Effect(p, k) = {}
           /\ call[p].op \in {"insert", "get_or_insert", "remove", "clear", "drain",
                              "rebuild", "get", "iter"}
<1>1. call[p].op \in {"insert", "get_or_insert", "remove", "clear", "drain",
                      "rebuild", "get", "iter"}
  BY DEF TypeOK, ThreadTypes, Calls, Writers, Sweepers
<1> QED BY <1>1 DEF Effect, EffectOf

\* A call keeps its outcome until it returns.
LEMMA EffectKept ==
    ASSUME NEW p \in Threads, NEW R, NEW U, NEW H, NEW G, Moved(p, R, U, H, G),
           NEW q \in Threads, q # p \/ (~Begin(p) /\ ~Return(p)), NEW k \in Keys
    PROVE  /\ Effect(q, k)' = Effect(q, k) /\ call'[q] = call[q]
           /\ Active(q)' <=> Active(q)
           /\ rival[q][k] \subseteq rival'[q][k]
<1>1. CASE q # p
  <2>1. /\ pc'[q] = pc[q] /\ call'[q] = call[q] /\ ops'[q] = ops[q]
        /\ rival[q][k] \subseteq rival'[q][k]
    BY <1>1, MovedFacts
  <2>2. Val(q)' = Val(q)
    BY <2>1 DEF Val
  <2> QED BY <2>1, <2>2 DEF Effect, Active, EffectOf
<1>2. CASE q = p
  <2>1. /\ UNCHANGED <<call, ops, rival>> /\ pc[p] # "idle" /\ pc'[p] # "idle"
    BY <1>2, StepCall DEF Moved
  <2>2. Val(p)' = Val(p)
    BY <2>1 DEF Val
  <2> QED BY <1>2, <2>1, <2>2 DEF Effect, Active, EffectOf
<1> QED BY <1>1, <1>2

\* retry_was_new and was_removed are reset by the return only.
LEMMA ChangedKept ==
    ASSUME ThreadTypes, NEW p \in Threads, Begin(p) \/ Step(p), ~Return(p), changed[p]
    PROVE  changed'[p]
<1> USE DEF ThreadTypes
<1>1. CASE Begin(p) \/ LoadRoot(p) \/ Descend(p) \/ Claim(p) \/ RemoveMiss(p)
           \/ GetExisting(p) \/ CheckRatio(p) \/ LoadOwn(p) \/ Recheck(p) \/ Count(p)
  BY <1>1 DEF Begin, LoadRoot, Descend, Claim, RemoveMiss, GetExisting, CheckRatio,
     LoadOwn, Recheck, Count
<1>2. CASE CheckGrowth(p) \/ AdvanceThreshold(p) \/ ReadRoot(p) \/ ScanStep(p)
           \/ ScanEnd(p) \/ LoadVictim(p) \/ Freeze(p) \/ Unfreeze(p) \/ ResetCounters(p)
  BY <1>2 DEF CheckGrowth, AdvanceThreshold, ReadRoot, ScanStep, ScanEnd, LoadVictim,
     Freeze, Unfreeze, ResetCounters
<1>3. CASE PublishInline(p) \/ PublishChild(p) \/ RemoveHit(p) \/ Swap(p)
  BY <1>3 DEF PublishInline, PublishChild, RemoveHit, Swap
<1>4. CASE Validate(p) \/ ReadStep(p)
  BY <1>4 DEF Validate, ReadStep
<1> QED BY <1>1, <1>2, <1>3, <1>4 DEF Step

\* The kinds of steps.
LEMMA StepKind ==
    ASSUME NEW p \in Threads, Begin(p) \/ Step(p)
    PROVE  Quiet(p) \/ Write(p) \/ Swap(p)
BY DEF Step, Quiet, Write, LocalStep

\* Versions after any step that nobody will write over.
LEMMA CoverStep ==
    ASSUME NEW p \in Threads, NEW R, NEW U, NEW H, NEW G, Moved(p, R, U, H, G),
           NEW k \in Keys, NEW j \in Places, NEW x,
           IsVersion(U, k, j, x)', ~Due(k, j, x)'
    PROVE  \/ \E i \in Places : IsVersion(R, k, i, x) /\ ~Due(k, i, x)
           \/ /\ Active(p) /\ ~Begin(p) /\ ~Return(p) /\ x \in Effect(p, k)
              /\ call[p].op \in {"insert", "get_or_insert"} \/ changed'[p]
<1>1. TypeOK /\ ThreadTypes /\ Stages(p)
  BY MovedFacts DEF Moved, Ready
<1>2. CASE Quiet(p)
  BY <1>2, QuietDue DEF Places
<1>3. CASE Write(p)
  <2>1. CASE On(p, k) /\ x = Put(p)
    <3>1. x \in Effect(p, k) /\ Active(p)
      BY <1>3, <2>1, WriteFacts DEF On, Active
    <3>2. ~Begin(p) /\ ~Return(p) /\ pc[p] \in {"slot", "publish"}
      BY <1>3, WriteFacts DEF Begin, Return
    <3>3. call[p].op \in {"insert", "get_or_insert"} \/ changed'[p]
      BY <1>1, <1>3 DEF Write, PublishInline, PublishChild, RemoveHit, Stages, ThreadTypes
    <3> QED BY <3>1, <3>2, <3>3
  <2> QED BY <1>3, <2>1, WriteCover
<1>4. CASE Swap(p)
  <2>1. CASE x = Nil /\ call[p].op \in {"clear", "drain"} /\ changed'[p]
    <3>1. pc[p] = "rb_scan" /\ Active(p)
      BY <1>4 DEF Swap, Active
    <3>2. ~Begin(p) /\ ~Return(p)
      BY <3>1 DEF Begin, Return
    <3> QED BY <1>1, <2>1, <3>1, <3>2, EffectFacts
  <2> QED BY <1>4, <2>1, SwapCover DEF Places
<1> QED BY <1>2, <1>3, <1>4, StepKind DEF Moved

\* The return of a call makes its outcome acceptable and drops those it
\* supersedes.
LEMMA AccReturn ==
    ASSUME NEW p \in Threads, NEW R, NEW H, Ready(R, H), Return(p),
           WroteInv(R, p), AnswerInv(R, p),
           NEW k \in Keys, NEW i \in Places, NEW x, IsVersion(R, k, i, x), ~Due(k, i, x),
           x \in acc[k] \/ (Certain(p) /\ x \in Effect(p, k))
    PROVE  x \in Accepted(p, k)
<1>1. TypeOK /\ Rivals /\ pc[p] = "return" /\ Active(p)
  BY DEF Ready, IInv, Return, Active
<1>2. Val(p) \notin rival[p][k]
  BY <1>1, OwnValue
<1>3. Wrote(p) /\ Effect(p, k) # {} => x \in Effect(p, k) \cup rival[p][k]
  BY DEF WroteInv, Cov
<1>4. ~(call[p].op = "get_or_insert" /\ ~changed[p] /\ call[p].key = k)
      \/ x \in {ret[p]} \cup rival[p][k]
  <2> SUFFICES ASSUME call[p].op = "get_or_insert", ~changed[p], call[p].key = k
               PROVE  x \in {ret[p]} \cup rival[p][k]
    OBVIOUS
  <2>1. Answers(p) /\ On(p, k)
    BY <1>1 DEF Answers, On, Writers
  <2> QED BY <2>1 DEF AnswerInv, Cov
<1>5. Wrote(p) <=> \/ call[p].op \in {"insert", "remove"}
                   \/ call[p].op \in {"get_or_insert", "clear", "drain"} /\ changed[p]
  BY <1>1 DEF Wrote, Past, Rebuilding
<1>6. CASE call[p].op = "insert" /\ call[p].key = k
  BY <1>1, <1>3, <1>5, <1>6, EffectFacts DEF Accepted
<1>7. CASE call[p].op = "get_or_insert" /\ call[p].key = k
  <2>1. Effect(p, k) = {Val(p)}
    BY <1>1, <1>7, EffectFacts
  <2>2. CASE changed[p]
    BY <1>3, <1>5, <1>7, <2>1, <2>2 DEF Accepted
  <2>3. CASE ~changed[p] /\ ret[p] = Val(p)
    BY <1>4, <1>7, <2>1, <2>3 DEF Accepted
  <2>4. CASE ~changed[p] /\ ret[p] # Val(p)
    <3>1. Accepted(p, k) = acc[k]
      BY <1>7, <2>4 DEF Accepted
    <3> QED BY <1>2, <1>4, <1>7, <2>1, <2>4, <3>1
  <2> QED BY <2>2, <2>3, <2>4
<1>8. CASE call[p].op = "remove" /\ call[p].key = k
  <2>1. Effect(p, k) = {Nil} /\ x \in {Nil} \cup rival[p][k]
    BY <1>1, <1>3, <1>5, <1>8, EffectFacts
  <2>2. CASE changed[p]
    BY <1>8, <2>1, <2>2 DEF Accepted
  <2>3. CASE ~changed[p]
    <3>1. Accepted(p, k) = acc[k] \cap (rival[p][k] \cup {Nil})
      BY <1>8, <2>3 DEF Accepted
    <3> QED BY <1>8, <2>1, <2>3, <3>1 DEF Certain
  <2> QED BY <2>2, <2>3
<1>9. CASE call[p].op \in {"clear", "drain"}
  <2>1. Effect(p, k) = {Nil}
    BY <1>1, <1>9, EffectFacts
  <2>2. CASE changed[p]
    BY <1>3, <1>5, <1>9, <2>1, <2>2 DEF Accepted
  <2>3. CASE ~changed[p]
    <3>1. Accepted(p, k) = acc[k]
      BY <1>9, <2>3 DEF Accepted
    <3> QED BY <1>9, <2>3, <3>1 DEF Certain
  <2> QED BY <2>2, <2>3
<1>10. CASE \/ call[p].op \in {"insert", "get_or_insert", "remove"} /\ call[p].key # k
            \/ call[p].op \in {"rebuild", "get", "iter"}
  <2>1. Effect(p, k) = {}
    BY <1>1, <1>10, EffectFacts
  <2>2. Accepted(p, k) = acc[k]
    BY <1>10 DEF Accepted
  <2> QED BY <2>1, <2>2
<1> QED BY <1>1, <1>6, <1>7, <1>8, <1>9, <1>10, EffectFacts

\* A call that returns leaves its outcome among the acceptable ones, and no place
\* holds those that it supersedes.
LEMMA AccStep ==
    ASSUME NEW p \in Threads, NEW R, NEW U, NEW H, NEW G, Moved(p, R, U, H, G),
           AccInv(R), WroteInv(R, p), AnswerInv(R, p)
    PROVE  AccInv(U)'
<1> SUFFICES ASSUME NEW k \in Keys, NEW j \in Places, NEW x,
                    IsVersion(U, k, j, x)', ~Due(k, j, x)'
             PROVE  x \in acc'[k] \/ x \in Sure(k)'
  BY DEF AccInv, Cov
<1>1. /\ TypeOK /\ ThreadTypes /\ Ready(R, H) /\ (Begin(p) \/ Step(p))
      /\ \A q \in Threads \ {p} : changed'[q] = changed[q]
  BY MovedFacts DEF Moved
<1>2. ASSUME NEW q \in Threads, q # p \/ (~Begin(p) /\ ~Return(p)), x \in Effect(q, k),
             Certain(q) \/ (q = p /\ changed'[p])
      PROVE  x \in Sure(k)'
  <2>1. Effect(q, k)' = Effect(q, k) /\ call'[q] = call[q]
    BY <1>2, EffectKept
  <2>2. changed[q] => changed'[q]
    BY <1>1, <1>2, ChangedKept
  <2>3. Certain(q)'
    BY <1>2, <2>1, <2>2 DEF Certain
  <2> QED BY <1>2, <2>1, <2>3 DEF Sure
<1>3. CASE /\ Active(p) /\ ~Begin(p) /\ ~Return(p) /\ x \in Effect(p, k)
           /\ call[p].op \in {"insert", "get_or_insert"} \/ changed'[p]
  BY <1>2, <1>3 DEF Certain
<1>4. CASE \E i \in Places : IsVersion(R, k, i, x) /\ ~Due(k, i, x)
  <2>1. PICK i \in Places : IsVersion(R, k, i, x) /\ ~Due(k, i, x)
    BY <1>4
  <2>2. x \in acc[k] \/ x \in Sure(k)
    BY <2>1 DEF AccInv, Cov
  <2>3. x \in acc[k] \/ \E q \in Threads : Certain(q) /\ x \in Effect(q, k)
    BY <2>2 DEF Sure
  <2>4. CASE Return(p)
    <3>1. acc'[k] = Accepted(p, k)
      BY <2>4 DEF Return
    <3>2. CASE x \in acc[k] \/ (Certain(p) /\ x \in Effect(p, k))
      BY <1>1, <2>1, <2>4, <3>1, <3>2, AccReturn
    <3>3. CASE \E q \in Threads \ {p} : Certain(q) /\ x \in Effect(q, k)
      BY <1>2, <3>3
    <3> QED BY <2>3, <3>2, <3>3
  <2>5. CASE Begin(p)
    <3>1. acc' = acc /\ Effect(p, k) = {}
      BY <2>5 DEF Begin, Effect, Active
    <3> QED BY <1>2, <2>3, <3>1
  <2>6. CASE Step(p) /\ ~Return(p) /\ ~Begin(p)
    <3>1. acc' = acc
      BY <1>1, <2>6, StepCall
    <3> QED BY <1>2, <2>3, <2>6, <3>1
  <2> QED BY <1>1, <2>4, <2>5, <2>6
<1> QED BY <1>3, <1>4, CoverStep
-----------------------------------------------------------------------------
(***************************************************************************)
(* A call that has written, and a get_or_insert that has its answer.       *)
(***************************************************************************)
\* The steps by which a call comes to have written.
LEMMA NewWrote ==
    ASSUME NEW p \in Threads, NEW R, NEW U, NEW H, NEW G, Moved(p, R, U, H, G),
           Wrote(p)'
    PROVE  /\ ~Begin(p) /\ ~Return(p)
           /\ \/ Wrote(p) \/ Write(p) \/ RemoveMiss(p)
              \/ Swap(p) /\ call[p].op \in {"clear", "drain"}
<1>1. /\ TypeOK /\ ThreadTypes /\ Stages(p) /\ OnlyWriters(p) /\ ThreadInv(p)
      /\ (Begin(p) \/ Step(p))
  BY MovedFacts DEF Moved, Ready, Routed, IInv
<1> USE DEF Goto, ThreadTypes
<1>2. ~Return(p)
  BY <1>1 DEF Return, Wrote
<1>3. ~Begin(p)
  <2> SUFFICES ASSUME Begin(p) PROVE FALSE
    OBVIOUS
  <2>1. changed' = changed /\ ~changed[p]
    BY <1>1 DEF Begin, Stages
  <2>2. PICK c \in Program[p][ops[p] + 1] :
          /\ call' = [call EXCEPT ![p] = c]
          /\ IF c.op \in Sweepers
             THEN StartRebuild(p, c.op, RootCell)
             ELSE /\ Goto(p, IF c.op \in Writers THEN "root" ELSE "read_root")
                  /\ UNCHANGED rb
    BY DEF Begin
  <2>3. call'[p] = c
    BY <1>1, <2>2
  <2>4. CASE c.op \in Sweepers
    BY <2>1, <2>3, <2>4 DEF Wrote, Sweepers
  <2>5. CASE c.op \in Writers
    <3>1. pc'[p] = "root"
      BY <1>1, <2>2, <2>5 DEF Writers, Sweepers
    <3> QED BY <2>1, <2>3, <2>5, <3>1 DEF Wrote, Past, Rebuilding, Writers
  <2>6. CASE c.op \notin Sweepers \cup Writers
    BY <2>3, <2>6 DEF Wrote, Sweepers, Writers
  <2> QED BY <2>4, <2>5, <2>6
<1>4. /\ call' = call /\ pc[p] # "idle" /\ pc'[p] # "idle"
  BY <1>1, <1>2, <1>3, StepCall
<1> SUFFICES ASSUME ~Write(p), ~RemoveMiss(p),
                    ~(Swap(p) /\ call[p].op \in {"clear", "drain"})
             PROVE  Wrote(p)
  BY <1>2, <1>3
<1>5. CASE LoadRoot(p) \/ Descend(p) \/ Claim(p)
  <2>1. pc'[p] \in {"slot", "publish"} /\ changed' = changed
    BY <1>1, <1>5 DEF LoadRoot, Descend, Claim
  <2>2. pc'[p] = "publish" => call[p].op \in {"insert", "get_or_insert"}
    BY <1>1, <1>5 DEF LoadRoot, Descend, Claim
  <2>3. call[p].op # "insert" /\ call[p].op # "remove"
    BY <1>4, <2>1, <2>2 DEF Wrote
  <2>4. changed[p]
    BY <1>4, <2>1, <2>3 DEF Wrote, Past, Rebuilding
  <2> QED BY <1>4, <2>3, <2>4 DEF Wrote
<1>6. CASE GetExisting(p)
  <2>1. changed[p] /\ call[p].op = "get_or_insert"
    BY <1>1, <1>4, <1>6 DEF GetExisting, Wrote, Past, Rebuilding
  <2> QED BY <1>4, <2>1 DEF Wrote
<1>7. CASE Validate(p) \/ LoadOwn(p) \/ CheckRatio(p)
  <2>1. pc[p] \in {"validate", "own"} \/ (pc[p] = "ratio" /\ call[p].op = "remove")
    BY <1>1, <1>7 DEF Validate, LoadOwn, CheckRatio, ThreadInv
  <2>2. call[p].op \in Writers
    BY <1>1, <2>1 DEF OnlyWriters
  <2> QED BY <2>1, <2>2 DEF Wrote, Past, Writers
<1>8. CASE ReadStep(p)
  <2>1. pc[p] = "read" /\ call[p].op \in Writers \cup {"get"}
    BY <1>1, <1>8 DEF ReadStep, OnlyWriters
  <2>2. call[p].op # "get"
    BY <1>4 DEF Wrote
  <2> QED BY <2>1, <2>2 DEF Wrote, Past, Writers
<1>9. CASE Recheck(p) \/ Count(p) \/ CheckGrowth(p) \/ AdvanceThreshold(p)
  <2>1. /\ pc[p] \in {"recheck", "count", "grow", "advance"} /\ call[p].op \in Writers
        /\ changed' = changed
    BY <1>1, <1>9 DEF Recheck, Count, CheckGrowth, AdvanceThreshold, OnlyWriters, Stages
  <2>2. ~Past(p)'
    <3>1. CASE AdvanceThreshold(p)
      <4>1. CASE StartRebuild(p, "rebuild", RootCell)
        <5>1. pc'[p] = "rb_load" /\ rb'[p].kind = "rebuild"
          BY <1>1, <4>1, StartFacts
        <5> QED BY <5>1 DEF Past
      <4>2. CASE Goto(p, "return")
        BY <1>1, <4>2 DEF Past, Rebuilding
      <4> QED BY <3>1, <4>1, <4>2 DEF AdvanceThreshold
    <3>2. CASE Recheck(p) \/ Count(p) \/ CheckGrowth(p)
      BY <1>1, <3>2 DEF Recheck, Count, CheckGrowth, Past, Rebuilding
    <3> QED BY <1>9, <3>1, <3>2
  <2>3. call[p].op = "get_or_insert" => changed[p]
    BY <1>4, <2>1, <2>2 DEF Wrote
  <2> QED BY <1>4, <2>1, <2>3 DEF Wrote, Writers
<1>10. CASE ReadRoot(p) \/ ScanEnd(p)
  <2>1. call[p].op \in {"get", "iter"}
    BY <1>1, <1>10 DEF ReadRoot, ScanEnd, Stages
  <2> QED BY <1>4, <2>1 DEF Wrote
<1>11. CASE ScanStep(p)
  <2>1. /\ pc'[p] = pc[p] /\ changed' = changed
        /\ rb'[p].kind = rb[p].kind
    BY <1>1, <1>11 DEF ScanStep, Scanned, Scans
  <2> QED BY <1>4, <2>1 DEF Wrote, Past, Rebuilding
<1>12. CASE LoadVictim(p) \/ Freeze(p) \/ Unfreeze(p) \/ Swap(p) \/ ResetCounters(p)
  <2>1. /\ Rebuilding(p) \/ (pc[p] = "rb_post" /\ rb[p].kind # "subtree")
        /\ changed' = changed \/ Swap(p)
    BY <1>1, <1>12 DEF LoadVictim, Freeze, Unfreeze, Swap, ResetCounters, Rebuilding, ThreadInv
  <2>2. call[p].op = "get_or_insert" => changed[p] \/ Past(p)
    BY <1>1, <2>1 DEF Stages, Past, Sweepers
  <2>3. call[p].op \in {"clear", "drain"} => changed[p]
    BY <1>4, <2>1 DEF Wrote
  <2> QED BY <1>4, <2>1, <2>2, <2>3 DEF Wrote, Rebuilding
<1> QED BY <1>1, <1>2, <1>3, <1>5, <1>6, <1>7, <1>8, <1>9, <1>10, <1>11, <1>12
        DEF Step, Write

\* A slot of the root being rebuilt is not one that a call has found without a
\* child.
LEMMA OpenSlot ==
    ASSUME NEW R, NEW H, Ready(R, H), NEW p \in Threads, NEW k \in Keys, On(p, k),
           pc[p] # "root", ~IsChild(st[Here(p)]), NEW x, IsVersion(R, k, "sub", x)
    PROVE  Deep(p) \/ walk[p].entry # Root
<1> SUFFICES ASSUME ~Deep(p), walk[p].entry = Root PROVE FALSE
  OBVIOUS
<1>1. Here(p) = predict_slot(Root, k)
  BY WriterFacts
<1>2. PICK b \in Threads : Sub(b, k)
  BY DEF IsVersion
<1> QED BY <1>1, <1>2, FrozenFacts

\* The outcome of a call is among those its rivals may see.
LEMMA RivalEffect ==
    ASSUME NEW R, NEW H, Ready(R, H), NEW p \in Threads, NEW q \in Threads,
           q # p, Active(p), Active(q), NEW k \in Keys
    PROVE  Effect(p, k) \subseteq rival[q][k]
BY DEF Ready, Rivals

\* A call that has just written has.
LEMMA WroteNow ==
    ASSUME NEW p \in Threads, NEW R, NEW U, NEW H, NEW G, Moved(p, R, U, H, G),
           LooksInv(R, p), NEW k \in Keys, On(p, k), NEW j \in Places, NEW x,
           IsVersion(U, k, j, x)', ~Due(k, j, x)', ~Wrote(p),
           Write(p) \/ RemoveMiss(p)
    PROVE  x \in Effect(p, k) \cup rival[p][k]
<1>1. /\ TypeOK /\ ThreadTypes /\ Ready(R, H) /\ Stages(p) /\ call[p].key = k
      /\ call[p].op \in Writers /\ Active(p)
  BY MovedFacts DEF Moved, Ready, On, Active
<1>2. CASE RemoveMiss(p)
  <2>1. call[p].op = "remove" /\ pc[p] = "slot" /\ Looks(p)
    BY <1>2 DEF RemoveMiss, Looks
  <2>2. PICK i \in {j, "live"} :
          IsVersion(R, k, i, x) /\ (Due(k, i, x) => Due(k, j, x)')
    BY <1>2, QuietDue DEF Quiet, LocalStep
  <2>3. ~IsChild(st[Here(p)]) /\ Sees(p) = Nil
    BY <1>1, <1>2, MissSees
  <2>4. i = "sub" => Deep(p) \/ walk[p].entry # Root
    BY <1>1, <2>1, <2>2, <2>3, OpenSlot
  <2>5. x \in Looked(p, k)
    BY <2>1, <2>2, <2>4 DEF LooksInv, Cov, Places
  <2>6. Effect(p, k) = {Nil}
    BY <1>1, <2>1, EffectFacts
  <2> QED BY <2>3, <2>5, <2>6 DEF Looked
<1>3. CASE Write(p)
  <2>1. Put(p) \in Effect(p, k) /\ ~IsChild(st[Here(p)]) /\ pc[p] \in {"slot", "publish"}
    BY <1>1, <1>3, WriteFacts
  <2> SUFFICES ASSUME x # Put(p) PROVE x \in rival[p][k]
    BY <2>1
  <2>2. IsVersion(R, k, j, x) /\ ~Due(k, j, x) /\ ~Overwrites(p, x)
    BY <1>3, WriteCover
  <2>3. call[p].op = "get_or_insert" /\ x # Nil
    BY <1>1, <2>2 DEF Overwrites, Put, Writers
  <2>4. Looks(p)
    <3>1. pc[p] = "publish" /\ ~changed[p]
      BY <1>1, <1>3, <2>1, <2>3
         DEF Wrote, Write, PublishInline, PublishChild, RemoveHit, Active
    <3> QED BY <2>3, <3>1 DEF Looks
  <2>5. Sees(p) = Nil
    <3>1. PICK n : n = Seen(p)
      OBVIOUS
    <3>2. n \in 1..used /\ Hits(p, k, n) /\ Sees(p) = Value(k, n)
      BY <1>1, <2>1, <3>1, WriterFacts, SeesHere DEF Hits
    <3>3. Overwrites(p, Value(k, n))
      BY <1>3, <3>2, WriteOld
    <3> QED BY <2>3, <3>2, <3>3 DEF Overwrites
  <2>6. j = "sub" => Deep(p) \/ walk[p].entry # Root
    BY <1>1, <2>1, <2>2, OpenSlot
  <2>7. x \in Looked(p, k)
    BY <2>2, <2>4, <2>6 DEF LooksInv, Cov
  <2> QED BY <2>3, <2>5, <2>7 DEF Looked
<1> QED BY <1>2, <1>3

\* A call's outcome stays in all places, unless a rival has written: a swap by a
\* rebuild that copied the subtree before the write is found by the validation.
LEMMA WroteStep ==
    ASSUME NEW p \in Threads, NEW R, NEW U, NEW H, NEW G, Moved(p, R, U, H, G),
           NEW q \in Threads, WroteInv(R, q), LooksInv(R, q)
    PROVE  WroteInv(U, q)'
<1> SUFFICES ASSUME Wrote(q)', NEW k \in Keys, Effect(q, k)' # {}, NEW j \in Places,
                    NEW x, IsVersion(U, k, j, x)', ~Due(k, j, x)'
             PROVE  x \in Effect(q, k)' \/ x \in rival'[q][k]
  BY DEF WroteInv, Cov
<1>1. TypeOK /\ ThreadTypes /\ Ready(R, H) /\ (q = p => ~Begin(p) /\ ~Return(p))
  BY MovedFacts, NewWrote DEF Moved
<1>2. /\ Effect(q, k)' = Effect(q, k) /\ call'[q] = call[q]
      /\ rival[q][k] \subseteq rival'[q][k] /\ Active(q)
  <2>1. Active(q)'
    BY DEF Wrote, Active
  <2> QED BY <1>1, <2>1, EffectKept
<1> SUFFICES x \in Effect(q, k) \cup rival[q][k]
  BY <1>2
<1>3. CASE x \in Effect(p, k) /\ Active(p)
  <2>1. CASE q = p
    BY <1>3, <2>1
  <2>2. CASE q # p
    BY <1>1, <1>2, <1>3, <2>2, RivalEffect
  <2> QED BY <2>1, <2>2
<1>4. CASE Wrote(q)
  <2>1. CASE \E i \in Places : IsVersion(R, k, i, x) /\ ~Due(k, i, x)
    BY <1>2, <1>4, <2>1 DEF WroteInv, Cov
  <2> QED BY <1>3, <2>1, CoverStep
<1>5. CASE ~Wrote(q)
  <2>1. q = p
    <3> SUFFICES ASSUME q # p PROVE FALSE
      OBVIOUS
    <3>1. pc'[q] = pc[q] /\ rb'[q] = rb[q] /\ changed'[q] = changed[q]
      BY MovedFacts
    <3> QED BY <1>2, <1>5, <3>1 DEF Wrote, Past, Rebuilding
  <2>2. CASE Write(p) \/ RemoveMiss(p)
    <3>1. call[p].op \in Writers /\ pc[p] # "idle"
      <4>1. CASE Write(p)
        BY <4>1, WriteFacts DEF On
      <4>2. CASE RemoveMiss(p)
        BY <4>2 DEF RemoveMiss, Writers
      <4> QED BY <2>2, <4>1, <4>2
    <3>2. call[p].key = k
      BY <1>1, <1>2, <2>1, <3>1, EffectFacts DEF Writers
    <3>3. On(p, k)
      BY <3>1, <3>2 DEF On
    <3> QED BY <1>5, <2>1, <2>2, <3>3, WroteNow
  <2>3. CASE Swap(p) /\ call[p].op \in {"clear", "drain"}
    <3>1. rb[p].kind \in {"clear", "drain"}
      BY <1>1, <2>3 DEF Ready, Stages, Swap, Rebuilding, Writers, Sweepers, Routed, OnlyWriters
    <3>2. rb[p].cell = RootCell
      BY <2>3, <3>1, SwapBase
    <3>3. x = Nil
      BY <2>3, <3>1, <3>2, SwapCover
    <3>4. Effect(p, k) = {Nil}
      BY <1>1, <1>2, <2>1, <2>3, EffectFacts
    <3> QED BY <2>1, <3>3, <3>4
  <2> QED BY <1>5, <2>1, <2>2, <2>3, NewWrote
<1> QED BY <1>4, <1>5

\* The step by which a get_or_insert comes to have its answer.
LEMMA NewAnswer ==
    ASSUME NEW p \in Threads, NEW R, NEW U, NEW H, NEW G, Moved(p, R, U, H, G),
           Answers(p)'
    PROVE  /\ ~Begin(p) /\ ~Return(p)
           /\ GetExisting(p) \/ (Answers(p) /\ Recheck(p))
<1>1. /\ TypeOK /\ ThreadTypes /\ Stages(p) /\ OnlyWriters(p) /\ ThreadInv(p)
      /\ (Begin(p) \/ Step(p))
  BY MovedFacts DEF Moved, Ready, Routed, IInv
<1>2. call'[p].op = "get_or_insert" /\ ~changed'[p] /\ pc'[p] \in {"recheck", "return"}
  BY DEF Answers
<1> USE DEF Goto, ThreadTypes
<1>3. ~Return(p)
  BY <1>1, <1>2 DEF Return
<1>4. ~Begin(p)
  BY <1>1, <1>2, StartFacts DEF Begin
<1>5. call' = call /\ pc[p] # "idle"
  BY <1>1, <1>3, <1>4, StepCall
<1>6. ~changed[p]
  BY <1>1, <1>2, <1>3, ChangedKept
<1>7. call[p].op = "get_or_insert"
  BY <1>2, <1>5
<1>8. CASE LoadRoot(p) \/ Descend(p) \/ Claim(p) \/ RemoveMiss(p) \/ LoadOwn(p)
           \/ PublishInline(p) \/ PublishChild(p) \/ RemoveHit(p)
  BY <1>1, <1>2, <1>7, <1>8 DEF LoadRoot, Descend, Claim, RemoveMiss, LoadOwn,
     PublishInline, PublishChild, RemoveHit
<1>9. CASE Validate(p)
  <2>1. walk[p].from # "EMPTY"
    BY <1>1, <1>6, <1>7, <1>9 DEF Validate, Stages
  <2>2. CASE StartRebuild(p, "subtree", walk[p].snap)
    BY <1>1, <1>2, <2>2, StartFacts
  <2> QED BY <1>1, <1>2, <1>7, <1>9, <2>1, <2>2 DEF Validate, AfterTrigger
<1>10. CASE CheckRatio(p)
  BY <1>1, <1>7, <1>10 DEF CheckRatio, ThreadInv
<1>11. CASE Recheck(p)
  BY <1>3, <1>4, <1>6, <1>7, <1>11 DEF Recheck, Answers
<1>12. CASE Count(p) \/ CheckGrowth(p) \/ AdvanceThreshold(p)
  BY <1>1, <1>6, <1>12 DEF Count, CheckGrowth, AdvanceThreshold, Stages
<1>13. CASE ReadRoot(p) \/ ScanEnd(p)
  BY <1>1, <1>7, <1>13 DEF ReadRoot, ScanEnd, Stages
<1>14. CASE ReadStep(p)
  BY <1>1, <1>2, <1>7, <1>14 DEF ReadStep
<1>15. CASE ScanStep(p)
  BY <1>1, <1>2, <1>15 DEF ScanStep
<1>16. CASE LoadVictim(p) \/ Freeze(p) \/ Unfreeze(p) \/ Swap(p) \/ ResetCounters(p)
  <2>1. Rebuilding(p) \/ pc[p] = "rb_post"
    BY <1>1, <1>16 DEF LoadVictim, Freeze, Unfreeze, Swap, ResetCounters, Rebuilding
  <2>2. rb[p].kind = "subtree"
    BY <1>1, <1>6, <1>7, <2>1 DEF Stages, Sweepers
  <2>3. Rebuilding(p)
    BY <1>1, <2>1, <2>2 DEF ThreadInv
  <2>4. walk[p].from # "EMPTY"
    BY <1>1, <1>6, <1>7, <2>2, <2>3 DEF Stages
  <2>5. Caller(p) = "own"
    BY <1>7, <2>2, <2>4 DEF Caller, AfterTrigger
  <2>6. ~ResetCounters(p)
    BY <2>3 DEF ResetCounters, Rebuilding
  <2> QED BY <1>1, <1>2, <1>16, <2>2, <2>5, <2>6
             DEF LoadVictim, Freeze, Unfreeze, Swap, GiveUp
<1> QED BY <1>1, <1>3, <1>4, <1>8, <1>9, <1>10, <1>11, <1>12, <1>13, <1>14, <1>15, <1>16
        DEF Step

\* The answer of a get_or_insert that found the key stays what the places hold.
LEMMA AnswerStep ==
    ASSUME NEW p \in Threads, NEW R, NEW U, NEW H, NEW G, Moved(p, R, U, H, G),
           NEW q \in Threads, AnswerInv(R, q), LooksInv(R, q)
    PROVE  AnswerInv(U, q)'
<1> SUFFICES ASSUME Answers(q)', NEW k \in Keys, On(q, k)', NEW j \in Places,
                    NEW x, IsVersion(U, k, j, x)', ~Due(k, j, x)'
             PROVE  x = ret'[q] \/ x \in rival'[q][k]
  BY DEF AnswerInv, Cov
<1>1. TypeOK /\ ThreadTypes /\ Ready(R, H) /\ (q = p => ~Begin(p) /\ ~Return(p))
  BY MovedFacts, NewAnswer DEF Moved
<1>2. /\ call'[q] = call[q] /\ rival[q][k] \subseteq rival'[q][k] /\ Active(q)
      /\ On(q, k)
  <2>1. Active(q)'
    BY DEF Answers, Active
  <2>2. /\ call'[q] = call[q] /\ rival[q][k] \subseteq rival'[q][k] /\ Active(q)
    BY <1>1, <2>1, EffectKept
  <2> QED BY <2>2 DEF On, Active
<1>3. CASE q # p
  <2>1. ret'[q] = ret[q] /\ Answers(q)
    BY <1>2, <1>3, MovedFacts DEF Answers
  <2>2. CASE x \in Effect(p, k) /\ Active(p)
    BY <1>1, <1>2, <1>3, <2>2, RivalEffect
  <2>3. CASE \E i \in Places : IsVersion(R, k, i, x) /\ ~Due(k, i, x)
    BY <1>2, <2>1, <2>3 DEF AnswerInv, Cov
  <2> QED BY <2>2, <2>3, CoverStep
<1>4. CASE q = p /\ Answers(p) /\ Recheck(p)
  <2>1. ret' = ret /\ Quiet(p)
    BY <1>4 DEF Recheck, Quiet, LocalStep
  <2>2. PICK i \in {j, "live"} :
          IsVersion(R, k, i, x) /\ (Due(k, i, x) => Due(k, j, x)')
    BY <2>1, QuietDue
  <2> QED BY <1>2, <1>4, <2>1, <2>2 DEF AnswerInv, Cov, Places
<1>5. CASE q = p /\ GetExisting(p)
  <2>1. ret'[p] = inline[Here(p)].val /\ Quiet(p) /\ pc[p] = "slot"
        /\ call[p].op = "get_or_insert"
    BY <1>1, <1>5 DEF GetExisting, Quiet, LocalStep, ThreadTypes
  <2>2. PICK i \in {j, "live"} :
          IsVersion(R, k, i, x) /\ (Due(k, i, x) => Due(k, j, x)')
    BY <2>1, QuietDue
  <2>3. ~IsChild(st[Here(p)]) /\ Sees(p) = ret'[p]
    BY <1>1, <1>2, <1>5, <2>1, MissSees
  <2>4. i = "sub" => Deep(p) \/ walk[p].entry # Root
    BY <1>1, <1>2, <1>5, <2>1, <2>2, <2>3, OpenSlot
  <2>5. Looks(p)
    <3>1. ~changed[p]
      BY <1>5 DEF Answers, GetExisting
    <3> QED BY <2>1, <3>1 DEF Looks
  <2>6. x \in Looked(p, k)
    BY <1>2, <1>5, <2>2, <2>4, <2>5 DEF LooksInv, Cov, Places
  <2> QED BY <1>2, <1>5, <2>1, <2>3, <2>6 DEF Looked
<1> QED BY <1>3, <1>4, <1>5, NewAnswer
-----------------------------------------------------------------------------
(***************************************************************************)
(* A call that has looked, and may find that it need not write.            *)
(***************************************************************************)
\* The steps after which a call may find that it need not write.
LEMMA NewLooks ==
    ASSUME NEW p \in Threads, NEW R, NEW U, NEW H, NEW G, Moved(p, R, U, H, G),
           Looks(p)'
    PROVE  /\ ~Begin(p) /\ ~Return(p)
           /\ \/ LoadRoot(p)
              \/ Looks(p) /\ (Descend(p) \/ Claim(p) \/ PublishChild(p))
              \/ Validate(p) /\ call[p].op = "remove" /\ walk'[p].snap = RootCell
              \/ /\ Looks(p) /\ (Quiet(p) \/ Swap(p))
                 /\ walk'[p].entry = walk[p].entry /\ walk'[p].snap = walk[p].snap
                 /\ walk'[p].child = walk[p].child
<1>1. /\ TypeOK /\ ThreadTypes /\ Stages(p) /\ OnlyWriters(p) /\ ThreadInv(p)
      /\ (Begin(p) \/ Step(p))
  BY MovedFacts DEF Moved, Ready, Routed, IInv
<1> USE DEF Goto, ThreadTypes
<1>2. ~Return(p)
  BY <1>1 DEF Return, Looks, Past, Rebuilding
<1>3. ~Begin(p)
  <2> SUFFICES ASSUME Begin(p) PROVE FALSE
    OBVIOUS
  <2>1. PICK c \in Program[p][ops[p] + 1] :
          /\ call' = [call EXCEPT ![p] = c]
          /\ IF c.op \in Sweepers
             THEN StartRebuild(p, c.op, RootCell)
             ELSE /\ Goto(p, IF c.op \in Writers THEN "root" ELSE "read_root")
                  /\ UNCHANGED rb
    BY DEF Begin
  <2>2. call'[p] = c
    BY <1>1, <2>1
  <2>3. CASE c.op \in Sweepers
    BY <2>2, <2>3 DEF Looks, Sweepers
  <2>4. CASE c.op \notin Sweepers
    <3>1. pc'[p] \in {"root", "read_root"}
      BY <1>1, <2>1, <2>4
    <3> QED BY <3>1 DEF Looks, Past, Rebuilding
  <2> QED BY <2>3, <2>4
<1>4. call' = call /\ pc[p] # "idle" /\ pc'[p] # "idle"
  BY <1>1, <1>2, <1>3, StepCall
<1>5. changed[p] => changed'[p]
  BY <1>1, <1>2, ChangedKept
<1>6. \/ call[p].op = "remove" /\ pc'[p] = "slot"
      \/ call[p].op = "get_or_insert" /\ ~changed[p] /\ ~changed'[p]
           /\ (pc'[p] \in {"slot", "publish"} \/ Past(p)')
  BY <1>4, <1>5 DEF Looks
<1>7. walk[p] \in Walks
  BY <1>1
<1>8. CASE Descend(p) \/ Claim(p)
  <2>1. pc[p] = "slot"
    BY <1>8 DEF Descend, Claim
  <2> QED BY <1>2, <1>3, <1>6, <1>8, <2>1 DEF Looks
<1>9. CASE RemoveMiss(p) \/ GetExisting(p) \/ RemoveHit(p) \/ PublishInline(p)
  <2>1. pc'[p] = "recheck" \/ (pc'[p] = "validate" /\ (changed'[p] \/ call[p].op = "remove"))
    BY <1>1, <1>9 DEF RemoveMiss, GetExisting, RemoveHit, PublishInline
  <2> QED BY <1>6, <2>1 DEF Past, Rebuilding
<1>10. CASE PublishChild(p)
  <2>1. pc[p] = "publish" /\ pc'[p] = "validate"
    BY <1>1, <1>10 DEF PublishChild
  <2> QED BY <1>2, <1>3, <1>6, <1>10, <2>1 DEF Looks
<1>11. CASE Validate(p)
  <2>1. pc[p] = "validate" /\ Quiet(p)
    BY <1>11 DEF Validate, Quiet, LocalStep
  <2>2. CASE ~SnapshotValid(p)
    <3>1. walk'[p] = WalkFrom(walk[p].entry)
          /\ (call[p].op = "get_or_insert" => changed'[p])
      BY <1>1, <1>11, <2>2 DEF Validate
    <3>2. walk'[p].snap = RootCell
      BY <3>1 DEF WalkFrom, NoWalk
    <3> QED BY <1>2, <1>3, <1>6, <1>11, <3>1, <3>2
  <2>3. CASE SnapshotValid(p)
    <3>1. walk' = walk
      BY <1>11, <2>3 DEF Validate
    <3>2. pc'[p] # "slot"
      BY <1>1, <1>11, <2>3, StartFacts DEF Validate, AfterTrigger
    <3> QED BY <1>2, <1>3, <1>6, <2>1, <3>1, <3>2 DEF Looks, Past
  <2> QED BY <2>2, <2>3
<1>12. CASE CheckRatio(p)
  <2>1. call[p].op = "remove" /\ pc'[p] # "slot"
    BY <1>1, <1>12, StartFacts DEF CheckRatio, ThreadInv
  <2> QED BY <1>6, <2>1
<1>13. CASE LoadOwn(p) \/ ReadStep(p)
  <2>1. /\ pc[p] \in {"own", "read"} /\ Quiet(p)
        /\ call[p].op \in {"get", "get_or_insert"}
    BY <1>1, <1>13 DEF LoadOwn, ReadStep, Stages, ThreadInv, Quiet, LocalStep
  <2>2. /\ walk'[p].entry = walk[p].entry /\ walk'[p].snap = walk[p].snap
        /\ walk'[p].child = walk[p].child
    BY <1>1, <1>7, <1>13 DEF LoadOwn, ReadStep, Walks
  <2> QED BY <1>2, <1>3, <1>6, <2>1, <2>2 DEF Looks, Past
<1>14. CASE Recheck(p) \/ Count(p) \/ CheckGrowth(p)
  <2>1. pc'[p] \in {"root", "count", "grow", "return", "advance"}
    BY <1>1, <1>14 DEF Recheck, Count, CheckGrowth
  <2> QED BY <1>6, <2>1 DEF Past, Rebuilding
<1>15. CASE AdvanceThreshold(p)
  <2>1. pc'[p] = "return" \/ (pc'[p] = "rb_load" /\ rb'[p].kind = "rebuild")
    BY <1>1, <1>15, StartFacts DEF AdvanceThreshold
  <2> QED BY <1>6, <2>1 DEF Past, Rebuilding
<1>16. CASE ReadRoot(p) \/ ScanEnd(p)
  BY <1>1, <1>6, <1>16 DEF ReadRoot, ScanEnd, Stages
<1>17. CASE ScanStep(p)
  <2>1. /\ pc'[p] = pc[p] /\ walk' = walk /\ rb'[p].kind = rb[p].kind /\ Quiet(p)
        /\ pc[p] \in {"scan", "rb_scan"}
    BY <1>1, <1>17 DEF ScanStep, Scanned, Scans, Quiet, LocalStep
  <2> QED BY <1>2, <1>3, <1>6, <2>1 DEF Looks, Past, Rebuilding
<1>18. CASE LoadVictim(p) \/ Freeze(p) \/ Unfreeze(p) \/ Swap(p) \/ ResetCounters(p)
  <2>1. /\ Rebuilding(p) \/ (pc[p] = "rb_post" /\ rb[p].kind # "subtree")
        /\ walk' = walk /\ pc'[p] # "slot" /\ (Quiet(p) \/ Swap(p))
    BY <1>1, <1>18 DEF LoadVictim, Freeze, Unfreeze, Swap, ResetCounters, Rebuilding,
       ThreadInv, GiveUp, Caller, AfterTrigger, Quiet, LocalStep
  <2>2. call[p].op = "get_or_insert" /\ ~changed[p]
    BY <1>6, <2>1
  <2>3. Past(p)
    BY <1>1, <2>1, <2>2 DEF Stages, Past, Sweepers
  <2> QED BY <1>2, <1>3, <2>1, <2>2, <2>3 DEF Looks
<1> QED BY <1>1, <1>2, <1>3, <1>8, <1>9, <1>10, <1>11, <1>12, <1>13, <1>14, <1>15,
           <1>16, <1>17, <1>18 DEF Step

\* The subtree that a rebuild puts in place shows a call that looked at the old
\* one what it saw, unless a rival has written there in vain.
LEMMA SwapSees ==
    ASSUME NEW p \in Threads, NEW R, NEW U, NEW H, NEW G, Moved(p, R, U, H, G),
           Swap(p), SubInv(R, p), NEW q \in Threads, NEW k, On(q, k), Looks(q),
           NEW n, n = Seen(q)
    PROVE  \/ Value(k, n)' = Value(k, n)
           \/ Value(k, n) \in rival[q][k]
           \/ call[q].op = "remove" /\ Value(k, n) = Nil
<1>1. /\ TypeOK /\ ThreadTypes /\ Ready(R, H) /\ Homed(R, H) /\ Active(q)
      /\ pc[q] # "root" /\ IInv /\ OwnInv
  BY MovedFacts DEF Moved, Ready, On, Active, Looks, Past, Rebuilding
<1>2. PICK c, w : c = rb[p].cell /\ w = Fresh
  OBVIOUS
<1>3. PICK y : y = Value(k, w)'
  OBVIOUS
<1>4. /\ k \in Keys /\ n \in 1..used /\ R[walk[q].entry] = Keys
      /\ ~Deep(q) => n = walk[q].entry
      /\ Deep(q) => H[n] # 0
  BY <1>1, WriterFacts
<1>5. \A m \in 1..used :
           Value(k, m)' = IF predict_slot(m, k) = c THEN y ELSE Value(k, m)
  BY <1>2, <1>3, <1>4, SwapKeys
<1> SUFFICES ASSUME predict_slot(n, k) = c, Value(k, n) # y
             PROVE  \/ Value(k, n) \in rival[q][k]
                    \/ call[q].op = "remove" /\ Value(k, n) = Nil
  BY <1>4, <1>5
<1>6. c # RootCell /\ n = c[1]
  BY <1>2, <1>4, SwapBase
<1>7. pc[p] = "rb_scan" /\ rb[p].kind = "subtree" /\ H[c[1]] = 0
  <2>1. pc[p] = "rb_scan" /\ rb[p].kind = "subtree"
    BY <1>2, <1>6, SwapBase
  <2> QED BY <1>1, <1>2, <1>6, <2>1 DEF Homed, ScanHomes, Rebuilding
<1>8. ~Deep(q) /\ n = walk[q].entry
  BY <1>4, <1>6, <1>7
<1>9. k \in OnSlot(R, c)
  BY <1>4, <1>6, <1>8 DEF OnSlot
<1>10. Snap(R, p, k, y)
  BY <1>2, <1>3, <1>4, <1>7, SwapKeys
<1>11. PICK r \in Threads : Dirty(r, p, k)
  BY <1>2, <1>6, <1>7, <1>9, <1>10 DEF SubInv
<1>12. Value(k, n) \in Effect(r, k) /\ Active(r)
  BY <1>2, <1>6, <1>11 DEF Dirty, On, Active
<1>13. CASE r # q
  BY <1>1, <1>4, <1>12, <1>13, RivalEffect
<1>14. CASE r = q
  <2>1. call[q].op = "remove" /\ call[q].key = k
    BY <1>8, <1>11, <1>14 DEF Dirty, Looks, On
  <2>2. Effect(q, k) = {Nil}
    BY <1>1, <1>4, <2>1, EffectFacts
  <2> QED BY <1>12, <1>14, <2>1, <2>2
<1> QED BY <1>13, <1>14

\* A call that stays where it looked.
LEMMA LooksKept ==
    ASSUME NEW p \in Threads, NEW R, NEW U, NEW H, NEW G, Moved(p, R, U, H, G),
           SubInv(R, p), NEW q \in Threads, LooksInv(R, q), Looks(q), NEW k, On(q, k),
           q = p => (Quiet(p) \/ Swap(p)) /\ ~Begin(p) /\ ~Return(p),
           walk'[q].entry = walk[q].entry, walk'[q].snap = walk[q].snap,
           walk'[q].child = walk[q].child, NEW j \in Places,
           j = "sub" => Deep(q) \/ walk[q].entry # Root',
           NEW x, IsVersion(U, k, j, x)', ~Due(k, j, x)'
    PROVE  x \in Looked(q, k)'
<1>1. /\ TypeOK /\ ThreadTypes /\ Ready(R, H) /\ Active(q) /\ pc[q] # "root"
      /\ (Begin(p) \/ Step(p)) /\ call[q].key = k
  BY MovedFacts DEF Moved, On, Active, Looks, Past, Rebuilding
<1>2. k \in Keys /\ Sees(q) = Value(k, Seen(q)) /\ Seen(q) \in 1..used
      /\ (~Deep(q) => Seen(q) = walk[q].entry)
  BY <1>1, WriterFacts
<1>3. call'[q] = call[q] /\ rival[q][k] \subseteq rival'[q][k]
  BY <1>2, EffectKept
<1>4. PICK n : n = Seen(q)
  OBVIOUS
<1>5. Seen(q)' = n
  BY <1>4 DEF Seen, Deep
<1>6. Sees(q)' = Value(k, n)' /\ Sees(q) = Value(k, n) /\ n \in 1..used
  BY <1>1, <1>2, <1>3, <1>4, <1>5, SeesNext
<1> SUFFICES \/ x = Value(k, n)' \/ x \in rival[q][k]
             \/ call[q].op = "remove" /\ x = Nil
  BY <1>3, <1>6 DEF Looked
<1>7. ASSUME NEW i \in Places, i = "sub" => Deep(q) \/ walk[q].entry # Root,
             IsVersion(R, k, i, x), ~Due(k, i, x)
      PROVE  \/ x = Value(k, n) \/ x \in rival[q][k]
             \/ call[q].op = "remove" /\ x = Nil
  BY <1>2, <1>6, <1>7 DEF LooksInv, Cov, Looked
<1>8. CASE Quiet(p)
  <2>1. Root' = Root /\ Value(k, n)' = Value(k, n)
    BY <1>2, <1>6, <1>8, QuietFacts
  <2>2. PICK i \in {j, "live"} :
          IsVersion(R, k, i, x) /\ (Due(k, i, x) => Due(k, j, x)')
    BY <1>2, <1>8, QuietDue
  <2>3. i \in Places /\ (i = "sub" => Deep(q) \/ walk[q].entry # Root)
    BY <2>1, <2>2 DEF Places
  <2> QED BY <1>7, <2>1, <2>2, <2>3
<1>9. CASE Write(p) /\ q # p
  <2>1. /\ Root' = Root
        /\ Value(k, n)' = IF Hits(p, k, n) THEN Put(p) ELSE Value(k, n)
    BY <1>2, <1>6, <1>9, WriteFacts
  <2>2. CASE On(p, k) /\ x = Put(p)
    <3>1. x \in Effect(p, k) /\ Active(p)
      BY <1>9, <2>2, WriteFacts DEF On, Active
    <3> QED BY <1>1, <1>2, <1>9, <3>1, RivalEffect
  <2>3. CASE /\ IsVersion(R, k, j, x) /\ ~Due(k, j, x)
             /\ On(p, k) => ~Overwrites(p, x)
    <3>1. \/ x = Value(k, n) \/ x \in rival[q][k]
          \/ call[q].op = "remove" /\ x = Nil
      BY <1>7, <2>1, <2>3
    <3>2. Hits(p, k, n) => On(p, k) /\ Overwrites(p, Value(k, n))
      BY <1>2, <1>6, <1>9, WriteFacts, WriteOld DEF Hits
    <3> QED BY <2>1, <2>3, <3>1, <3>2
  <2> QED BY <1>2, <1>9, <2>2, <2>3, WriteCover
<1>10. CASE Swap(p)
  <2>1. \/ Value(k, n)' = Value(k, n)
        \/ Value(k, n) \in rival[q][k]
        \/ call[q].op = "remove" /\ Value(k, n) = Nil
    BY <1>4, <1>10, SwapSees
  <2>2. ASSUME NEW i \in Places, i = "sub" => Deep(q) \/ walk[q].entry # Root,
               IsVersion(R, k, i, x), ~Due(k, i, x)
        PROVE  \/ x = Value(k, n)' \/ x \in rival[q][k]
               \/ call[q].op = "remove" /\ x = Nil
    BY <1>7, <2>1, <2>2
  <2>3. CASE rb[p].cell # RootCell
    <3>1. Root' = Root
      BY <1>1, <1>10, <2>3, SwapBase
    <3>2. CASE IsVersion(R, k, j, x) /\ ~Due(k, j, x)
      BY <2>2, <3>1, <3>2
    <3>3. CASE /\ Sub(p, k) /\ x = Live(k)'
               /\ IsVersion(R, k, "sub", x) /\ ~Due(k, "sub", x)
      <4>1. CASE Deep(q) \/ walk[q].entry # Root
        BY <2>2, <3>3, <4>1 DEF Places
      <4>2. CASE ~Deep(q) /\ walk[q].entry = Root
        <5>1. n = Root'
          BY <1>2, <1>4, <3>1, <4>2
        <5> QED BY <3>3, <5>1, LiveNext
      <4> QED BY <4>1, <4>2
    <3> QED BY <1>2, <1>10, <2>3, <3>2, <3>3, SwapCover
  <2>4. CASE rb[p].cell = RootCell
    <3>1. CASE IsVersion(R, k, "top", x) /\ ~Due(k, "top", x)
      BY <2>2, <3>1 DEF Places
    <3>2. CASE x = Nil /\ call[p].op \in {"clear", "drain"}
      <4>1. pc[p] = "rb_scan" /\ Active(p)
        BY <1>10 DEF Swap, Active
      <4>2. x \in Effect(p, k)
        BY <1>1, <1>2, <3>2, <4>1, EffectFacts
      <4>3. q # p
        BY <3>2 DEF On, Writers
      <4> QED BY <1>1, <1>2, <4>1, <4>2, <4>3, RivalEffect
    <3> QED BY <1>2, <1>10, <2>4, <3>1, <3>2, SwapCover
  <2> QED BY <2>3, <2>4
<1> QED BY <1>1, <1>8, <1>9, <1>10, StepKind DEF Quiet, LocalStep

\* What a remove or get_or_insert sees on its way stays what the places hold.
LEMMA LooksStep ==
    ASSUME NEW p \in Threads, NEW R, NEW U, NEW H, NEW G, Moved(p, R, U, H, G),
           SubInv(R, p), NEW q \in Threads, LooksInv(R, q),
           WroteInv(R, q), WroteInv(U, q)'
    PROVE  LooksInv(U, q)'
<1> SUFFICES ASSUME Looks(q)', NEW k \in Keys, On(q, k)', NEW j \in Places,
                    j = "sub" => Deep(q)' \/ walk'[q].entry # Root',
                    NEW x, IsVersion(U, k, j, x)', ~Due(k, j, x)'
             PROVE  x \in Looked(q, k)'
  BY DEF LooksInv, Cov
<1>1. /\ TypeOK /\ ThreadTypes /\ Ready(R, H) /\ (q = p => ~Begin(p) /\ ~Return(p))
      /\ Root \in 1..used
  BY MovedFacts, NewLooks DEF Moved
<1>2. /\ call'[q] = call[q] /\ rival[q][k] \subseteq rival'[q][k] /\ Active(q)
      /\ On(q, k) /\ Effect(q, k)' = Effect(q, k)
  <2>1. Active(q)'
    BY DEF On, Active
  <2>2. /\ call'[q] = call[q] /\ rival[q][k] \subseteq rival'[q][k] /\ Active(q)
        /\ Effect(q, k)' = Effect(q, k)
    BY <1>1, <2>1, EffectKept
  <2> QED BY <2>2 DEF On, Active
<1>3. CASE q # p
  <2>1. /\ walk'[q] = walk[q] /\ pc'[q] = pc[q] /\ rb'[q] = rb[q]
        /\ changed'[q] = changed[q]
    BY <1>3, MovedFacts
  <2>2. Looks(q)
    BY <1>2, <2>1 DEF Looks, Past, Rebuilding
  <2>3. Deep(q)' <=> Deep(q)
    BY <2>1 DEF Deep
  <2> QED BY <1>2, <1>3, <2>1, <2>2, <2>3, LooksKept
<1>4. CASE q = p /\ LoadRoot(p)
  <2>1. Quiet(p) /\ pc[p] = "root" /\ pc'[p] = "slot" /\ ptr' = ptr
        /\ ptr[RootCell].tag = 0 /\ rb' = rb
    BY <1>1, <1>4 DEF LoadRoot, Quiet, LocalStep, Goto, ThreadTypes, tree
  <2>2. Root' = Root /\ walk'[p] = WalkFrom(Root)
    BY <1>1, <1>4, <2>1 DEF LoadRoot, Root, ThreadTypes
  <2>3. walk'[p].entry = Root /\ walk'[p].snap = RootCell
    BY <2>2 DEF WalkFrom, NoWalk
  <2>4. ~Deep(p)' /\ Seen(p)' = Root
    BY <2>3 DEF Deep, Seen
  <2>5. PICK n \in 1..used : n = Root
    BY <1>1
  <2>6. Sees(p)' = Value(k, n)' /\ Live(k)' = Value(k, n)'
    BY <1>2, <1>4, <2>2, <2>4, <2>5, SeesNext, LiveNext DEF On
  <2>7. CASE j = "live"
    BY <1>4, <2>6, <2>7 DEF IsVersion, Looked
  <2>8. CASE j = "sub"
    BY <1>4, <2>2, <2>3, <2>4, <2>8
  <2>9. CASE j = "top"
    <3>1. PICK b \in Threads : Top(b)'
      BY <2>9 DEF IsVersion
    <3>2. pc[b] = "rb_scan" /\ Top(b)
      <4>1. b # p
        BY <2>1, <3>1 DEF Top
      <4>2. pc'[b] = pc[b]
        BY <4>1, MovedFacts
      <4> QED BY <2>1, <3>1, <4>2 DEF Top
    <3> QED BY <1>1, <2>1, <3>2, FrozenFacts
  <2> QED BY <2>7, <2>8, <2>9 DEF Places
<1>5. CASE q = p /\ Looks(p) /\ (Descend(p) \/ Claim(p))
  <2>1. /\ Quiet(p) /\ Sees(p)' = Sees(p) /\ pc[p] = "slot"
        /\ walk'[p].entry = walk[p].entry
        /\ Claim(p) => (Deep(p)' <=> Deep(p))
    BY <1>2, <1>5, DescendSees DEF Quiet, LocalStep
  <2>2. PICK i \in {j, "live"} :
          IsVersion(R, k, i, x) /\ (Due(k, i, x) => Due(k, j, x)')
    BY <2>1, QuietDue
  <2>3. i = "sub" => Deep(p) \/ walk[p].entry # Root
    <3> SUFFICES ASSUME i = "sub", ~Deep(p), walk[p].entry = Root PROVE FALSE
      OBVIOUS
    <3>1. Root' = Root
      BY <2>1, QuietFacts
    <3>2. Descend(p)
      BY <1>5, <2>1, <2>2, <3>1
    <3>3. Here(p) = predict_slot(Root, k)
      BY <1>1, <1>2, <1>5, <2>1, WriterFacts
    <3>4. PICK b \in Threads : Sub(b, k)
      BY <2>2 DEF IsVersion
    <3>5. ptr[predict_slot(Root, k)].tag = 1
      BY <1>1, <3>4, FrozenFacts
    <3> QED BY <3>2, <3>3, <3>5 DEF Descend
  <2>4. x \in Looked(p, k)
    BY <1>2, <1>5, <2>2, <2>3 DEF LooksInv, Cov, Places
  <2> QED BY <1>2, <1>5, <2>1, <2>4 DEF Looked
<1>6. CASE q = p /\ Validate(p) /\ call[p].op = "remove" /\ walk'[p].snap = RootCell
  <2>1. Quiet(p) /\ Wrote(p) /\ Effect(p, k) = {Nil}
    <3>1. pc[p] = "validate"
      BY <1>6 DEF Validate
    <3>2. call[p].key = k
      BY <1>2, <1>6 DEF On
    <3> QED BY <1>1, <1>2, <1>6, <3>1, <3>2, EffectFacts DEF Quiet, LocalStep, Wrote
  <2>2. PICK i \in {j, "live"} :
          IsVersion(R, k, i, x) /\ (Due(k, i, x) => Due(k, j, x)')
    BY <2>1, QuietDue
  <2>3. x \in {Nil} \cup rival[p][k]
    BY <1>6, <2>1, <2>2 DEF WroteInv, Cov, Places
  <2> QED BY <1>2, <1>6, <2>3 DEF Looked
<1>7. CASE q = p /\ Looks(p) /\ PublishChild(p)
  <2>1. Write(p)
    BY <1>7 DEF Write
  <2>2. pc[p] = "publish" /\ pc'[p] = "validate" /\ walk' = walk
    BY <1>1, <1>7 DEF PublishChild, Goto, ThreadTypes
  <2>3. call[p].op = "get_or_insert" /\ call[p].key = k
    BY <1>2, <1>7, <2>2 DEF Looks, On
  <2>4. Wrote(p)'
    BY <1>2, <1>7, <2>2, <2>3 DEF Wrote, Past
  <2>5. Effect(p, k) = {Val(p)}
    BY <1>1, <1>2, <1>7, <2>3, EffectFacts
  <2>6. x \in Effect(p, k)' \/ x \in rival'[p][k]
    BY <1>2, <1>7, <2>4, <2>5 DEF WroteInv, Cov
  <2>7. Sees(p)' = Val(p)
    <3>1. PICK n : n = Seen(p)
      OBVIOUS
    <3>2. Seen(p)' = n
      BY <2>2, <3>1 DEF Seen, Deep
    <3>3. Sees(p)' = Value(k, n)'
      BY <1>2, <1>7, <2>3, <3>2, SeesNext
    <3>4. n \in 1..used /\ Hits(p, k, n)
      BY <1>1, <1>2, <1>7, <2>1, <2>2, <2>3, <3>1, WriteFacts, WriterFacts, SeesHere DEF Hits
    <3> QED BY <2>1, <2>3, <3>3, <3>4, WriteFacts DEF Put
  <2> QED BY <1>2, <1>7, <2>5, <2>6, <2>7 DEF Looked
<1>8. CASE /\ q = p /\ Looks(p) /\ (Quiet(p) \/ Swap(p))
           /\ walk'[p].entry = walk[p].entry /\ walk'[p].snap = walk[p].snap
           /\ walk'[p].child = walk[p].child
  <2>1. Deep(p)' <=> Deep(p)
    BY <1>8 DEF Deep
  <2> QED BY <1>1, <1>2, <1>8, <2>1, LooksKept
<1> QED BY <1>3, <1>4, <1>5, <1>6, <1>7, <1>8, NewLooks
-----------------------------------------------------------------------------
(***************************************************************************)
(* The snapshot of a subtree against the subtree itself.                   *)
(***************************************************************************)
\* What a subtree rebuild has frozen and what it has still to scan.
LEMMA SubBase ==
    ASSUME NEW R, NEW H, Ready(R, H), NEW b \in Threads, pc[b] = "rb_scan",
           NEW c, c = rb[b].cell, c # RootCell, NEW n, n = c[1],
           NEW v, v = rb[b].victim, NEW k \in OnSlot(R, c)
    PROVE  /\ k \in Keys /\ c \in SlotCells /\ n \in 1..used /\ predict_slot(n, k) = c
           /\ H[n] = 0 /\ IsChild(st[c]) /\ ptr[c].node = v /\ ptr[c].tag = 1
           /\ v \in 1..used /\ H[v] = v /\ v # 0 /\ v \notin retired
           /\ Value(k, n) = Value(k, v) /\ Leaf(k)[n] = Leaf(k)[v]
           /\ rb[b].kind = "subtree"
           /\ \A d \in SlotCells : d[1] \in 1..used /\ k \in OnSlot(R, d)
                /\ (\E i \in 1..Len(rb[b].todo) : d = rb[b].todo[i])
              => H[d[1]] # 0 /\ Leaf(k)[d[1]] = Leaf(k)[v]
<1>1. /\ IInv /\ OwnInv /\ TypeOK /\ Nodes = 1..MaxNodes /\ used \in 1..MaxNodes
      /\ MaxNodes \in Nat /\ 0 \notin Nodes /\ TreeHomes(H) /\ TreeRoutes(R)
  BY RootFacts
<1>2. /\ c \in SlotCells /\ n \in 1..used /\ IsChild(st[c]) /\ c \in Cells
      /\ ptr[c].node = v /\ ptr[c].tag = 1 /\ v \in 1..used /\ v # Nil /\ v \in Nodes
  BY <1>1, ScanFacts
<1>3. n \in Nodes
  BY <1>1, <1>2
<1>4. k \in Keys /\ predict_slot(n, k) = c
  BY <1>1, <1>3 DEF OnSlot, TreeRoutes
<1>5. ScanHomes(R, H, b)
  BY DEF Ready, Homed
<1>6. H[n] = 0 /\ rb[b].kind = "subtree"
  BY <1>5 DEF ScanHomes, Rebuilding
<1>7. H[v] # 0 /\ H[v] = v
  BY <1>1, <1>2, <1>6, ChildHome
<1>8. Value(k, n) = Value(k, v) /\ Leaf(k)[n] = Leaf(k)[v]
  BY <1>1, <1>2, <1>3, <1>4, LeafLevel
<1>9. v \notin retired
  BY <1>1, <1>2 DEF OwnInv, Owned
<1>10. ASSUME NEW d \in SlotCells, k \in OnSlot(R, d),
              \E i \in 1..Len(rb[b].todo) : d = rb[b].todo[i]
       PROVE  H[d[1]] # 0 /\ Leaf(k)[d[1]] = Leaf(k)[v]
  BY <1>5, <1>7, <1>10 DEF ScanHomes
<1> QED BY <1>2, <1>4, <1>6, <1>7, <1>8, <1>9, <1>10

\* A dirty call after a step, spelled out.
LEMMA DirtyNext ==
    ASSUME NEW q, NEW b, NEW k, NEW n, n = rb'[b].cell[1], NEW v, v = rb'[b].victim
    PROVE  Dirty(q, b, k)' <=>
             /\ On(q, k)' /\ walk'[q].entry = n
             /\ Value(k, n)' \in Effect(q, k)'
             /\ \/ pc'[q] = "validate" /\ Deep(q)' /\ walk'[q].child = v
                \/ pc'[q] = "slot" /\ ~Deep(q)' /\ (call'[q].op = "insert" \/ changed'[q])
BY DEF Dirty, Value, ValueAt, Holding, ClaimedData, predict_slot

\* Somebody else's step leaves a dirty call dirty.
LEMMA DirtyOther ==
    ASSUME NEW p \in Threads, NEW R, NEW U, NEW H, NEW G, Moved(p, R, U, H, G),
           NEW q \in Threads \ {p}, NEW b, NEW k \in Keys, Dirty(q, b, k),
           NEW n, n = rb[b].cell[1], rb'[b].cell = rb[b].cell,
           rb'[b].victim = rb[b].victim, Value(k, n)' = Value(k, n)
    PROVE  Dirty(q, b, k)'
<1>1. pc'[q] = pc[q] /\ walk'[q] = walk[q] /\ changed'[q] = changed[q]
  BY MovedFacts
<1>2. (On(q, k)' <=> On(q, k)) /\ (Deep(q)' <=> Deep(q))
  BY OthersDue
<1>3. Effect(q, k)' = Effect(q, k) /\ call'[q] = call[q]
  BY EffectKept
<1>4. PICK v : v = rb[b].victim
  OBVIOUS
<1>5. /\ On(q, k) /\ walk[q].entry = n /\ Value(k, n) \in Effect(q, k)
      /\ \/ pc[q] = "validate" /\ Deep(q) /\ walk[q].child = v
         \/ pc[q] = "slot" /\ ~Deep(q) /\ (call[q].op = "insert" \/ changed[q])
  BY <1>4 DEF Dirty
<1> QED BY <1>1, <1>2, <1>3, <1>4, <1>5, DirtyNext

\* So does a quiet step of the call itself: its validation fails, and it cannot
\* pass the frozen slot again.
LEMMA DirtyOwn ==
    ASSUME NEW p \in Threads, NEW R, NEW U, NEW H, NEW G, Moved(p, R, U, H, G),
           Quiet(p), NEW b \in Threads, pc[b] = "rb_scan", rb[b].cell # RootCell,
           NEW k \in OnSlot(R, rb[b].cell), Dirty(p, b, k)
    PROVE  Dirty(p, b, k)'
<1>1. /\ IInv /\ TypeOK /\ ThreadTypes /\ Ready(R, H) /\ Stages(p)
      /\ \A q \in Threads \ {p} : rb'[q] = rb[q]
  BY MovedFacts DEF Moved, Ready
<1>2. PICK c, n, v : c = rb[b].cell /\ n = c[1] /\ v = rb[b].victim
  OBVIOUS
<1>3. /\ k \in Keys /\ n \in 1..used /\ predict_slot(n, k) = c
      /\ IsChild(st[c]) /\ ptr[c].tag = 1
  BY <1>1, <1>2, SubBase
<1>4. /\ On(p, k) /\ walk[p].entry = n /\ Value(k, n) \in Effect(p, k)
      /\ \/ pc[p] = "validate" /\ Deep(p) /\ walk[p].child = v
         \/ pc[p] = "slot" /\ ~Deep(p) /\ (call[p].op = "insert" \/ changed[p])
  BY <1>2 DEF Dirty
<1>5. b # p /\ rb'[b] = rb[b] /\ pc[p] # "root" /\ call[p].op \in Writers
  BY <1>1, <1>4 DEF On
<1>6. Value(k, n)' = Value(k, n)
  BY <1>3, QuietFacts
<1>7. CASE pc[p] = "validate" /\ Deep(p)
  <2>1. Validate(p)
    BY <1>1, <1>7, QuietAt
  <2>2. walk[p].snap = c
    BY <1>1, <1>3, <1>4, <1>5, <1>7, WriterFacts
  <2>3. ~SnapshotValid(p)
    BY <1>2, <1>3, <1>5, <1>7, <2>2 DEF SnapshotValid, Plain, Deep
  <2>4. /\ walk'[p] = WalkFrom(n) /\ pc'[p] = "slot"
        /\ call[p].op = "get_or_insert" => changed'[p]
        /\ changed[p] => changed'[p]
    BY <1>1, <1>4, <2>1, <2>3 DEF Validate, Goto, ThreadTypes
  <2>5. walk'[p].entry = n /\ walk'[p].snap = RootCell
    BY <2>4 DEF WalkFrom, NoWalk
  <2>6. ~Deep(p)'
    BY <2>5 DEF Deep
  <2>7. call[p].op = "insert" \/ changed'[p]
    BY <1>1, <1>5, <1>7, <2>4 DEF Stages, Writers
  <2>8. ~Begin(p) /\ ~Return(p)
    BY <1>7 DEF Begin, Return
  <2>9. Effect(p, k)' = Effect(p, k) /\ call'[p] = call[p]
    BY <1>3, <2>8, EffectKept
  <2>10. On(p, k)'
    BY <1>4, <2>4, <2>9 DEF On
  <2> QED BY <1>2, <1>4, <1>5, <1>6, <2>4, <2>5, <2>6, <2>7, <2>9, <2>10, DirtyNext
<1>8. CASE pc[p] = "slot" /\ ~Deep(p)
  <2>1. Descend(p) \/ Claim(p) \/ RemoveMiss(p) \/ GetExisting(p)
    BY <1>1, <1>8, QuietAt
  <2>2. Here(p) = c
    BY <1>1, <1>3, <1>4, <1>5, <1>8, WriterFacts
  <2>3. IsChild(st[c]) /\ ptr[c].tag # 0
    BY <1>3
  <2>4. ~Descend(p) /\ ~Claim(p) /\ ~RemoveMiss(p) /\ ~GetExisting(p)
    BY <2>2, <2>3 DEF IsChild, Descend, Claim, Claimable, RemoveMiss, GetExisting
  <2> QED BY <2>1, <2>4
<1> QED BY <1>4, <1>7, <1>8

\* A write below a subtree that is being rebuilt makes its call dirty.
LEMMA DirtyWrite ==
    ASSUME NEW p \in Threads, NEW R, NEW U, NEW H, NEW G, Moved(p, R, U, H, G),
           Write(p), NEW b \in Threads, pc[b] = "rb_scan", rb[b].cell # RootCell,
           NEW n, n = rb[b].cell[1], NEW k \in OnSlot(R, rb[b].cell), Hits(p, k, n)
    PROVE  Dirty(p, b, k)'
<1>1. /\ IInv /\ OwnInv /\ TypeOK /\ ThreadTypes /\ Ready(R, H) /\ TreeHomes(H)
      /\ Nodes = 1..MaxNodes /\ used \in 1..MaxNodes /\ MaxNodes \in Nat
  BY MovedFacts DEF Moved, Ready, Homed
<1>2. PICK c, v : c = rb[b].cell /\ v = rb[b].victim
  OBVIOUS
<1>3. /\ k \in Keys /\ n \in 1..used /\ predict_slot(n, k) = c /\ c \in SlotCells
      /\ H[n] = 0 /\ IsChild(st[c]) /\ ptr[c].node = v /\ v \notin retired
      /\ v \in 1..used /\ H[v] = v /\ v # 0 /\ Leaf(k)[n] = Leaf(k)[v]
  BY <1>1, <1>2, SubBase
<1>4. /\ pc[p] \in {"slot", "publish"} /\ pc'[p] = "validate" /\ walk' = walk
      /\ call' = call /\ rb' = rb /\ Put(p) \in Effect(p, call[p].key)
      /\ ~IsChild(st[Here(p)])
      /\ Value(k, n)' = Put(p)
  BY <1>3, WriteFacts
<1>5. k = call[p].key /\ Leaf(k)[n] = walk[p].cur
  BY DEF Hits
<1>6. On(p, k)
  BY <1>5, WriteFacts
<1>7. pc[p] # "root" /\ v \in Nodes
  BY <1>1, <1>3, <1>4
<1>8. H[walk[p].cur] = v
  BY <1>1, <1>3, <1>5, <1>7, LeafHome
<1>9. Deep(p)
  BY <1>1, <1>3, <1>6, <1>7, <1>8, WriterFacts
<1>10. /\ walk[p].snap \in SlotCells /\ walk[p].snap[1] = walk[p].entry
       /\ walk[p].child \in 1..used /\ H[walk[p].child] = walk[p].child
       /\ H[walk[p].child] # 0
       /\ Leaf(k)[walk[p].child] = Leaf(k)[walk[p].cur]
       /\ ptr[walk[p].snap].node = walk[p].child \/ walk[p].child \in retired
  BY <1>1, <1>6, <1>7, <1>9, WriterFacts
<1>11. walk[p].child = v
  <2>1. walk[p].child \in Nodes /\ walk[p].cur \in Nodes
    BY <1>1, <1>6, <1>7, <1>10, WriterFacts
  <2>2. H[Leaf(k)[walk[p].child]] = walk[p].child
    BY <1>1, <1>3, <1>10, <2>1, LeafHome
  <2>3. H[Leaf(k)[walk[p].cur]] = v
    BY <1>1, <1>3, <1>8, <2>1, LeafHome
  <2> QED BY <1>10, <2>2, <2>3
<1>12. walk[p].entry = n
  <2>1. ptr[walk[p].snap].node = v
    BY <1>3, <1>10, <1>11
  <2>2. walk[p].snap \in Cells /\ c \in Cells /\ v # Nil
    BY <1>3, <1>7, <1>10, CellFacts, ConstantsAssumption
  <2>3. walk[p].snap = c
    BY <1>1, <1>3, <2>1, <2>2 DEF OwnInv, Injective
  <2> QED BY <1>2, <1>10, <2>3
<1>13. ~Begin(p) /\ ~Return(p)
  BY <1>4 DEF Begin, Return
<1>14. Effect(p, k)' = Effect(p, k) /\ call'[p] = call[p]
  BY <1>3, <1>13, EffectKept
<1>15. On(p, k)' /\ Deep(p)'
  BY <1>4, <1>6, <1>9 DEF On, Deep
<1>16. rb'[b].cell[1] = n /\ rb'[b].victim = v
  BY <1>2, <1>4
<1> QED BY <1>4, <1>5, <1>11, <1>12, <1>14, <1>15, <1>16, DirtyNext

\* The snapshot of a subtree after a step of somebody else, or a scanning step of
\* its own.
LEMMA SubKept ==
    ASSUME NEW p \in Threads, NEW R, NEW U, NEW H, NEW G, Moved(p, R, U, H, G),
           NEW b \in Threads, SubInv(R, b), pc[b] = "rb_scan", rb[b].cell # RootCell,
           rb'[b].cell = rb[b].cell, rb'[b].victim = rb[b].victim,
           pc'[b] = "rb_scan", NEW k \in OnSlot(R, rb[b].cell),
           NEW n, n = rb[b].cell[1], NEW x, Snap(U, b, k, x)'
    PROVE  x = Value(k, n)' \/ \E q \in Threads : Dirty(q, b, k)'
<1>1. /\ IInv /\ OwnInv /\ TypeOK /\ ThreadTypes /\ Ready(R, H) /\ (Begin(p) \/ Step(p))
      /\ \A q \in Threads \ {p} : rb'[q] = rb[q] /\ pc'[q] = pc[q]
  BY MovedFacts DEF Moved
<1>2. PICK c, v : c = rb[b].cell /\ v = rb[b].victim
  OBVIOUS
<1>3. /\ k \in Keys /\ n \in 1..used /\ predict_slot(n, k) = c /\ H[n] = 0
      /\ IsChild(st[c]) /\ ptr[c].node = v /\ Leaf(k)[n] = Leaf(k)[v]
      /\ \A d \in SlotCells : d[1] \in 1..used /\ k \in OnSlot(R, d)
           /\ (\E i \in 1..Len(rb[b].todo) : d = rb[b].todo[i])
         => H[d[1]] # 0 /\ Leaf(k)[d[1]] = Leaf(k)[v]
  BY <1>1, <1>2, SubBase
<1>4. ASSUME NEW y, Snap(R, b, k, y)
      PROVE  y = Value(k, n) \/ \E q \in Threads : Dirty(q, b, k)
  BY <1>4 DEF SubInv
<1>5. CASE Quiet(p)
  <2>1. \A m \in 1..used : Value(k, m)' = Value(k, m)
    BY <1>3, <1>5, QuietFacts
  <2>2. Snap(R, b, k, x)
    <3>1. CASE b # p
      <4>1. rb'[b] = rb[b]
        BY <1>1, <3>1
      <4> QED BY <1>3, <2>1, <4>1, SnapKept
    <3>2. CASE b = p
      <4>1. ScanStep(p)
        BY <1>1, <1>5, <3>2, EnterScan DEF Freeze
      <4> QED BY <1>3, <3>2, <4>1, ScanSnap
    <3> QED BY <3>1, <3>2
  <2>3. ASSUME NEW q \in Threads, Dirty(q, b, k)
        PROVE  Dirty(q, b, k)'
    <3>1. CASE q = p
      BY <1>5, <2>3, <3>1, DirtyOwn
    <3>2. CASE q # p
      BY <1>3, <2>1, <2>3, <3>2, DirtyOther
    <3> QED BY <3>1, <3>2
  <2> QED BY <1>3, <1>4, <2>1, <2>2, <2>3
<1>6. CASE Write(p)
  <2>1. /\ pc[p] \in {"slot", "publish"} /\ pc'[p] = "validate" /\ walk' = walk
        /\ ~IsChild(st[Here(p)]) /\ rb' = rb
        /\ \A m \in 1..used :
             Value(k, m)' = IF Hits(p, k, m) THEN Put(p) ELSE Value(k, m)
    BY <1>3, <1>6, WriteFacts
  <2>2. CASE Hits(p, k, n)
    BY <1>6, <2>2, DirtyWrite
  <2>3. CASE ~Hits(p, k, n)
    <3>1. Value(k, n)' = Value(k, n)
      BY <1>3, <2>1, <2>3
    <3>2. ASSUME NEW d \in SlotCells, d[1] \in 1..used, k \in OnSlot(R, d),
                 \E i \in 1..Len(rb[b].todo) : d = rb[b].todo[i]
          PROVE  Value(k, d[1])' = Value(k, d[1])
      <4>1. Leaf(k)[d[1]] = Leaf(k)[n]
        BY <1>3, <3>2
      <4>2. ~Hits(p, k, d[1])
        BY <2>3, <4>1 DEF Hits
      <4> QED BY <2>1, <3>2, <4>2
    <3>3. Snap(R, b, k, x)
      BY <1>3, <2>1, <3>2, SnapKept
    <3>4. ASSUME NEW q \in Threads, Dirty(q, b, k)
          PROVE  Dirty(q, b, k)'
      <4>1. CASE q = p
        <5>1. /\ pc[p] = "slot" /\ ~Deep(p) /\ walk[p].entry = n /\ On(p, k)
          BY <2>1, <3>4, <4>1 DEF Dirty
        <5>2. Here(p) = c
          BY <1>1, <1>3, <5>1, WriterFacts
        <5> QED BY <1>3, <2>1, <5>2
      <4>2. CASE q # p
        BY <1>3, <3>1, <3>4, <4>2, DirtyOther
      <4> QED BY <4>1, <4>2
    <3> QED BY <1>4, <3>1, <3>3, <3>4
  <2> QED BY <2>2, <2>3
<1>7. CASE Swap(p)
  <2>1. PICK e, w : e = rb[p].cell /\ w = Fresh
    OBVIOUS
  <2>2. PICK y : y = Value(k, w)'
    OBVIOUS
  <2>3. \A m \in 1..used :
           Value(k, m)' = IF predict_slot(m, k) = e THEN y ELSE Value(k, m)
    BY <1>3, <1>7, <2>1, <2>2, SwapKeys
  <2>4. /\ pc[p] = "rb_scan" /\ UNCHANGED rb
        /\ e = RootCell => pc'[p] = "rb_post"
        /\ e # RootCell => pc'[p] = AfterTrigger(p)
        /\ \A m \in 1..used : predict_slot(m, k) = e => e # RootCell /\ m = e[1]
    BY <1>3, <1>7, <2>1, SwapBase
  <2>5. b # p
    BY <2>4 DEF AfterTrigger
  <2>6. e # c
    BY <1>1, <1>2, <2>1, <2>4, <2>5 DEF IInv, FreezeExclusive, Freezing
  <2>7. Value(k, n)' = Value(k, n)
    BY <1>3, <2>3, <2>6
  <2>8. e # RootCell => H[e[1]] = 0
    BY <1>1, <2>1, <2>4 DEF Ready, Homed, ScanHomes, Rebuilding
  <2>9. ASSUME NEW d \in SlotCells, d[1] \in 1..used, k \in OnSlot(R, d),
               \E i \in 1..Len(rb[b].todo) : d = rb[b].todo[i]
        PROVE  Value(k, d[1])' = Value(k, d[1])
    <3>1. H[d[1]] # 0
      BY <1>3, <2>9
    <3> QED BY <2>3, <2>4, <2>8, <2>9, <3>1
  <2>10. Snap(R, b, k, x)
    BY <1>3, <2>4, <2>9, SnapKept
  <2>11. ASSUME NEW q \in Threads, Dirty(q, b, k)
         PROVE  Dirty(q, b, k)'
    <3>1. q # p
      BY <2>4, <2>11 DEF Dirty
    <3> QED BY <1>3, <2>7, <2>11, <3>1, DirtyOther
  <2> QED BY <1>4, <2>7, <2>10, <2>11
<1> QED BY <1>1, <1>5, <1>6, <1>7, StepKind

\* The snapshots of subtrees stay what the subtrees hold, but for writes in vain.
LEMMA SubInvStep ==
    ASSUME NEW p \in Threads, NEW R, NEW U, NEW H, NEW G, Moved(p, R, U, H, G),
           NEW b \in Threads, SubInv(R, b)
    PROVE  SubInv(U, b)'
<1>1. /\ IInv /\ OwnInv /\ TypeOK /\ ThreadTypes /\ Ready(R, H) /\ TreeRoutes(R)
      /\ \A q \in Threads \ {p} : rb'[q] = rb[q] /\ pc'[q] = pc[q]
      /\ \A m \in 1..used : m \in Nodes
      /\ Grows /\ Agree(R, U) /\ (Begin(p) \/ Step(p)) /\ TypeOK'
  BY MovedFacts DEF Moved, Ready, Routed
<1> SUFFICES ASSUME pc'[b] = "rb_scan", NEW c, c = rb'[b].cell, c # RootCell,
                    NEW n, n = c[1], NEW k \in U[n], <<n, model'[n].slot[k]>> = c,
                    NEW x, Snap(U, b, k, x)'
             PROVE  x = Value(k, n)' \/ \E q \in Threads : Dirty(q, b, k)'
  <2>1. ASSUME NEW k \in OnSlot(U, rb[b].cell)', NEW c, c = rb'[b].cell, NEW n, n = c[1]
        PROVE  k \in U[n] /\ <<n, model'[n].slot[k]>> = c
               /\ Value(k, rb[b].cell[1])' = Value(k, n)'
    BY <2>1 DEF OnSlot, predict_slot, Value, ValueAt, Holding, ClaimedData
  <2> QED BY <2>1 DEF SubInv
<1>2. CASE b # p \/ ScanStep(p)
  <2>1. /\ pc[b] = "rb_scan" /\ rb[b].cell = c /\ rb'[b].victim = rb[b].victim
        /\ rb'[b].cell = rb[b].cell
    <3>1. CASE b # p
      BY <1>1, <3>1
    <3>2. CASE b = p /\ ScanStep(p)
      BY <1>1, <3>2 DEF ScanStep, Scanned, ThreadTypes, Scans
    <3> QED BY <1>2, <3>1, <3>2
  <2>2. c \in SlotCells /\ n \in 1..used
    BY <1>1, <2>1, ScanFacts
  <2>3. k \in OnSlot(R, c)
    <3>1. U[n] = R[n] /\ model'[n] = model[n]
      BY <1>1, <2>2 DEF Grows, Agree
    <3> QED BY <3>1 DEF OnSlot, predict_slot
  <2> QED BY <2>1, <2>3, SubKept
<1>3. CASE b = p /\ ~ScanStep(p)
  <2>1. Quiet(p)
    <3>1. ~Write(p)
      BY <1>3, WriteFacts
    <3>2. ~Swap(p)
      BY <1>3, SwapBase DEF AfterTrigger
    <3> QED BY <1>1, <3>1, <3>2, StepKind
  <2>2. PICK v : v = rb[p].victim
    OBVIOUS
  <2>3. /\ Freeze(p) /\ ptr[rb[p].cell] = Plain(v)
        /\ rb'[p] = [rb[p] EXCEPT !.todo = ScanOf(v)]
    BY <1>1, <1>3, <2>1, <2>2, EnterScan
  <2>4. rb[p].cell = c /\ ptr[c].node = v /\ v \in Nodes /\ v # Nil /\ c \in SlotCells
    BY <1>1, <1>3, <2>2, <2>3, ConstantsAssumption, CellFacts
       DEF ThreadTypes, Scans, Plain
  <2>5. IsChild(st[c])
    BY <1>1, <2>4 DEF OwnInv, NoStrayChild
  <2>6. n \in 1..used
    BY <1>1, <2>4, Allocated, UsedFacts DEF IInv
  <2>7. U[n] = R[n] /\ model'[n] = model[n] /\ n \in Nodes
    BY <1>1, <2>6 DEF Grows, Agree
  <2>8. k \in OnSlot(R, c) /\ k \in Keys /\ predict_slot(n, k) = c
    BY <1>1, <2>7 DEF OnSlot, predict_slot, TreeRoutes
  <2>9. v \in 1..used /\ Value(k, n) = Value(k, v)
    BY <1>1, <2>4, <2>5, <2>7, <2>8, LeafLevel
  <2>10. k \in R[v]
    BY <1>1, <2>4, <2>8 DEF TreeRoutes
  <2>11. x = Value(k, v)
    BY <1>3, <2>2, <2>3, <2>8, <2>9, <2>10, FreezeSnap
  <2>12. Value(k, n)' = Value(k, n)
    BY <2>1, <2>6, <2>8, QuietFacts
  <2> QED BY <2>9, <2>11, <2>12
<1> QED BY <1>2, <1>3
-----------------------------------------------------------------------------
(***************************************************************************)
(* The theorem.                                                            *)
(***************************************************************************)
\* Everything together: what is known of the tree, what every place holds, and
\* what each call has written or seen.
Updated(R, H) ==
    /\ Ready(R, H) /\ AccInv(R)
    /\ \A p \in Threads :
         WroteInv(R, p) /\ LooksInv(R, p) /\ AnswerInv(R, p) /\ SubInv(R, p)

\* R and H are not part of the state; some such functions exist.
UpdInv == \E R, H : Updated(R, H)

\* At first nothing is in the map and nobody is in a call.
LEMMA UpdInit == Init => UpdInv
<1> SUFFICES ASSUME Init PROVE UpdInv
  OBVIOUS
<1>1. PICK R, H : Ready(R, H)
  BY ReadyInit DEF WalkInv
<1>2. IInv /\ OwnInv /\ TypeOK
  BY <1>1 DEF Ready, IInv
<1>3. /\ \A p \in Threads : pc[p] = "idle"
      /\ \A c \in SlotCells : st[c] = "EMPTY"
      /\ \A k \in Keys : acc[k] = {Nil}
  BY DEF Init, NoOutcomes
<1>4. AccInv(R)
  <2> SUFFICES ASSUME NEW k \in Keys, NEW j \in Places, NEW x, IsVersion(R, k, j, x)
               PROVE  x \in acc[k]
    BY DEF AccInv, Cov
  <2>1. x = Live(k)
    BY <1>3 DEF IsVersion, Sub, Top
  <2>2. Root \in Nodes
    BY <1>1, RootFacts
  <2>3. Leaf(k)[Root] \in Nodes
    BY <1>2, <2>2, LeafEnds DEF Ends
  <2>4. PICK c : c = predict_slot(Leaf(k)[Root], k)
    OBVIOUS
  <2>5. c \in SlotCells
    BY <1>2, <2>3, <2>4, PredictCell
  <2>6. ~Holding(c)
    BY <1>3, <2>5 DEF Holding, ClaimedData
  <2>7. Live(k) = Nil
    BY <2>4, <2>6 DEF Live, Value, ValueAt
  <2> QED BY <1>3, <2>1, <2>7
<1>5. ASSUME NEW p \in Threads
      PROVE  WroteInv(R, p) /\ LooksInv(R, p) /\ AnswerInv(R, p) /\ SubInv(R, p)
  <2>1. pc[p] = "idle"
    BY <1>3
  <2> QED BY <2>1 DEF WroteInv, Wrote, LooksInv, Looks, Past, Rebuilding, AnswerInv,
             Answers, SubInv
<1>6. Updated(R, H)
  BY <1>1, <1>4, <1>5 DEF Updated
<1> QED BY <1>6 DEF UpdInv

\* Every step of a thread keeps it.
LEMMA UpdStep ==
    ASSUME NEW R, NEW H, Updated(R, H), NEW p \in Threads, Begin(p) \/ Step(p)
    PROVE  UpdInv'
<1>1. PICK U, G : Moved(p, R, U, H, G)
  BY ReadyStep DEF Updated
<1>2. AccInv(U)'
  BY <1>1, AccStep DEF Updated
<1>3. ASSUME NEW q \in Threads
      PROVE  WroteInv(U, q)' /\ LooksInv(U, q)' /\ AnswerInv(U, q)' /\ SubInv(U, q)'
  <2>1. /\ WroteInv(R, q) /\ LooksInv(R, q) /\ AnswerInv(R, q) /\ SubInv(R, q)
        /\ SubInv(R, p)
    BY DEF Updated
  <2>2. WroteInv(U, q)'
    BY <1>1, <2>1, WroteStep
  <2>3. LooksInv(U, q)'
    BY <1>1, <2>1, <2>2, LooksStep
  <2>4. AnswerInv(U, q)'
    BY <1>1, <2>1, AnswerStep
  <2>5. SubInv(U, q)'
    BY <1>1, <2>1, SubInvStep
  <2> QED BY <2>2, <2>3, <2>4, <2>5
<1>4. Updated(U, G)'
  BY <1>1, <1>2, <1>3 DEF Updated, Moved
<1> QED BY <1>4 DEF UpdInv

\* A step in which nobody moves.
LEMMA UpdRest ==
    ASSUME NEW R, NEW H, Updated(R, H), UNCHANGED vars
    PROVE  UpdInv'
<1>1. /\ UNCHANGED <<model, st, inline, ptr, tombs, used, retired>>
      /\ UNCHANGED <<len, next_root_rebuild, pc, ops, call, walk>>
      /\ UNCHANGED <<changed, ret, num, rb, acc, before, rival>>
  BY DEF vars, tree, counts, history
<1>2. IInv /\ OwnInv /\ Routed(R) /\ Homed(R, H) /\ Rivals /\ \A q \in Threads : Stages(q)
  BY DEF Updated, Ready
<1>3. \A k : Leaf(k)' = Leaf(k)
  BY <1>1 DEF Leaf, predict_slot, IsChild
<1>4. \A q \in Threads : \A k \in Keys : Effect(q, k)' = Effect(q, k)
  BY <1>1 DEF Active, Effect, EffectOf, Val
<1>5. Ready(R, H)'
  BY ReadyRest DEF Updated
<1>6. \A c : ClaimedData(c)' <=> ClaimedData(c)
  BY <1>1 DEF ClaimedData, Here, predict_slot
<1>7. \A k, n : Value(k, n)' = Value(k, n)
  BY <1>1, <1>3, <1>6 DEF Value, ValueAt, Holding, predict_slot
<1>8. /\ Root' = Root
      /\ \A q : /\ Deep(q)' <=> Deep(q)
                /\ Seen(q)' = Seen(q)
                /\ Early(q)' <=> Early(q)
                /\ \A k : On(q, k)' <=> On(q, k)
                /\ \A x : Overwrites(q, x)' <=> Overwrites(q, x)
  BY <1>1 DEF Root, Deep, Seen, Early, Rebuilding, On, Overwrites
<1>9. ASSUME NEW q PROVE Sees(q)' = Sees(q)
  <2>1. PICK k, n : k = call[q].key /\ n = Seen(q)
    OBVIOUS
  <2>2. k = call'[q].key /\ n = Seen(q)'
    BY <1>1, <1>8, <2>1
  <2> QED BY <1>7, <2>1, <2>2, SeesNext DEF Sees
<1>10. ASSUME NEW k PROVE Live(k)' = Live(k)
  <2>1. PICK n : n = Root
    OBVIOUS
  <2>2. n = Root'
    BY <1>8, <2>1
  <2> QED BY <1>7, <2>1, <2>2, LiveNext DEF Live
<1>11. ASSUME NEW b, NEW k, NEW x PROVE Snap(R, b, k, x)' <=> Snap(R, b, k, x)
  <2>1. Snap(R, b, k, x) <=>
             \/ \E e \in rb[b].pairs : e.key = k /\ e.val = x
             \/ \E i \in 1..Len(rb[b].todo) : \E d :
                  /\ d = rb[b].todo[i] /\ k \in R[d[1]]
                  /\ <<d[1], model[d[1]].slot[k]>> = d /\ x = Value(k, d[1])
             \/ /\ x = Nil
                /\ \A e \in rb[b].pairs : e.key # k
                /\ \A i \in 1..Len(rb[b].todo) : \A d :
                     d = rb[b].todo[i] =>
                       ~(k \in R[d[1]] /\ <<d[1], model[d[1]].slot[k]>> = d)
    BY DEF Snap, OnSlot, predict_slot
  <2> QED BY <1>1, <1>7, <2>1, SnapNext
<1>12. ASSUME NEW k, NEW j, NEW x
       PROVE  /\ IsVersion(R, k, j, x)' <=> IsVersion(R, k, j, x)
              /\ Due(k, j, x)' <=> Due(k, j, x)
  <2>1. \A b : (Sub(b, k)' <=> Sub(b, k)) /\ (Top(b)' <=> Top(b))
    BY <1>1, <1>8 DEF Sub, Top, predict_slot
  <2>2. IsVersion(R, k, j, x)' <=> IsVersion(R, k, j, x)
    BY <1>10, <1>11, <2>1 DEF IsVersion
  <2>3. \A q : Restarts(q)' <=> Restarts(q)
    BY <1>1, <1>8 DEF Restarts
  <2>4. \A q : DueBy(q, k, j, x)' <=> DueBy(q, k, j, x)
    BY <1>1, <1>8, <1>9, <2>3 DEF DueBy, Pending
  <2> QED BY <2>2, <2>4 DEF Due
<1>13. \A k \in Keys : Sure(k)' = Sure(k)
  BY <1>1, <1>4 DEF Sure, Certain
<1>14. AccInv(R)'
  BY <1>1, <1>12, <1>13 DEF AccInv, Cov, Updated
<1>15. ASSUME NEW q \in Threads
       PROVE  WroteInv(R, q)' /\ LooksInv(R, q)' /\ AnswerInv(R, q)' /\ SubInv(R, q)'
  <2>1. WroteInv(R, q) /\ LooksInv(R, q) /\ AnswerInv(R, q) /\ SubInv(R, q)
    BY DEF Updated
  <2>2. /\ Wrote(q)' <=> Wrote(q)
        /\ Looks(q)' <=> Looks(q)
        /\ Answers(q)' <=> Answers(q)
    BY <1>1 DEF Wrote, Looks, Answers, Past, Rebuilding
  <2>3. \A k : Looked(q, k)' = Looked(q, k)
    BY <1>1, <1>9 DEF Looked
  <2>4. WroteInv(R, q)' /\ AnswerInv(R, q)'
    BY <1>1, <1>4, <1>8, <1>12, <2>1, <2>2 DEF WroteInv, AnswerInv, Cov
  <2>5. LooksInv(R, q)'
    BY <1>1, <1>8, <1>12, <2>1, <2>2, <2>3 DEF LooksInv, Cov
  <2>6. SubInv(R, q)'
    <3> SUFFICES ASSUME pc[q] = "rb_scan", NEW c, c = rb[q].cell, c # RootCell,
                        NEW n, n = c[1], NEW k \in OnSlot(R, c), NEW x,
                        Snap(R, q, k, x)
                 PROVE  x = Value(k, n) \/ \E r \in Threads : Dirty(r, q, k)'
      <4>1. OnSlot(R, rb[q].cell)' = OnSlot(R, rb[q].cell)
        BY <1>1 DEF OnSlot, predict_slot
      <4>2. \A k : Value(k, rb[q].cell[1])' = Value(k, rb[q].cell[1])
        <5> SUFFICES ASSUME NEW k
                     PROVE  Value(k, rb[q].cell[1])' = Value(k, rb[q].cell[1])
          OBVIOUS
        <5>1. PICK n : n = rb[q].cell[1]
          OBVIOUS
        <5>2. Value(k, rb[q].cell[1])' = Value(k, n)'
          BY <1>1, <5>1 DEF Value, ValueAt, Holding, ClaimedData, predict_slot
        <5> QED BY <1>7, <5>1, <5>2
      <4> QED BY <1>1, <1>11, <4>1, <4>2 DEF SubInv
    <3>1. x = Value(k, n) \/ \E r \in Threads : Dirty(r, q, k)
      BY <2>1 DEF SubInv
    <3>2. ASSUME NEW r \in Threads, Dirty(r, q, k) PROVE Dirty(r, q, k)'
      <4>1. k \in Keys
        BY <1>2, <3>2 DEF Dirty, On, IInv, TypeOK, ThreadTypes, Calls
      <4>2. PICK v : v = rb[q].victim
        OBVIOUS
      <4>3. /\ On(r, k) /\ walk[r].entry = n /\ Value(k, n) \in Effect(r, k)
            /\ \/ pc[r] = "validate" /\ Deep(r) /\ walk[r].child = v
               \/ pc[r] = "slot" /\ ~Deep(r) /\ (call[r].op = "insert" \/ changed[r])
        BY <3>2, <4>2 DEF Dirty
      <4> QED BY <1>1, <1>4, <1>7, <1>8, <4>1, <4>2, <4>3, DirtyNext
    <3> QED BY <3>1, <3>2
  <2> QED BY <2>4, <2>5, <2>6
<1>16. Updated(R, H)'
  BY <1>5, <1>14, <1>15 DEF Updated
<1> QED BY <1>16 DEF UpdInv

\* Every step, and stuttering.
LEMMA UpdNext == UpdInv /\ [Next]_vars => UpdInv'
<1> SUFFICES ASSUME UpdInv, [Next]_vars PROVE UpdInv'
  OBVIOUS
<1>1. PICK R, H : Updated(R, H)
  BY DEF UpdInv
<1>2. CASE UNCHANGED vars
  BY <1>1, <1>2, UpdRest
<1>3. ASSUME NEW p \in Threads, Begin(p) \/ Step(p) PROVE UpdInv'
  BY <1>1, <1>3, UpdStep
<1> QED BY <1>2, <1>3 DEF Next, Rest

\* The inductive invariant.
THEOREM UpdateInvariance == Spec => []UpdInv
BY UpdInit, UpdNext, PTL DEF Spec

\* With no slot half written, a get finds the value that the walk leads to.
LEMMA LookupValue ==
    ASSUME IInv, OwnInv, \A p \in Threads : pc[p] # "publish", NEW k \in Keys
    PROVE  \A n \in Nodes : LookupFrom(k)[n] = Value(k, n)
<1> DEFINE S == {n \in Nodes : LookupFrom(k)[n] = Value(k, n)}
<1>1. Nodes = 1..MaxNodes /\ MaxNodes \in Nat
  BY UsedFacts DEF IInv
<1>2. ASSUME NEW n \in 1..MaxNodes, \A j \in (n + 1)..MaxNodes : j \in S
      PROVE  n \in S
  <2>1. PICK c : c = predict_slot(n, k)
    OBVIOUS
  <2>2. LookupFrom(k)[n] = IF st[c] = "DATA" /\ inline[c].key = k THEN inline[c].val
                           ELSE IF IsChild(st[c]) THEN LookupFrom(k)[ptr[c].node] ELSE Nil
    BY <1>1, <2>1, FindStep DEF Found
  <2>3. CASE IsChild(st[c])
    <3>1. ptr[c].node \in (n + 1)..MaxNodes /\ Value(k, n) = Value(k, ptr[c].node)
      BY <1>1, <2>1, <2>3, ChildFacts, LeafLevel
    <3>2. LookupFrom(k)[ptr[c].node] = Value(k, ptr[c].node)
      BY <1>2, <3>1
    <3> QED BY <1>1, <2>2, <2>3, <3>1, <3>2 DEF IsChild
  <2>4. CASE ~IsChild(st[c])
    <3>1. Value(k, n) = ValueAt(c, k)
      BY <1>1, <2>1, <2>4, LeafLevel
    <3>2. Holding(c) <=> st[c] = "DATA"
      BY DEF Holding, ClaimedData
    <3> QED BY <1>1, <2>2, <2>4, <3>1, <3>2 DEF ValueAt
  <2> QED BY <2>3, <2>4
<1>3. 1..MaxNodes \subseteq S
  <2> HIDE DEF S
  <2> QED BY <1>1, <1>2, Downwards
<1> QED BY <1>1, <1>3

\* No update is lost: once the calls that may change a key have returned, the map
\* holds for it the outcome of a finished call that no later finished call
\* supersedes, though inserts and removes may have written to subtrees and roots
\* that a rebuild was copying or had replaced (the validation after each CAS of
\* insert.rs and remove.rs, and the root check of map.rs).
THEOREM NoUpdateLost == Spec => []NoLostUpdate
<1>1. ASSUME UpdInv PROVE NoLostUpdate
  <2> SUFFICES ASSUME NEW k \in Keys, Settled(k) PROVE Lookup(k) \in acc[k]
    BY DEF NoLostUpdate
  <2>1. PICK R, H : Updated(R, H)
    BY <1>1 DEF UpdInv
  <2>2. IInv /\ OwnInv /\ TypeOK /\ Root \in Nodes
    BY <2>1, RootFacts DEF Updated
  <2>3. \A p \in Threads : Effect(p, k) = {} /\ pc[p] # "publish"
    BY DEF Settled
  <2>4. Lookup(k) = Live(k)
    BY <2>2, <2>3, LookupValue DEF Lookup, Live, Root
  <2>5. Sure(k) = {}
    BY <2>3 DEF Sure
  <2>6. ~Due(k, "live", Live(k))
    <3> SUFFICES ASSUME NEW p \in Threads, On(p, k) PROVE FALSE
      BY DEF Due, DueBy
    <3>1. Active(p)
      BY DEF On, Active
    <3>2. Effect(p, k) # {}
      BY <2>2, <3>1, EffectFacts DEF On, Writers
    <3> QED BY <2>3, <3>2
  <2>7. IsVersion(R, k, "live", Live(k))
    BY DEF IsVersion
  <2>8. Live(k) \in acc[k] \cup Sure(k)
    BY <2>1, <2>6, <2>7 DEF Updated, AccInv, Cov, Places
  <2> QED BY <2>4, <2>5, <2>8
<1> QED BY <1>1, UpdateInvariance, PTL
=============================================================================
