------------------------- MODULE LearnedTreeRouting -------------------------
(***************************************************************************)
(* Proofs that the tree of LearnedTree is a search tree at every moment,   *)
(* for every set of threads, keys and programs, every configuration and    *)
(* every family of models: each node has one owner, child pointers lead to *)
(* younger nodes, so that what is below a pointer is a tree and every      *)
(* descent ends, and what an iteration sees, lookups find.                 *)
(***************************************************************************)
EXTENDS LearnedTreeProofs, SequenceTheorems, WellFoundedInduction
-----------------------------------------------------------------------------
(***************************************************************************)
(* Pointers.  OneOwner counts the pointers to a node, which is not what a  *)
(* step knows; the inductive form says instead that two cells never lead   *)
(* to one node, that a retired node has no pointer and every other node    *)
(* has one.  It needs that a slot which is not a child slot has no pointer *)
(* (PublishChild overwrites none), and the ownership of WRITING slots and  *)
(* frozen pointers (Swap overwrites the one pointer it retires).           *)
(***************************************************************************)
\* No two cells lead to one node.
Injective ==
    \A c, d \in Cells : ptr[c].node = ptr[d].node => c = d \/ ptr[c].node = Nil

\* A slot that is not a child slot has no child.
NoStrayChild ==
    \A c \in SlotCells : ptr[c].node # Nil => IsChild(st[c])

\* An allocated node is retired or has a pointer, and not both.
Owned ==
    /\ \A n \in 1..used : n \in retired \/ \E c \in Cells : ptr[c].node = n
    /\ \A n \in retired : n \in 1..used /\ \A c \in Cells : ptr[c].node # n

\* A child is younger than the node its slot is in.
Descending ==
    \A c \in SlotCells : ptr[c].node # Nil => ptr[c].node > c[1]

OwnInv == Injective /\ NoStrayChild /\ Owned /\ Descending
-----------------------------------------------------------------------------
\* A step that leaves the pointers, the slots and the garbage as they are.
LEMMA OwnUnchanged ==
    ASSUME OwnInv, \A c \in Cells : ptr'[c].node = ptr[c].node,
           \A c \in SlotCells : IsChild(st[c]) => IsChild(st'[c]),
           UNCHANGED <<used, retired>>
    PROVE  OwnInv'
<1>1. \A c \in SlotCells : c \in Cells
  BY CellFacts
<1>2. Injective'
  BY DEF OwnInv, Injective
<1>3. NoStrayChild'
  BY <1>1 DEF OwnInv, NoStrayChild
<1>4. Owned'
  BY DEF OwnInv, Owned
<1>5. Descending'
  BY <1>1 DEF OwnInv, Descending
<1> QED BY <1>2, <1>3, <1>4, <1>5 DEF OwnInv

\* A step that points cell d, which led nowhere, at a new node.
LEMMA OwnNew ==
    ASSUME IInv, OwnInv, NEW d \in Cells, Fresh \in Nodes, used' = Fresh,
           ptr' = [ptr EXCEPT ![d] = Plain(Fresh)],
           \A c \in SlotCells : IsChild(st[c]) => IsChild(st'[c]),
           d \in SlotCells => IsChild(st'[d]) /\ d[1] <= used,
           ptr[d].node = Nil, retired' = retired
    PROVE  OwnInv'
<1>1. /\ TypeOK /\ TreeInv /\ used \in 1..MaxNodes /\ MaxNodes \in Nat /\ Nodes = 1..MaxNodes
      /\ Fresh = used + 1
  BY UsedFacts DEF IInv
<1>2. \A c \in Cells : ptr'[c].node = IF c = d THEN Fresh ELSE ptr[c].node
  BY <1>1 DEF TypeOK, TreeTypes, Plain
<1>3. \A c \in Cells : ptr[c].node # Nil => ptr[c].node \in 1..used
  <2> SUFFICES ASSUME NEW c \in Cells, ptr[c].node # Nil PROVE ptr[c].node \in 1..used
    OBVIOUS
  <2>1. ptr[c].node \in Nodes
    BY <1>1 DEF TypeOK, TreeTypes, Ptrs
  <2>2. ptr[c].node <= used
    BY <1>1, CellFacts DEF TreeInv
  <2> QED BY <1>1, <2>1, <2>2
<1>4. Fresh # Nil /\ Fresh \notin 1..used
  BY <1>1, ConstantsAssumption
<1>5. Injective'
  <2> SUFFICES ASSUME NEW c \in Cells, NEW e \in Cells, ptr'[c].node = ptr'[e].node, c # e
               PROVE  ptr'[c].node = Nil
    BY DEF Injective
  <2>1. c # d /\ e # d
    BY <1>2, <1>3, <1>4
  <2> QED BY <1>2, <2>1 DEF OwnInv, Injective
<1>6. NoStrayChild'
  BY <1>2, CellFacts DEF OwnInv, NoStrayChild
<1>7. Owned'
  <2>1. retired \subseteq 1..used
    BY DEF OwnInv, Owned
  <2>4. \A n \in retired' : \A c \in Cells : ptr'[c].node # n
    <3> SUFFICES ASSUME NEW n \in retired, NEW c \in Cells PROVE ptr'[c].node # n
      OBVIOUS
    <3>1. CASE c = d
      BY <1>2, <1>4, <2>1, <3>1
    <3>2. CASE c # d
      BY <1>2, <3>2 DEF OwnInv, Owned
    <3> QED BY <3>1, <3>2
  <2>5. \A n \in 1..used' : n \in retired' \/ \E c \in Cells : ptr'[c].node = n
    <3> SUFFICES ASSUME NEW n \in 1..used', n \notin retired'
                 PROVE  \E c \in Cells : ptr'[c].node = n
      OBVIOUS
    <3>1. CASE n = Fresh
      BY <1>2, <3>1
    <3>2. CASE n # Fresh
      <4>1. n \in 1..used /\ n \notin retired
        BY <1>1, <3>2
      <4>2. PICK c \in Cells : ptr[c].node = n
        BY <4>1 DEF OwnInv, Owned
      <4>3. c # d
        <5>1. n # Nil
          BY <1>1, <4>1, ConstantsAssumption
        <5> QED BY <4>2, <5>1
      <4> QED BY <1>2, <4>2, <4>3
    <3> QED BY <3>1, <3>2
  <2>6. \A n \in retired' : n \in 1..used'
    BY <1>1, <2>1
  <2> QED BY <2>4, <2>5, <2>6 DEF Owned
<1>8. Descending'
  <2> SUFFICES ASSUME NEW c \in SlotCells, ptr'[c].node # Nil PROVE ptr'[c].node > c[1]
    BY DEF Descending
  <2>1. CASE c = d
    BY <1>1, <1>2, <2>1, CellFacts, UsedFacts
  <2>2. CASE c # d
    BY <1>2, <2>2, CellFacts DEF OwnInv, Descending
  <2> QED BY <2>1, <2>2
<1> QED BY <1>5, <1>6, <1>7, <1>8 DEF OwnInv

\* Pointers and entries are in allocated nodes, and lead to allocated nodes.
LEMMA Allocated ==
    ASSUME IInv, OwnInv, NEW c \in SlotCells
    PROVE  /\ ptr[c].node # Nil => c[1] <= used /\ ptr[c].node \in Nodes
                                   /\ ptr[c].node <= used
           /\ inline[c] # Nil => c[1] <= used /\ inline[c] \in Entries
<1>1. TypeOK /\ TreeInv /\ c \in Cells
  BY CellFacts DEF IInv
<1>2. used \in Nat /\ c[1] \in Nat
  BY <1>1, UsedFacts
<1>3. c[1] > used => st[c] = "EMPTY" /\ inline[c] = Nil
  BY <1>1 DEF TreeInv
<1>4. ptr[c].node # Nil => st[c] # "EMPTY"
  BY DEF OwnInv, NoStrayChild, IsChild
<1>5. ptr[c].node \in Nodes \cup {Nil} /\ inline[c] \in Entries \cup {Nil}
  BY <1>1 DEF TypeOK, TreeTypes, Ptrs
<1>6. ptr[c].node # Nil => ptr[c].node <= used
  BY <1>1 DEF TreeInv
<1> QED BY <1>2, <1>3, <1>4, <1>5, <1>6

\* The pointers to the nodes a swap adds: one for each, from the cell d to the
\* root of the tree, from an earlier node of it to every other.
LEMMA AddedNodes ==
    ASSUME IInv, OwnInv, NEW kind, NEW g, NEW E, NEW d, Added(kind, g, E, d)
    PROVE  /\ used \in Nat \ {0} /\ Nodes = 1..MaxNodes /\ MaxNodes \in Nat
           /\ Len(g) \in Nat \ {0} /\ used' = used + Len(g) /\ used' \in Nodes
           /\ Fresh = used + 1 /\ d \in Cells
           /\ \A c \in SlotCells : c[1] \in Nodes
           /\ \A c \in SlotCells : c \in NewCells <=> c[1] > used /\ c[1] <= used'
           /\ \A c \in Cells \ NewCells :
                ptr'[c].node = IF c = d THEN Fresh ELSE ptr[c].node
           /\ \A c \in NewCells :
                \/ ptr'[c].node = Nil /\ st'[c] \in {"EMPTY", "DATA"}
                \/ \E j \in 2..Len(g) : NewLink(kind, g, c, j)
           /\ \A c \in NewCells : \A j \in 2..Len(g) :
                NewLink(kind, g, c, j) =>
                    ptr'[c].node = used + j /\ c[1] < used + j /\ st'[c] = "CHILD"
           /\ \A n \in Nodes : n > Fresh /\ n <= used' =>
                \E c \in NewCells : ptr'[c].node = n
           /\ \A c, e \in NewCells :
                ptr'[c].node = ptr'[e].node => c = e \/ ptr'[c].node = Nil
           /\ \A c \in Cells : ptr[c].node # Nil => ptr[c].node \in 1..used
           /\ Nil \notin Nodes
<1>1. /\ TypeOK /\ TreeInv /\ used \in 1..MaxNodes /\ MaxNodes \in Nat
      /\ Nodes = 1..MaxNodes /\ Fresh = used + 1
      /\ \A c \in SlotCells : c[1] \in 1..MaxNodes
  BY UsedFacts DEF IInv
<1>2. /\ Len(g) \in Nat \ {0} /\ used' = used + Len(g) /\ used' \in Nodes /\ d \in Cells
      /\ \A c \in Cells \ NewCells : ptr'[c] = IF c = d THEN Plain(Fresh) ELSE ptr[c]
  BY DEF Added
<1>3. Nil \notin Nodes
  BY ConstantsAssumption
<1>4. \A c \in SlotCells : c \in NewCells <=> c[1] > used /\ c[1] <= used'
  BY <1>1, <1>2 DEF NewCells
<1>5. \A c \in NewCells : ptr[c].node = Nil
  BY <1>1 DEF OwnInv, NoStrayChild, IsChild, TreeInv, NewCells
<1>6. ASSUME NEW c \in NewCells
      PROVE  \/ ptr'[c].node = Nil /\ st'[c] \in {"EMPTY", "DATA"}
             \/ \E j \in 2..Len(g) : NewLink(kind, g, c, j)
  <2>1. \/ NewEmpty(kind, g, c) \/ NewData(kind, g, E, c)
        \/ \E j \in 2..Len(g) : NewLink(kind, g, c, j)
    BY DEF Added
  <2> QED BY <2>1, <1>5 DEF NewEmpty, NewData
<1>7. \A c \in NewCells : \A j \in 2..Len(g) :
         NewLink(kind, g, c, j) =>
             ptr'[c].node = used + j /\ c[1] < used + j /\ st'[c] = "CHILD"
  BY DEF NewLink, Plain
<1>8. ASSUME NEW n \in Nodes, n > Fresh, n <= used'
      PROVE  \E c \in NewCells : ptr'[c].node = n
  <2>1. n - used \in 2..Len(g) /\ used + (n - used) = n
    BY <1>1, <1>2, <1>8
  <2>2. PICK c \in NewCells : NewLink(kind, g, c, n - used)
    BY <2>1 DEF Added
  <2> QED BY <2>1, <2>2, <1>7
<1>9. ASSUME NEW c \in NewCells, NEW e \in NewCells, ptr'[c].node = ptr'[e].node
      PROVE  c = e \/ ptr'[c].node = Nil
  <2> SUFFICES ASSUME ptr'[c].node # Nil PROVE c = e
    OBVIOUS
  <2>1. PICK i \in 2..Len(g) : NewLink(kind, g, c, i)
    BY <1>6
  <2>2. PICK j \in 2..Len(g) : NewLink(kind, g, e, j)
    BY <1>6, <1>9
  <2>3. used + i = used + j
    BY <1>7, <1>9, <2>1, <2>2
  <2>4. i = j
    BY <1>1, <1>2, <2>3
  <2> QED BY <2>1, <2>2, <2>4 DEF Added
<1>10. ASSUME NEW c \in Cells, ptr[c].node # Nil
       PROVE  ptr[c].node \in 1..used
  <2>1. ptr[c].node \in Nodes
    BY <1>1, <1>10 DEF TypeOK, TreeTypes, Ptrs
  <2>2. ptr[c].node <= used
    BY <1>1, <1>10, CellFacts DEF TreeInv
  <2> QED BY <1>1, <2>1, <2>2
<1>11. \A c \in Cells \ NewCells :
          ptr'[c].node = IF c = d THEN Fresh ELSE ptr[c].node
  BY <1>2 DEF Plain
<1> QED BY <1>1, <1>2, <1>3, <1>4, <1>6, <1>7, <1>8, <1>9, <1>10, <1>11

\* A step that puts a tree in the place of cell d.  The node d led to goes to
\* the garbage.
LEMMA OwnSwap ==
    ASSUME IInv, OwnInv, NEW kind, NEW g, NEW E, NEW d, Added(kind, g, E, d),
           d \in SlotCells => IsChild(st[d]) /\ d[1] <= used,
           ptr[d].node # Nil, retired' = retired \cup {ptr[d].node}
    PROVE  OwnInv'
<1>1. /\ used \in Nat \ {0} /\ Nodes = 1..MaxNodes /\ MaxNodes \in Nat
      /\ Len(g) \in Nat \ {0} /\ used' = used + Len(g) /\ used' \in Nodes
      /\ Fresh = used + 1 /\ d \in Cells /\ Nil \notin Nodes
      /\ \A c \in SlotCells : c[1] \in Nodes
      /\ \A c \in SlotCells : c \in NewCells <=> c[1] > used /\ c[1] <= used'
  BY AddedNodes
<1>2. \A c \in Cells \ NewCells :
         ptr'[c].node = IF c = d THEN Fresh ELSE ptr[c].node
  BY AddedNodes
<1>3. /\ \A c \in NewCells :
            \/ ptr'[c].node = Nil /\ st'[c] \in {"EMPTY", "DATA"}
            \/ \E j \in 2..Len(g) : NewLink(kind, g, c, j)
      /\ \A c \in NewCells : \A j \in 2..Len(g) :
           NewLink(kind, g, c, j) =>
               ptr'[c].node = used + j /\ c[1] < used + j /\ st'[c] = "CHILD"
  BY AddedNodes
<1>4. \A n \in Nodes : n > Fresh /\ n <= used' => \E c \in NewCells : ptr'[c].node = n
  BY AddedNodes
<1>5. \A c \in Cells : ptr[c].node # Nil => ptr[c].node \in 1..used
  BY AddedNodes
<1>6. \A c \in NewCells : c \in SlotCells /\ c \in Cells
  BY CellFacts DEF NewCells
<1>7. \A c \in NewCells : ptr'[c].node = Nil \/ ptr'[c].node > Fresh
  BY <1>1, <1>3
<1>8. Injective'
  <2> SUFFICES ASSUME NEW c \in Cells, NEW e \in Cells, ptr'[c].node = ptr'[e].node, c # e
               PROVE  ptr'[c].node = Nil
    BY DEF Injective
  <2>1. CASE c \in NewCells /\ e \in NewCells
    BY <2>1, AddedNodes
  <2>2. CASE c \notin NewCells /\ e \notin NewCells
    <3>1. c # d /\ e # d
      BY <1>1, <1>2, <1>5, <2>2
    <3> QED BY <1>2, <2>2, <3>1 DEF OwnInv, Injective
  <2>3. \A x \in Cells \ NewCells : ptr'[x].node = Nil \/ ptr'[x].node \in 1..Fresh
    BY <1>1, <1>2, <1>5
  <2>4. \A n \in 1..Fresh : ~(n > Fresh) /\ n # Nil
    BY <1>1
  <2> QED BY <1>7, <2>1, <2>2, <2>3, <2>4
<1>9. NoStrayChild'
  <2> SUFFICES ASSUME NEW c \in SlotCells, ptr'[c].node # Nil PROVE IsChild(st'[c])
    BY DEF NoStrayChild, IsChild
  <2>1. CASE c \in NewCells
    BY <1>3, <2>1 DEF IsChild
  <2>2. CASE c \notin NewCells
    <3>1. st'[c] = st[c] /\ c \in Cells
      BY <2>2, CellFacts DEF Added
    <3> QED BY <1>2, <2>2, <3>1 DEF OwnInv, NoStrayChild
  <2> QED BY <2>1, <2>2
<1>10. Owned'
  <2>1. retired' \subseteq 1..used
    BY <1>1, <1>5 DEF OwnInv, Owned
  <2>2. ASSUME NEW n \in retired', NEW c \in Cells PROVE ptr'[c].node # n
    <3>1. n \in 1..used
      BY <2>1
    <3>2. CASE c \in NewCells
      BY <1>1, <1>7, <3>1, <3>2
    <3>3. CASE c \notin NewCells /\ c = d
      BY <1>1, <1>2, <3>1, <3>3
    <3>4. CASE c \notin NewCells /\ c # d /\ n \in retired
      BY <1>2, <3>4 DEF OwnInv, Owned
    <3>5. CASE c \notin NewCells /\ c # d /\ n = ptr[d].node
      BY <1>1, <1>2, <3>5 DEF OwnInv, Injective
    <3> QED BY <3>2, <3>3, <3>4, <3>5
  <2>3. ASSUME NEW n \in 1..used', n \notin retired'
        PROVE  \E c \in Cells : ptr'[c].node = n
    <3>1. CASE n > Fresh
      BY <1>1, <1>4, <1>6, <3>1
    <3>2. CASE n = Fresh
      <4>1. d \in Cells \ NewCells
        BY DEF Added
      <4> QED BY <1>2, <3>2, <4>1
    <3>3. CASE n \in 1..used
      <4>1. PICK c \in Cells : ptr[c].node = n
        BY <2>3, <3>3 DEF OwnInv, Owned
      <4>2. c # d
        BY <2>3, <4>1
      <4>3. c \notin NewCells
        <5>1. n # Nil
          BY <1>1, <3>3
        <5>2. c \in SlotCells => c[1] <= used
          BY <4>1, <5>1, Allocated
        <5> QED BY <1>1, <1>6, <5>2
      <4> QED BY <1>2, <4>1, <4>2, <4>3
    <3> QED BY <1>1, <3>1, <3>2, <3>3
  <2>4. \A n \in retired' : n \in 1..used'
    BY <1>1, <2>1
  <2> QED BY <2>2, <2>3, <2>4 DEF Owned
<1>11. Descending'
  <2> SUFFICES ASSUME NEW c \in SlotCells, ptr'[c].node # Nil PROVE ptr'[c].node > c[1]
    BY DEF Descending
  <2>1. CASE c \in NewCells
    BY <1>3, <2>1
  <2>2. CASE c \notin NewCells /\ c = d
    BY <1>1, <1>2, <2>2
  <2>3. CASE c \notin NewCells /\ c # d
    BY <1>2, <2>3, CellFacts DEF OwnInv, Descending
  <2> QED BY <2>1, <2>2, <2>3
<1> QED BY <1>8, <1>9, <1>10, <1>11 DEF OwnInv

LEMMA OwnInit == Init => OwnInv
<1> SUFFICES ASSUME Init PROVE OwnInv
  OBVIOUS
<1>1. /\ ptr[RootCell].node = 1 /\ used = 1 /\ retired = {}
      /\ \A c \in Cells : c # RootCell => ptr[c].node = Nil
  BY CellFacts DEF Init, Plain
<1>2. 1 # Nil /\ RootCell \in Cells /\ RootCell \notin SlotCells
  BY CellFacts, ConstantsAssumption DEF Nodes
<1>3. \A c \in SlotCells : ptr[c].node = Nil
  BY <1>1, CellFacts
<1> QED BY <1>1, <1>2, <1>3 DEF OwnInv, Injective, NoStrayChild, Owned, Descending

\* Every step keeps it.
LEMMA OwnStep ==
    ASSUME IInv, OwnInv, NEW p \in Threads, Begin(p) \/ Step(p)
    PROVE  OwnInv'
<1>1. /\ TypeOK /\ TypeOK' /\ TreeStep(p) /\ SlotExclusive /\ FreezeExclusive
      /\ \A c \in SlotCells : IsChild(st[c]) => IsChild(st'[c])
  BY StepTypes DEF IInv, TreeStep, Grows
<1>2. CASE LocalStep(p)
  <2>1. UNCHANGED <<ptr, used>>
    BY <1>2, LocalCore DEF core
  <2>2. UNCHANGED retired
    BY <1>2 DEF LocalStep, Begin, Return, LoadRoot, Descend, RemoveMiss, GetExisting,
       Validate, CheckRatio, LoadOwn, Recheck, Count, CheckGrowth, AdvanceThreshold,
       ReadRoot, ReadStep, ScanStep, ScanEnd, LoadVictim, ResetCounters, tree
  <2> QED BY <1>1, <2>1, <2>2, OwnUnchanged
<1>3. CASE Claim(p) \/ PublishInline(p) \/ RemoveHit(p)
  <2>1. UNCHANGED <<ptr, used, retired>>
    BY <1>3 DEF Claim, PublishInline, RemoveHit
  <2> QED BY <1>1, <2>1, OwnUnchanged
<1>4. CASE Freeze(p) \/ Unfreeze(p)
  <2>1. UNCHANGED <<used, retired>>
    BY <1>4 DEF Freeze, Unfreeze
  <2>2. rb[p].cell \in Cells
    BY <1>1 DEF TypeOK, ThreadTypes, Scans
  <2>3. \A c \in Cells : ptr'[c].node = ptr[c].node
    <3>1. CASE Freeze(p) /\ StillUnfrozen(p)
      <4>1. ptr' = [ptr EXCEPT ![rb[p].cell] = Frozen(rb[p].victim)]
        BY <3>1 DEF Freeze
      <4>2. ptr[rb[p].cell].node = rb[p].victim
        BY <3>1 DEF StillUnfrozen, Plain
      <4> QED BY <1>1, <2>2, <4>1, <4>2 DEF TypeOK, TreeTypes, Frozen
    <3>2. CASE Freeze(p) /\ ~StillUnfrozen(p)
      BY <3>2 DEF Freeze
    <3>3. CASE Unfreeze(p)
      <4>1. ptr[rb[p].cell] = Frozen(rb[p].victim)
        BY <1>1, <3>3 DEF Unfreeze, Freezing, FreezeExclusive
      <4>2. ptr' = [ptr EXCEPT ![rb[p].cell] = Plain(rb[p].victim)]
        BY <3>3, <4>1 DEF Unfreeze
      <4> QED BY <1>1, <2>2, <4>1, <4>2 DEF TypeOK, TreeTypes, Plain, Frozen
    <3> QED BY <1>4, <3>1, <3>2, <3>3
  <2> QED BY <1>1, <2>1, <2>3, OwnUnchanged
<1>5. CASE PublishChild(p)
  <2> DEFINE c == Here(p)
  <2>1. c \in SlotCells /\ c \in Cells /\ c[1] <= used
    BY <1>1, HereCell, CellFacts DEF IInv, ThreadInv
  <2>2. /\ Fresh \in Nodes /\ used' = Fresh
        /\ ptr' = [ptr EXCEPT ![c] = Plain(Fresh)] /\ retired' = retired
    BY <1>5 DEF PublishChild, AddNode
  <2>3. st[c] = "WRITING"
    BY <1>1, <1>5 DEF PublishChild, SlotExclusive
  <2>4. ptr[c].node = Nil
    BY <2>1, <2>3 DEF OwnInv, NoStrayChild, IsChild
  <2>5. IsChild(st'[c])
    <3>1. \E f \in [SlotCells -> {"DATA"} \cup SlotStates] :
            st' = [f EXCEPT ![c] = "CHILD_STALE"]
      <4>1. \A m, E : StatesWith(m, E) \in [SlotCells -> {"DATA"} \cup SlotStates]
        BY <1>1 DEF StatesWith, TypeOK, TreeTypes
      <4> QED BY <1>5, <4>1 DEF PublishChild
    <3> QED BY <2>1, <3>1 DEF IsChild
  <2> HIDE DEF c
  <2> QED BY <1>1, <2>1, <2>2, <2>4, <2>5, OwnNew
<1>6. CASE Swap(p)
  <2> DEFINE c == rb[p].cell
  <2>1. /\ ptr[c] = Frozen(rb[p].victim) /\ retired' = retired \cup {rb[p].victim}
        /\ c # RootCell => IsChild(st[c]) /\ c[1] <= used
    BY <1>6, SwapAdds DEF Garbage
  <2>2. PICK g : Added(rb[p].kind, g, NewEntries(p), c)
    BY <1>6, SwapAdds
  <2>3. rb[p].victim \in Nodes
    BY <1>1 DEF TypeOK, ThreadTypes, Scans
  <2>4. ptr[c].node = rb[p].victim /\ ptr[c].node # Nil
    BY <2>1, <2>3, ConstantsAssumption DEF Frozen
  <2>5. c \in SlotCells => IsChild(st[c]) /\ c[1] <= used
    BY <2>1, CellFacts
  <2> QED BY <2>1, <2>2, <2>4, <2>5, OwnSwap
<1> QED BY <1>2, <1>3, <1>4, <1>5, <1>6 DEF Step, LocalStep

\* The counting form follows.
LEMMA OwnCount ==
    ASSUME IInv, OwnInv
    PROVE  OneOwner
<1>1. used \in Nat /\ TypeOK
  BY UsedFacts DEF IInv
<1>2. SUFFICES ASSUME NEW n \in 1..used
               PROVE  Cardinality({c \in Cells : ptr[c].node = n})
                        + (IF n \in retired THEN 1 ELSE 0) = 1
  BY DEF OneOwner
<1>3. n # Nil
  BY UsedFacts, ConstantsAssumption DEF IInv
<1>4. CASE n \in retired
  <2>1. {c \in Cells : ptr[c].node = n} = {}
    BY <1>4 DEF OwnInv, Owned
  <2> QED BY <1>4, <2>1, FS_EmptySet
<1>5. CASE n \notin retired
  <2>1. PICK c \in Cells : ptr[c].node = n
    BY <1>5 DEF OwnInv, Owned
  <2>2. {d \in Cells : ptr[d].node = n} = {c}
    BY <1>3, <2>1 DEF OwnInv, Injective
  <2>3. Cardinality({c}) = 1
    BY FS_Singleton
  <2> QED BY <1>5, <2>2, <2>3
<1> QED BY <1>4, <1>5

LEMMA OwnNext == IInv /\ OwnInv /\ [Next]_vars => OwnInv'
<1> SUFFICES ASSUME IInv, OwnInv, [Next]_vars PROVE OwnInv'
  OBVIOUS
<1>1. CASE UNCHANGED vars
  <2>1. UNCHANGED <<st, ptr, used, retired>>
    BY <1>1 DEF vars, tree
  <2> QED BY <2>1, OwnUnchanged DEF IsChild
<1>2. ASSUME NEW p \in Threads, Begin(p) \/ Step(p) PROVE OwnInv'
  BY <1>2, OwnStep
<1> QED BY <1>1, <1>2 DEF Next, Rest

\* Pointers, slot states and the garbage list agree in every reachable state:
\* PublishChild fills a slot that had no child, and a swap (rebuild.rs, map.rs)
\* retires the node of the one pointer it overwrites.
THEOREM PointerInvariance == Spec => []OwnInv
<1>1. Init => OwnInv
  BY OwnInit
<1>2. IInv /\ OwnInv /\ [Next]_vars => OwnInv'
  BY OwnNext
<1> QED BY <1>1, <1>2, Invariance, PTL DEF Spec

\* Every node belongs to the root pointer, to one child slot or to the garbage
\* list: swaps and conflict children leak no node, defer_destroy is called once
\* for each, and what has been retired can no longer be reached.
THEOREM NodesOwned == Spec => []OneOwner
<1>1. IInv /\ OwnInv => OneOwner
  BY OwnCount
<1> QED BY <1>1, Invariance, PointerInvariance, PTL

\* Pointers lead to younger nodes: a child is allocated for the slot it is put
\* in, so no loop of get, insert or remove can follow pointers forever.
THEOREM Acyclic == Spec => []Descending
<1>1. OwnInv => Descending
  BY DEF OwnInv
<1> QED BY <1>1, PointerInvariance, PTL
-----------------------------------------------------------------------------
(***************************************************************************)
(* Keys.  The inductive form says which keys belong to each node, by a     *)
(* function R from nodes to sets of keys: all of them to the root, and to  *)
(* a child those of its parent that predict to its slot.  R is not part of *)
(* the state; the invariant says that there is one.  It covers the retired *)
(* nodes too, as threads still write to them, and a rebuild that copies a  *)
(* subtree only finds keys of the subtree's root.                          *)
(***************************************************************************)
\* The keys of a node that predict to slot c of it.
OnSlot(R, c) == {k \in R[c[1]] : predict_slot(c[1], k) = c}

\* Children and entries are where their keys predict to.
TreeRoutes(R) ==
    /\ R \in [Nodes -> SUBSET Keys]
    /\ R[ptr[RootCell].node] = Keys
    /\ \A c \in SlotCells : ptr[c].node # Nil => R[ptr[c].node] = OnSlot(R, c)
    /\ \A c \in SlotCells : inline[c] # Nil => inline[c].key \in OnSlot(R, c)

\* The labels only insert, get_or_insert and remove come to.
OnlyWriters(p) ==
    /\ pc[p] \in {"root", "slot", "publish", "validate", "ratio", "own", "recheck"}
         => call[p].op \in Writers
    /\ Rebuilding(p) /\ rb[p].kind = "subtree" => call[p].op \in Writers
    /\ pc[p] = "read" => call[p].op \in Writers \cup {"get"}

\* A writer is at a node of its key, and has entered the tree at a root.
WalkRoutes(R, p) ==
    call[p].op \in Writers /\ pc[p] \notin {"idle", "root"} =>
        call[p].key \in R[walk[p].cur] /\ R[walk[p].entry] = Keys

\* A rebuild scans nodes below the frozen pointer and has collected their keys.
ScanRoutes(R, p) ==
    /\ pc[p] \in {"rb_load", "rb_freeze"} => rb[p].pairs = {}
    /\ pc[p] = "rb_scan" =>
         /\ \A i \in 1..Len(rb[p].todo) :
              rb[p].todo[i][1] <= used
              /\ R[rb[p].todo[i][1]] \subseteq R[rb[p].victim]
         /\ \A e \in rb[p].pairs : e.key \in R[rb[p].victim]

Routed(R) ==
    /\ TreeRoutes(R)
    /\ \A p \in Threads : OnlyWriters(p) /\ WalkRoutes(R, p) /\ ScanRoutes(R, p)

RouteInv == \E R : Routed(R)
-----------------------------------------------------------------------------
(***************************************************************************)
(* What steps do to the tree.                                              *)
(***************************************************************************)
\* A step that leaves models, entries and nodes pointed to as they are.
LEMMA RoutesKept ==
    ASSUME NEW R, TreeRoutes(R), UNCHANGED <<model, inline>>,
           \A c \in Cells : ptr'[c].node = ptr[c].node
    PROVE  TreeRoutes(R)'
<1>1. \A c \in SlotCells : OnSlot(R, c)' = OnSlot(R, c)
  BY DEF OnSlot, predict_slot
<1>2. \A c \in SlotCells : ptr'[c].node = ptr[c].node
  BY CellFacts
<1>3. ptr'[RootCell].node = ptr[RootCell].node
  BY CellFacts
<1> QED BY <1>1, <1>2, <1>3 DEF TreeRoutes

\* A step that stores an entry in its slot.
LEMMA RoutesStored ==
    ASSUME TypeOK, NEW R, TreeRoutes(R), UNCHANGED <<model, ptr>>,
           NEW d \in SlotCells, NEW e, inline' = [inline EXCEPT ![d] = e],
           e.key \in OnSlot(R, d)
    PROVE  TreeRoutes(R)'
<1>1. \A c \in SlotCells : OnSlot(R, c)' = OnSlot(R, c)
  BY DEF OnSlot, predict_slot
<1>2. \A c \in SlotCells : inline'[c] = IF c = d THEN e ELSE inline[c]
  BY DEF TypeOK, TreeTypes
<1> QED BY <1>1, <1>2 DEF TreeRoutes

\* A step that points cell d at a new node.
LEMMA RoutesNew ==
    ASSUME IInv, OwnInv, TypeOK', NEW R, TreeRoutes(R),
           NEW m \in Models, NEW E \in SUBSET Entries, AddNode(m, E),
           NEW d \in Cells, d # RootCell => d[1] <= used,
           ptr' = [ptr EXCEPT ![d] = Plain(Fresh)],
           NEW X, X = IF d = RootCell THEN Keys ELSE OnSlot(R, d),
           \A e \in E : e.key \in X,
           NEW U, U = [R EXCEPT ![Fresh] = X]
    PROVE  TreeRoutes(U)'
<1> DEFINE at(e) == <<Fresh, m.slot[e.key]>>
           filled == {at(e) : e \in E}
<1>1. /\ TypeOK /\ used \in 1..MaxNodes /\ MaxNodes \in Nat
      /\ Nodes = 1..MaxNodes /\ Fresh = used + 1
      /\ \A c \in SlotCells : c[1] \in 1..MaxNodes
  BY UsedFacts DEF IInv
<1>2. /\ Fresh \in Nodes /\ used' = Fresh
      /\ model' = [model EXCEPT ![Fresh] = m]
      /\ inline' = [c \in SlotCells |->
                      IF c \in filled THEN CHOOSE e \in E : at(e) = c
                                      ELSE inline[c]]
  BY DEF AddNode
<1>3. X \in SUBSET Keys /\ R \in [Nodes -> SUBSET Keys]
  <2>1. R \in [Nodes -> SUBSET Keys]
    BY DEF TreeRoutes
  <2>2. d # RootCell => d \in SlotCells /\ d[1] \in Nodes
    BY <1>1, CellFacts
  <2> QED BY <2>1, <2>2 DEF OnSlot
<1>4. /\ U \in [Nodes -> SUBSET Keys] /\ U[Fresh] = X
      /\ \A n \in Nodes : n # Fresh => U[n] = R[n]
  BY <1>2, <1>3
<1>5. \A c \in SlotCells : c[1] <= used => OnSlot(U, c)' = OnSlot(R, c)
  <2> SUFFICES ASSUME NEW c \in SlotCells, c[1] <= used
               PROVE  OnSlot(U, c)' = OnSlot(R, c)
    OBVIOUS
  <2>1. c[1] \in Nodes /\ c[1] # Fresh
    BY <1>1
  <2>2. model'[c[1]] = model[c[1]]
    BY <1>1, <1>2, <2>1 DEF TypeOK, TreeTypes
  <2>3. U[c[1]] = R[c[1]]
    BY <1>4, <2>1
  <2> QED BY <2>2, <2>3 DEF OnSlot, predict_slot
<1>6. \A c \in Cells : ptr'[c].node = IF c = d THEN Fresh ELSE ptr[c].node
  BY <1>1 DEF TypeOK, TreeTypes, Plain
<1>7. U[ptr'[RootCell].node] = Keys
  <2>1. CASE d = RootCell
    BY <1>4, <1>6, <2>1
  <2>2. CASE d # RootCell
    <3>1. ptr[RootCell].node \in 1..used
      BY DEF IInv, TreeInv
    <3>2. ptr[RootCell].node \in Nodes /\ ptr[RootCell].node # Fresh
      BY <1>1, <3>1
    <3>3. ptr'[RootCell].node = ptr[RootCell].node
      BY <1>6, <2>2, CellFacts
    <3> QED BY <1>4, <3>2, <3>3 DEF TreeRoutes
  <2> QED BY <2>1, <2>2
<1>8. ASSUME NEW c \in SlotCells, ptr'[c].node # Nil
      PROVE  U[ptr'[c].node] = OnSlot(U, c)'
  <2>1. c \in Cells /\ c # RootCell
    BY CellFacts
  <2>2. CASE c = d
    BY <1>4, <1>5, <1>6, <2>1, <2>2
  <2>3. CASE c # d
    <3>1. ptr'[c].node = ptr[c].node
      BY <1>6, <2>1, <2>3
    <3>2. c[1] <= used /\ ptr[c].node \in Nodes /\ ptr[c].node <= used
      BY <1>8, <3>1, Allocated
    <3>3. ptr[c].node # Fresh
      BY <1>1, <3>2
    <3>4. U[ptr[c].node] = R[ptr[c].node]
      BY <1>4, <3>2, <3>3
    <3>5. R[ptr[c].node] = OnSlot(R, c)
      BY <1>8, <3>1 DEF TreeRoutes
    <3> QED BY <1>5, <3>1, <3>2, <3>4, <3>5
  <2> QED BY <2>2, <2>3
<1>9. ASSUME NEW c \in SlotCells, inline'[c] # Nil
      PROVE  inline'[c].key \in OnSlot(U, c)'
  <2>1. CASE c \in filled
    <3>1. PICK e \in E : at(e) = c /\ inline'[c] = e
      BY <1>2, <2>1
    <3>2. inline'[c] = e
      BY <3>1
    <3>3. c[1] = Fresh /\ e.key \in X
      BY <3>1
    <3>4. model'[Fresh] = m
      BY <1>1, <1>2 DEF TypeOK, TreeTypes
    <3>5. <<c[1], model'[c[1]].slot[e.key]>> = c
      BY <3>1, <3>3, <3>4
    <3>6. U[c[1]] = X
      BY <1>4, <3>3
    <3> QED BY <3>2, <3>3, <3>5, <3>6 DEF OnSlot, predict_slot
  <2>2. CASE c \notin filled
    <3>1. inline'[c] = inline[c]
      BY <1>2, <2>2
    <3>2. c[1] <= used
      BY <1>9, <3>1, Allocated
    <3>3. inline[c].key \in OnSlot(R, c)
      BY <1>9, <3>1 DEF TreeRoutes
    <3> QED BY <1>5, <3>1, <3>2, <3>3
  <2> QED BY <2>1, <2>2
<1> QED BY <1>4, <1>7, <1>8, <1>9 DEF TreeRoutes

\* R and U give the same keys to the allocated nodes.
Agree(R, U) == \A n \in Nodes : n <= used => U[n] = R[n]

\* The sets that pass down a tree: X to its root 1, to any other node j those of
\* from[j] that are in into[j].  They are the union of all the families that
\* pass on no more than that, of which g is one.
PassesOn(n, X, from, into, g) ==
    /\ n \in Nat \ {0} /\ X \in SUBSET Keys
    /\ from \in [2..n -> 1..n] /\ into \in [2..n -> SUBSET Keys]
    /\ g \in [1..n -> SUBSET Keys] /\ g[1] \subseteq X
    /\ \A j \in 2..n : g[j] \subseteq g[from[j]] \cap into[j]

LEMMA PassedDown ==
    ASSUME NEW n, NEW X, NEW from, NEW into, NEW g, PassesOn(n, X, from, into, g)
    PROVE  \E W \in [1..n -> SUBSET Keys] :
             /\ W[1] = X /\ \A j \in 2..n : W[j] = W[from[j]] \cap into[j]
             /\ \A i \in 1..n : g[i] \subseteq W[i]
<1> USE DEF PassesOn
<1> DEFINE F == {V \in [1..n -> SUBSET Keys] :
                   V[1] \subseteq X /\ \A j \in 2..n : V[j] \subseteq V[from[j]] \cap into[j]}
           W == [i \in 1..n |-> UNION {V[i] : V \in F}]
           Z == [i \in 1..n |-> IF i = 1 THEN X ELSE W[from[i]] \cap into[i]]
<1>1. /\ 1 \in 1..n /\ \A i \in 1..n : i # 1 => i \in 2..n
      /\ \A j \in 2..n : j \in 1..n /\ j # 1 /\ from[j] \in 1..n /\ into[j] \in SUBSET Keys
  OBVIOUS
<1>2. W \in [1..n -> SUBSET Keys]
  OBVIOUS
<1>3. \A V \in F : \A i \in 1..n : V[i] \subseteq W[i]
  OBVIOUS
<1>4. W[1] \subseteq X
  BY <1>1
<1>5. ASSUME NEW j \in 2..n PROVE W[j] \subseteq W[from[j]] \cap into[j]
  <2> SUFFICES ASSUME NEW k \in W[j] PROVE k \in W[from[j]] /\ k \in into[j]
    OBVIOUS
  <2>1. PICK V \in F : k \in V[j]
    BY <1>1
  <2>2. k \in V[from[j]] /\ k \in into[j]
    BY <2>1
  <2> QED BY <1>1, <1>3, <2>2
<1>6. \A i \in 1..n : W[i] \subseteq Z[i]
  BY <1>1, <1>4, <1>5
<1>7. Z \in F
  <2>1. Z \in [1..n -> SUBSET Keys] /\ Z[1] = X
    BY <1>1, <1>2
  <2>2. ASSUME NEW j \in 2..n PROVE Z[j] \subseteq Z[from[j]] \cap into[j]
    <3>1. Z[j] = W[from[j]] \cap into[j]
      BY <1>1
    <3> HIDE DEF Z
    <3> QED BY <3>1, <1>1, <1>6
  <2> HIDE DEF Z
  <2> QED BY <2>1, <2>2
<1>8. \A i \in 1..n : Z[i] \subseteq W[i]
  BY <1>3, <1>7
<1>9. \A i \in 1..n : W[i] = Z[i]
  BY <1>6, <1>8
<1>10. g \in F
  OBVIOUS
<1>11. W[1] = X /\ \A j \in 2..n : W[j] = W[from[j]] \cap into[j]
  BY <1>1, <1>9
<1> HIDE DEF F, W, Z
<1> QED BY <1>2, <1>3, <1>10, <1>11

\* Where the keys of a tree's nodes go: node j hangs in a slot of an earlier node,
\* and is built for the keys of it that predict to that slot.
LEMMA AddedKeys ==
    ASSUME IInv, OwnInv, NEW kind, NEW g, NEW E, NEW d, Added(kind, g, E, d),
           NEW j \in 2..Len(g), NEW c \in NewCells, NewLink(kind, g, c, j)
    PROVE  /\ c[1] - used \in 1..Len(g) /\ c[1] - used < j
           /\ g[j] = {k \in g[c[1] - used] : predict_slot(c[1], k)' = c}
<1>1. /\ used \in Nat /\ Nodes = 1..MaxNodes /\ Len(g) \in Nat /\ used' = used + Len(g)
      /\ \A e \in SlotCells : e \in NewCells <=> e[1] > used /\ e[1] <= used'
      /\ c[1] < used + j
  BY AddedNodes
<1>2. c \in SlotCells /\ c[1] \in Nat /\ c = <<c[1], c[2]>>
  BY <1>1 DEF NewCells, SlotCells
<1>3. c[1] - used \in 1..Len(g) /\ c[1] - used < j /\ used + (c[1] - used) = c[1]
  BY <1>1, <1>2
<1>4. g[j] = {k \in g[c[1] - used] : Fit(kind, g[c[1] - used]).slot[k] = c[2]}
  BY <1>3 DEF NewLink, NewKeys, Added
<1>5. model'[c[1]] = Fit(kind, g[c[1] - used])
  BY <1>3 DEF Added
<1>6. \A k : predict_slot(c[1], k)' = <<c[1], model'[c[1]].slot[k]>>
  BY DEF predict_slot
<1>7. \A k : predict_slot(c[1], k)' = c <=> Fit(kind, g[c[1] - used]).slot[k] = c[2]
  BY <1>2, <1>5, <1>6
<1> QED BY <1>3, <1>4, <1>7

\* A step that puts a tree in the place of cell d.
LEMMA RoutesSwap ==
    ASSUME IInv, OwnInv, NEW R, TreeRoutes(R),
           NEW kind, NEW g, NEW E \in SUBSET Entries, NEW d, Added(kind, g, E, d),
           d # RootCell => d[1] <= used,
           NEW X, X = IF d = RootCell THEN Keys ELSE OnSlot(R, d),
           \A e \in E : e.key \in X
    PROVE  \E U : TreeRoutes(U)' /\ Agree(R, U)
<1> DEFINE n == Len(g)
<1>1. /\ used \in Nat \ {0} /\ Nodes = 1..MaxNodes /\ MaxNodes \in Nat
      /\ n \in Nat \ {0} /\ used' = used + n /\ used' \in Nodes
      /\ Fresh = used + 1 /\ d \in Cells
      /\ \A c \in SlotCells : c[1] \in Nodes
      /\ \A c \in SlotCells : c \in NewCells <=> c[1] > used /\ c[1] <= used'
      /\ \A c \in Cells \ NewCells :
           ptr'[c].node = IF c = d THEN Fresh ELSE ptr[c].node
      /\ Nil \notin Nodes /\ \A c \in Cells : ptr[c].node # Nil => ptr[c].node \in 1..used
  BY AddedNodes
<1>2. X \in SUBSET Keys /\ R \in [Nodes -> SUBSET Keys]
  <2>1. R \in [Nodes -> SUBSET Keys]
    BY DEF TreeRoutes
  <2>2. d # RootCell => d \in SlotCells /\ d[1] \in Nodes
    BY <1>1, CellFacts
  <2> QED BY <2>1, <2>2 DEF OnSlot
<1>3. PICK cell \in [2..n -> NewCells] : \A j \in 2..n : NewLink(kind, g, cell[j], j)
  <2>1. \A j \in 2..n : \E c \in NewCells : NewLink(kind, g, c, j)
    BY DEF Added
  <2> DEFINE h == [j \in 2..n |-> CHOOSE c \in NewCells : NewLink(kind, g, c, j)]
  <2>2. \A j \in 2..n : h[j] \in NewCells /\ NewLink(kind, g, h[j], j)
    BY <2>1
  <2>3. h \in [2..n -> NewCells]
    BY <2>2
  <2> HIDE DEF h
  <2> QED BY <2>2, <2>3
<1>4. PICK from, into :
        /\ from = [j \in 2..n |-> cell[j][1] - used]
        /\ into = [j \in 2..n |-> {k \in Keys : predict_slot(cell[j][1], k)' = cell[j]}]
  OBVIOUS
<1>5. ASSUME NEW j \in 2..n
      PROVE  /\ cell[j] \in NewCells /\ from[j] = cell[j][1] - used /\ from[j] \in 1..n
             /\ into[j] = {k \in Keys : predict_slot(cell[j][1], k)' = cell[j]}
             /\ g[j] = g[from[j]] \cap into[j]
             /\ \A c \in NewCells : NewLink(kind, g, c, j) => c = cell[j]
  <2>1. PICK c \in NewCells : c = cell[j] /\ NewLink(kind, g, c, j)
    BY <1>3
  <2>2. \A x \in NewCells : NewLink(kind, g, x, j) => x = c
    BY <2>1 DEF Added
  <2>3. from[j] = c[1] - used /\ into[j] = {k \in Keys : predict_slot(c[1], k)' = c}
    BY <1>4, <2>1
  <2>4. /\ from[j] \in 1..n
        /\ g[j] = {k \in g[from[j]] : predict_slot(c[1], k)' = c}
    BY <2>1, <2>3, AddedKeys
  <2>5. g[from[j]] \in SUBSET Keys
    BY <2>4 DEF Added
  <2> QED BY <2>1, <2>2, <2>3, <2>4, <2>5
<1>6. g[1] \subseteq X /\ \A i \in 1..n : g[i] \in SUBSET Keys
  BY DEF Added
<1>7. PICK W \in [1..n -> SUBSET Keys] :
             /\ W[1] = X /\ \A j \in 2..n : W[j] = W[from[j]] \cap into[j]
             /\ \A i \in 1..n : g[i] \subseteq W[i]
  <2>1. from \in [2..n -> 1..n] /\ into \in [2..n -> SUBSET Keys]
    <3>1. from = [j \in 2..n |-> from[j]] /\ into = [j \in 2..n |-> into[j]]
      BY <1>4
    <3> QED BY <3>1, <1>5
  <2>2. PICK h : h = [i \in 1..n |-> g[i]]
    OBVIOUS
  <2>3. h \in [1..n -> SUBSET Keys] /\ \A i \in 1..n : h[i] = g[i]
    BY <1>6, <2>2
  <2>4. h[1] \subseteq X
    BY <1>1, <1>6, <2>3
  <2>5. ASSUME NEW j \in 2..n PROVE h[j] \subseteq h[from[j]] \cap into[j]
    <3>1. j \in 1..n /\ from[j] \in 1..n
      BY <1>1, <1>5
    <3>2. h[j] = g[j] /\ h[from[j]] = g[from[j]]
      BY <2>3, <3>1
    <3> QED BY <1>5, <3>2
  <2>6. PICK m : m = n /\ m \in Nat \ {0}
    BY <1>1
  <2>7. \E W \in [1..m -> SUBSET Keys] :
             /\ W[1] = X /\ \A j \in 2..m : W[j] = W[from[j]] \cap into[j]
             /\ \A i \in 1..m : h[i] \subseteq W[i]
    <3>1. PassesOn(m, X, from, into, h)
      <4>1. from \in [2..m -> 1..m] /\ into \in [2..m -> SUBSET Keys]
        BY <2>1, <2>6
      <4>2. h \in [1..m -> SUBSET Keys]
        BY <2>3, <2>6
      <4>3. \A j \in 2..m : h[j] \subseteq h[from[j]] \cap into[j]
        BY <2>5, <2>6
      <4> QED BY <1>2, <2>4, <2>6, <4>1, <4>2, <4>3 DEF PassesOn
    <3> HIDE DEF n
    <3> QED BY <3>1, PassedDown
  <2> QED BY <2>3, <2>6, <2>7
<1>8. PICK U : U = [m \in Nodes |-> IF m > used /\ m <= used' THEN W[m - used] ELSE R[m]]
  OBVIOUS
<1>9. /\ U \in [Nodes -> SUBSET Keys]
      /\ \A m \in Nodes : m <= used => U[m] = R[m]
      /\ \A m \in Nodes : m > used /\ m <= used' => U[m] = W[m - used]
  <2>1. \A m \in Nodes : m > used /\ m <= used' => W[m - used] \in SUBSET Keys
    BY <1>1, <1>7
  <2>2. \A m \in Nodes : U[m] = IF m > used /\ m <= used' THEN W[m - used] ELSE R[m]
    BY <1>8
  <2>3. \A m \in Nodes : m <= used => ~(m > used)
    BY <1>1
  <2>4. U = [m \in Nodes |-> U[m]]
    BY <1>8
  <2> QED BY <1>2, <2>1, <2>2, <2>3, <2>4
<1>10. \A i \in 1..n : U[used + i] = W[i] /\ used + i \in Nodes
  <2> SUFFICES ASSUME NEW i \in 1..n PROVE U[used + i] = W[i] /\ used + i \in Nodes
    OBVIOUS
  <2>1. used + i \in Nodes /\ used + i > used /\ used + i <= used' /\ (used + i) - used = i
    BY <1>1
  <2> QED BY <1>9, <2>1
<1>11. ASSUME NEW c \in SlotCells, c[1] <= used
      PROVE  OnSlot(U, c)' = OnSlot(R, c) /\ c \notin NewCells /\ c \in Cells
  <2>1. c[1] \in Nodes /\ c \notin NewCells /\ c \in Cells
    BY <1>1, <1>11, CellFacts
  <2>2. model'[c[1]] = model[c[1]]
    BY <1>11, <2>1 DEF Added
  <2>3. U[c[1]] = R[c[1]]
    BY <1>9, <1>11, <2>1
  <2> QED BY <2>1, <2>2, <2>3 DEF OnSlot, predict_slot
<1>12. ASSUME NEW c \in NewCells
      PROVE  /\ c[1] - used \in 1..n /\ c \in SlotCells
             /\ OnSlot(U, c)' = {k \in W[c[1] - used] : predict_slot(c[1], k)' = c}
  <2>1. c \in SlotCells /\ c[1] \in Nodes /\ c[1] > used /\ c[1] <= used'
    BY <1>1 DEF NewCells
  <2>2. c[1] - used \in 1..n
    BY <1>1, <2>1
  <2>3. U[c[1]] = W[c[1] - used]
    BY <1>9, <2>1
  <2> QED BY <2>1, <2>2, <2>3 DEF OnSlot
<1>13. U[ptr'[RootCell].node] = Keys
  <2>1. RootCell \in Cells \ NewCells
    BY CellFacts DEF NewCells
  <2>2. CASE d = RootCell
    BY <1>1, <1>7, <1>10, <2>1, <2>2
  <2>3. CASE d # RootCell
    <3>1. ptr'[RootCell].node = ptr[RootCell].node /\ ptr[RootCell].node \in 1..used
      BY <1>1, <2>1, <2>3 DEF IInv, TreeInv
    <3>2. ptr[RootCell].node \in Nodes /\ ptr[RootCell].node <= used
      BY <1>1, <3>1
    <3> QED BY <1>9, <3>1, <3>2 DEF TreeRoutes
  <2> QED BY <2>2, <2>3
<1>14. ASSUME NEW c \in SlotCells, ptr'[c].node # Nil
       PROVE  U[ptr'[c].node] = OnSlot(U, c)'
  <2>1. CASE c \in NewCells
    <3>1. PICK j \in 2..n : NewLink(kind, g, c, j)
      BY <1>14, <2>1, AddedNodes
    <3>2. ptr'[c].node = used + j /\ j \in 1..n
      BY <2>1, <3>1, AddedNodes
    <3>3. c = cell[j] /\ from[j] = c[1] - used
      BY <1>5, <2>1, <3>1
    <3>4. into[j] = {k \in Keys : predict_slot(c[1], k)' = c}
      BY <1>5, <3>3
    <3>5. W[j] = W[from[j]] \cap into[j] /\ W[from[j]] \in SUBSET Keys
      BY <1>5, <1>7
    <3>6. W[j] = {k \in W[c[1] - used] : predict_slot(c[1], k)' = c}
      BY <3>3, <3>4, <3>5
    <3> QED BY <1>10, <1>12, <2>1, <3>2, <3>6
  <2>2. CASE c \notin NewCells /\ c = d
    <3>1. c # RootCell /\ c \in Cells
      BY CellFacts
    <3>2. ptr'[c].node = Fresh /\ X = OnSlot(R, c) /\ c[1] <= used
      BY <1>1, <2>2, <3>1
    <3>3. U[Fresh] = X
      BY <1>1, <1>7, <1>10
    <3> QED BY <1>11, <3>2, <3>3
  <2>3. CASE c \notin NewCells /\ c # d
    <3>1. ptr'[c].node = ptr[c].node
      BY <1>1, <2>3, CellFacts
    <3>2. c[1] <= used /\ ptr[c].node \in Nodes /\ ptr[c].node <= used
      BY <1>14, <3>1, Allocated
    <3>3. R[ptr[c].node] = OnSlot(R, c)
      BY <1>14, <3>1 DEF TreeRoutes
    <3> QED BY <1>9, <1>11, <3>1, <3>2, <3>3
  <2> QED BY <2>1, <2>2, <2>3
<1>15. ASSUME NEW c \in SlotCells, inline'[c] # Nil
       PROVE  inline'[c].key \in OnSlot(U, c)'
  <2>1. CASE c \in NewCells
    <3>1. inline'[c] \in E /\ NewKeys(kind, g, c) = {inline'[c].key}
      BY <1>15, <2>1 DEF Added, NewEmpty, NewData, NewLink
    <3> DEFINE i == c[1] - used
    <3>2. i \in 1..n /\ used + i = c[1] /\ c = <<c[1], c[2]>>
      BY <1>1, <1>12, <2>1 DEF SlotCells
    <3>3. NewKeys(kind, g, c) = {k \in g[i] : Fit(kind, g[i]).slot[k] = c[2]}
      BY <3>2 DEF NewKeys, Added
    <3>4. PICK k \in g[i] : k = inline'[c].key /\ Fit(kind, g[i]).slot[k] = c[2]
      BY <3>1, <3>3
    <3>5. model'[c[1]] = Fit(kind, g[i])
      BY <3>2 DEF Added
    <3>6. predict_slot(c[1], k)' = c
      BY <3>2, <3>4, <3>5 DEF predict_slot
    <3>7. k \in W[i]
      BY <1>7, <3>2, <3>4
    <3> QED BY <1>12, <2>1, <3>4, <3>6, <3>7
  <2>2. CASE c \notin NewCells
    <3>1. inline'[c] = inline[c]
      BY <2>2 DEF Added
    <3>2. c[1] <= used
      BY <1>15, <3>1, Allocated
    <3>3. inline[c].key \in OnSlot(R, c)
      BY <1>15, <3>1 DEF TreeRoutes
    <3> QED BY <1>11, <3>1, <3>2, <3>3
  <2> QED BY <2>1, <2>2
<1>16. TreeRoutes(U)'
  BY <1>9, <1>13, <1>14, <1>15 DEF TreeRoutes
<1>17. Agree(R, U)
  BY <1>9 DEF Agree
<1> QED BY <1>16, <1>17

\* Any step of a thread.
LEMMA StepRoutes ==
    ASSUME IInv, OwnInv, NEW R, Routed(R), NEW p \in Threads, Begin(p) \/ Step(p)
    PROVE  \E U : TreeRoutes(U)' /\ Agree(R, U)
<1>1. TypeOK /\ TypeOK' /\ SlotExclusive /\ FreezeExclusive /\ TreeRoutes(R)
  BY StepTypes DEF IInv, Routed
<1>2. Agree(R, R)
  BY DEF Agree
<1>3. CASE LocalStep(p)
  <2>1. UNCHANGED <<model, inline, ptr>>
    BY <1>3, LocalCore DEF core
  <2>2. TreeRoutes(R)'
    BY <1>1, <2>1, RoutesKept
  <2> QED BY <1>2, <2>2
<1>4. CASE Claim(p) \/ RemoveHit(p)
  <2>1. UNCHANGED <<model, inline, ptr>>
    BY <1>4 DEF Claim, RemoveHit
  <2>2. TreeRoutes(R)'
    BY <1>1, <2>1, RoutesKept
  <2> QED BY <1>2, <2>2
<1>5. CASE Freeze(p) \/ Unfreeze(p)
  <2>1. UNCHANGED <<model, inline>>
    BY <1>5 DEF Freeze, Unfreeze
  <2>2. rb[p].cell \in Cells
    BY <1>1 DEF TypeOK, ThreadTypes, Scans
  <2>3. \A c \in Cells : ptr'[c].node = ptr[c].node
    <3>1. CASE Freeze(p) /\ StillUnfrozen(p)
      <4>1. ptr' = [ptr EXCEPT ![rb[p].cell] = Frozen(rb[p].victim)]
        BY <3>1 DEF Freeze
      <4>2. ptr[rb[p].cell].node = rb[p].victim
        BY <3>1 DEF StillUnfrozen, Plain
      <4> QED BY <1>1, <2>2, <4>1, <4>2 DEF TypeOK, TreeTypes, Frozen
    <3>2. CASE Freeze(p) /\ ~StillUnfrozen(p)
      BY <3>2 DEF Freeze
    <3>3. CASE Unfreeze(p)
      <4>1. ptr[rb[p].cell] = Frozen(rb[p].victim)
        BY <1>1, <3>3 DEF Unfreeze, Freezing, FreezeExclusive
      <4>2. ptr' = [ptr EXCEPT ![rb[p].cell] = Plain(rb[p].victim)]
        BY <3>3, <4>1 DEF Unfreeze
      <4> QED BY <1>1, <2>2, <4>1, <4>2 DEF TypeOK, TreeTypes, Plain, Frozen
    <3> QED BY <1>5, <3>1, <3>2, <3>3
  <2>4. TreeRoutes(R)'
    BY <1>1, <2>1, <2>3, RoutesKept
  <2> QED BY <1>2, <2>4
<1>6. /\ Here(p) \in SlotCells /\ Here(p) \in Cells /\ Here(p) # RootCell
      /\ Here(p)[1] = walk[p].cur /\ Here(p)[1] <= used
      /\ call[p].key \in Keys
  <2>1. call[p].key \in Keys
    BY <1>1 DEF TypeOK, ThreadTypes, Calls
  <2> QED BY <1>1, <2>1, HereCell, CellFacts DEF IInv, ThreadInv
<1>7. pc[p] = "publish" => call[p].key \in OnSlot(R, Here(p))
  <2> SUFFICES ASSUME pc[p] = "publish" PROVE call[p].key \in OnSlot(R, Here(p))
    OBVIOUS
  <2>1. call[p].op \in Writers
    BY DEF Routed, OnlyWriters
  <2>2. call[p].key \in R[walk[p].cur]
    BY <2>1 DEF Routed, WalkRoutes
  <2> QED BY <1>6, <2>2 DEF OnSlot, Here
<1>8. CASE PublishInline(p)
  <2> DEFINE e == [key |-> call[p].key, val |-> Val(p)]
  <2>1. /\ pc[p] = "publish" /\ UNCHANGED <<model, ptr>>
        /\ inline' = [inline EXCEPT ![Here(p)] = e]
    BY <1>8 DEF PublishInline
  <2>2. e.key \in OnSlot(R, Here(p))
    BY <1>7, <2>1
  <2> HIDE DEF e
  <2>3. TreeRoutes(R)'
    <3>1. PICK d \in SlotCells : d = Here(p)
      BY <1>6
    <3>2. PICK f : f = e
      OBVIOUS
    <3>3. inline' = [inline EXCEPT ![d] = f] /\ f.key \in OnSlot(R, d)
      BY <2>1, <2>2, <3>1, <3>2
    <3> QED BY <1>1, <2>1, <3>3, RoutesStored
  <2> QED BY <1>2, <2>3
<1>9. CASE PublishChild(p)
  <2> DEFINE c    == Here(p)
             mine == [key |-> call[p].key, val |-> Val(p)]
             both == walk[p].from = "DATA" /\ ~SameKey(p)
             E    == IF both THEN {mine, inline[c]} ELSE {mine}
             m    == IF both THEN ConflictModel(inline[c].key, mine.key)
                             ELSE SingleModel(mine.key)
  <2>1. /\ pc[p] = "publish" /\ AddNode(m, E)
        /\ ptr' = [ptr EXCEPT ![c] = Plain(Fresh)]
    BY <1>9 DEF PublishChild
  <2>2. call[p].key \in Keys /\ mine \in Entries
    BY <1>1, <1>6, ValType DEF Entries
  <2>3. both => inline[c] \in Entries /\ inline[c] # Nil /\ inline[c].key # call[p].key
    <3>1. inline[c] \in Entries \cup {Nil}
      BY <1>1, <1>6 DEF TypeOK, TreeTypes
    <3>2. both => inline[c] # Nil
      BY <2>1 DEF IInv, ThreadInv
    <3> QED BY <3>1, <3>2 DEF SameKey
  <2>4. E \in SUBSET Entries /\ m \in Models
    BY <2>2, <2>3, ModelsAssumption DEF Entries
  <2>5. \A e \in E : e.key \in OnSlot(R, c)
    <3>1. mine.key \in OnSlot(R, c)
      BY <1>7, <2>1
    <3>2. both => inline[c].key \in OnSlot(R, c)
      BY <1>6, <2>3 DEF TreeRoutes, Routed
    <3> QED BY <3>1, <3>2
  <2>6. c \in Cells /\ c # RootCell /\ c[1] <= used
    BY <1>6
  <2> HIDE DEF c, E, m, both, mine
  <2>7. PICK d, X, F, n, U :
          /\ d = c /\ X = OnSlot(R, c) /\ F = E /\ n = m
          /\ U = [R EXCEPT ![Fresh] = X]
    OBVIOUS
  <2>8. TreeRoutes(U)'
    BY <1>1, <2>1, <2>4, <2>5, <2>6, <2>7, RoutesNew
  <2>9. Agree(R, U)
    BY <1>1, <2>7, UsedFacts DEF Agree, TreeRoutes
  <2> QED BY <2>8, <2>9
<1>10. CASE Swap(p)
  <2> DEFINE c == rb[p].cell
  <2>1. /\ ptr[c] = Frozen(rb[p].victim) /\ NewEntries(p) \in SUBSET Entries
        /\ c # RootCell => c[1] <= used
    BY <1>10, SwapAdds
  <2>2. PICK g : Added(rb[p].kind, g, NewEntries(p), c)
    BY <1>10, SwapAdds
  <2>3. c \in Cells /\ rb[p].victim \in Nodes
    BY <1>1 DEF TypeOK, ThreadTypes, Scans
  <2>4. ptr[c].node = rb[p].victim /\ ptr[c].node # Nil
    BY <2>1, <2>3, ConstantsAssumption DEF Frozen
  <2>5. R[rb[p].victim] = IF c = RootCell THEN Keys ELSE OnSlot(R, c)
    BY <1>1, <2>3, <2>4, CellFacts DEF TreeRoutes
  <2>6. \A e \in NewEntries(p) : e.key \in R[rb[p].victim]
    <3>1. pc[p] = "rb_scan"
      BY <1>10 DEF Swap
    <3>2. \A e \in rb[p].pairs : e.key \in R[rb[p].victim]
      BY <3>1 DEF Routed, ScanRoutes
    <3> QED BY <3>2 DEF NewEntries
  <2>7. PICK k, X : k = rb[p].kind /\ X = R[rb[p].victim]
    OBVIOUS
  <2> HIDE DEF c
  <2>8. PICK d, E : d = c /\ E = NewEntries(p)
    OBVIOUS
  <2> QED BY <1>1, <2>1, <2>2, <2>5, <2>6, <2>7, <2>8, RoutesSwap
<1> QED BY <1>3, <1>4, <1>5, <1>8, <1>9, <1>10 DEF Step, LocalStep
-----------------------------------------------------------------------------
(***************************************************************************)
(* What steps do to the threads.                                           *)
(***************************************************************************)
\* The threads that do not take the step.
LEMMA OtherRoutes ==
    ASSUME IInv, NEW R, Routed(R), NEW p \in Threads, Begin(p) \/ Step(p),
           NEW U, Agree(R, U), TreeStep(p), NEW q \in Threads \ {p}
    PROVE  OnlyWriters(q)' /\ WalkRoutes(U, q)' /\ ScanRoutes(U, q)'
<1>1. TypeOK /\ used \in Nat
  BY UsedFacts DEF IInv
<1>2. pc'[q] = pc[q] /\ walk'[q] = walk[q] /\ rb'[q] = rb[q] /\ call'[q] = call[q]
  <2>1. Frame(p)
    BY <1>1, StepFrame DEF TypeOK
  <2> QED BY <2>1 DEF Frame
<1>3. OnlyWriters(q) /\ WalkRoutes(R, q) /\ ScanRoutes(R, q)
  BY DEF Routed
<1>4. OnlyWriters(q)'
  BY <1>2, <1>3 DEF OnlyWriters, Rebuilding
<1>5. WalkRoutes(U, q)'
  <2>1. /\ walk[q].cur \in Nodes /\ walk[q].cur <= used
        /\ walk[q].entry \in Nodes /\ walk[q].entry <= used
    BY <1>1 DEF TypeOK, ThreadTypes, Walks, IInv, ThreadInv
  <2> QED BY <1>2, <1>3, <2>1 DEF WalkRoutes, Agree
<1>6. ScanRoutes(U, q)'
  <2>1. CASE pc[q] = "rb_scan"
    <3>1. rb[q].victim \in Nodes /\ rb[q].cell \in Cells /\ rb[q].todo \in Seq(SlotCells)
      BY <1>1 DEF TypeOK, ThreadTypes, Scans
    <3>2. ptr[rb[q].cell].node = rb[q].victim
      <4>1. ptr[rb[q].cell] = Frozen(rb[q].victim)
        BY <2>1 DEF IInv, FreezeExclusive, Freezing
      <4> QED BY <4>1 DEF Frozen
    <3>3. rb[q].victim <= used
      BY <1>1, <3>1, <3>2, CellFacts, ConstantsAssumption DEF IInv, TreeInv
    <3>4. U[rb[q].victim] = R[rb[q].victim]
      BY <3>1, <3>3 DEF Agree
    <3>5. used <= used' /\ used' \in Nat
      BY <1>1 DEF TreeStep, Grows, TreeTypes, Nodes
    <3>6. ASSUME NEW i \in 1..Len(rb[q].todo)
          PROVE  rb[q].todo[i][1] <= used'
                 /\ U[rb[q].todo[i][1]] \subseteq U[rb[q].victim]
      <4>1. rb[q].todo[i] \in SlotCells
        BY <3>1
      <4>2. rb[q].todo[i][1] \in Nodes /\ rb[q].todo[i][1] \in Nat
        BY <4>1 DEF SlotCells, Nodes
      <4>3. rb[q].todo[i][1] <= used
            /\ R[rb[q].todo[i][1]] \subseteq R[rb[q].victim]
        BY <1>3, <2>1 DEF ScanRoutes
      <4>4. U[rb[q].todo[i][1]] = R[rb[q].todo[i][1]]
        BY <4>2, <4>3 DEF Agree
      <4> QED BY <1>1, <3>4, <3>5, <4>2, <4>3, <4>4
    <3>7. \A e \in rb[q].pairs : e.key \in U[rb[q].victim]
      BY <1>3, <2>1, <3>4 DEF ScanRoutes
    <3> QED BY <1>2, <2>1, <3>6, <3>7 DEF ScanRoutes
  <2>2. CASE pc[q] # "rb_scan"
    BY <1>2, <1>3, <2>2 DEF ScanRoutes
  <2> QED BY <2>1, <2>2
<1> QED BY <1>4, <1>5, <1>6

\* Only writers come where only writers come.
LEMMA StepWriters ==
    ASSUME IInv, NEW p \in Threads, OnlyWriters(p), Begin(p) \/ Step(p)
    PROVE  OnlyWriters(p)'
<1>1. TypeOK /\ ThreadTypes
  BY DEF IInv, TypeOK
<1>2. pc[p] = "rb_post" => rb[p].kind # "subtree"
  BY DEF IInv, ThreadInv
<1>3. pc[p] = "own" => call[p].op = "get_or_insert"
  BY DEF IInv, ThreadInv
<1> USE DEF OnlyWriters, Rebuilding, Goto, ThreadTypes
<1>4. CASE Begin(p)
  <2>1. PICK c \in Program[p][ops[p] + 1] :
          /\ call' = [call EXCEPT ![p] = c]
          /\ IF c.op \in Sweepers
             THEN StartRebuild(p, c.op, RootCell)
             ELSE /\ Goto(p, IF c.op \in Writers THEN "root" ELSE "read_root")
                  /\ UNCHANGED rb
    BY <1>4 DEF Begin
  <2>2. call'[p] = c
    BY <1>1, <2>1
  <2>3. CASE c.op \in Sweepers
    <3>1. pc'[p] = "rb_load" /\ rb'[p].kind = c.op
      BY <1>1, <2>1, <2>3 DEF StartRebuild, NoScan
    <3> QED BY <2>3, <3>1 DEF Sweepers
  <2>4. CASE c.op \notin Sweepers
    <3>1. pc'[p] = IF c.op \in Writers THEN "root" ELSE "read_root"
      BY <1>1, <2>1, <2>4
    <3> QED BY <2>2, <3>1
  <2> QED BY <2>3, <2>4
<1>5. CASE Return(p)
  BY <1>1, <1>5 DEF Return
<1>6. CASE LoadRoot(p) \/ Descend(p) \/ Claim(p) \/ PublishInline(p)
           \/ PublishChild(p) \/ RemoveMiss(p) \/ RemoveHit(p) \/ GetExisting(p)
  BY <1>1, <1>6 DEF LoadRoot, Descend, Claim, PublishInline, PublishChild,
     RemoveMiss, RemoveHit, GetExisting
<1>7. CASE Validate(p)
  <2>1. call[p].op \in Writers /\ call' = call /\ pc[p] = "validate"
    BY <1>7 DEF Validate
  <2>2. pc'[p] \in {"slot", "rb_load", "ratio", "own", "recheck"}
    BY <1>1, <1>7 DEF Validate, StartRebuild, AfterTrigger
  <2> QED BY <2>1, <2>2
<1>8. CASE CheckRatio(p)
  <2>1. call[p].op \in Writers /\ call' = call
    BY <1>8 DEF CheckRatio
  <2>2. pc'[p] \in {"rb_load", "recheck"}
    BY <1>1, <1>8 DEF CheckRatio, StartRebuild
  <2> QED BY <2>1, <2>2
<1>9. CASE LoadOwn(p)
  BY <1>1, <1>3, <1>9 DEF LoadOwn, Writers
<1>10. CASE Recheck(p) \/ Count(p) \/ CheckGrowth(p)
  BY <1>1, <1>10 DEF Recheck, Count, CheckGrowth
<1>11. CASE AdvanceThreshold(p)
  <2>1. CASE next_root_rebuild = num[p]
    <3>1. pc'[p] = "rb_load" /\ rb'[p].kind = "rebuild"
      BY <1>1, <1>11, <2>1 DEF AdvanceThreshold, StartRebuild, NoScan
    <3> QED BY <3>1
  <2>2. CASE next_root_rebuild # num[p]
    <3>1. pc'[p] = "return"
      BY <1>1, <1>11, <2>2 DEF AdvanceThreshold
    <3> QED BY <3>1
  <2> QED BY <2>1, <2>2
<1>12. CASE ReadRoot(p)
  BY <1>1, <1>12 DEF ReadRoot
<1>13. CASE ReadStep(p)
  BY <1>1, <1>13 DEF ReadStep
<1>14. CASE ScanStep(p)
  <2>1. pc'[p] = pc[p] /\ call' = call /\ rb'[p].kind = rb[p].kind
    <3>1. rb'[p] = Scanned(p, Head(rb[p].todo))
      BY <1>1, <1>14 DEF ScanStep
    <3>2. rb[p] \in Scans
      BY <1>1
    <3> QED BY <1>14, <3>1, <3>2 DEF ScanStep, Scanned, Scans
  <2> QED BY <2>1
<1>15. CASE ScanEnd(p)
  BY <1>1, <1>15 DEF ScanEnd
<1>16. CASE LoadVictim(p) \/ Freeze(p) \/ Unfreeze(p) \/ Swap(p)
  <2>1. call' = call /\ pc[p] \in {"rb_load", "rb_freeze", "rb_scan"}
    BY <1>16 DEF LoadVictim, Freeze, Unfreeze, Swap
  <2>2. \/ pc'[p] = Caller(p)
        \/ pc'[p] = "rb_post"
        \/ pc'[p] \in {"rb_freeze", "rb_scan"} /\ rb'[p].kind = rb[p].kind
    <3>1. rb[p] \in Scans
      BY <1>1
    <3> QED BY <1>1, <1>16, <3>1 DEF LoadVictim, Freeze, Unfreeze, Swap, GiveUp, Scans
  <2>3. \/ Caller(p) \in {"own", "recheck"} /\ rb[p].kind = "subtree"
        \/ Caller(p) = "return"
    BY DEF Caller, AfterTrigger
  <2> QED BY <2>1, <2>2, <2>3
<1>17. CASE ResetCounters(p)
  BY <1>1, <1>2, <1>17 DEF ResetCounters, Caller
<1> QED BY <1>4, <1>5, <1>6, <1>7, <1>8, <1>9, <1>10, <1>11, <1>12, <1>13, <1>14,
           <1>15, <1>16, <1>17 DEF Step

\* Where the step leaves its thread in the tree.
LEMMA StepWalk ==
    ASSUME IInv, OwnInv, NEW R, Routed(R), NEW p \in Threads, Begin(p) \/ Step(p),
           NEW U, Agree(R, U), TypeOK'
    PROVE  WalkRoutes(U, p)'
<1>1. TypeOK /\ ThreadTypes /\ TreeRoutes(R) /\ OnlyWriters(p) /\ WalkRoutes(R, p)
  BY DEF IInv, TypeOK, Routed
<1>2. /\ walk[p].cur \in Nodes /\ walk[p].cur <= used
      /\ walk[p].entry \in Nodes /\ walk[p].entry <= used
      /\ call[p].key \in Keys /\ walk[p] \in Walks
  BY <1>1 DEF ThreadTypes, Walks, Calls, IInv, ThreadInv
<1>3. U[walk[p].cur] = R[walk[p].cur] /\ U[walk[p].entry] = R[walk[p].entry]
  BY <1>2 DEF Agree
<1>4. ASSUME call' = call, walk'[p].cur = walk[p].cur, walk'[p].entry = walk[p].entry,
             pc[p] \notin {"idle", "root"}
      PROVE  WalkRoutes(U, p)'
  BY <1>1, <1>3, <1>4 DEF WalkRoutes
<1> USE DEF Goto
<1>5. CASE Begin(p)
  <2>1. PICK c \in Program[p][ops[p] + 1] :
          /\ call' = [call EXCEPT ![p] = c]
          /\ IF c.op \in Sweepers
             THEN StartRebuild(p, c.op, RootCell)
             ELSE /\ Goto(p, IF c.op \in Writers THEN "root" ELSE "read_root")
                  /\ UNCHANGED rb
    BY <1>5 DEF Begin
  <2>2. call'[p] = c
    BY <1>1, <2>1 DEF ThreadTypes
  <2>3. c.op \in Writers => pc'[p] = "root"
    BY <1>1, <2>1 DEF ThreadTypes, Writers, Sweepers
  <2> QED BY <2>2, <2>3 DEF WalkRoutes
<1>6. CASE Return(p)
  <2>1. pc'[p] = "idle"
    BY <1>1, <1>6 DEF Return, ThreadTypes
  <2> QED BY <2>1 DEF WalkRoutes
<1>7. CASE LoadRoot(p)
  <2>1. /\ walk'[p] = WalkFrom(ptr[RootCell].node) /\ call' = call
    BY <1>1, <1>7 DEF LoadRoot, ThreadTypes
  <2>2. walk'[p].cur = ptr[RootCell].node /\ walk'[p].entry = ptr[RootCell].node
    BY <2>1 DEF WalkFrom, NoWalk
  <2>3. ptr[RootCell].node \in Nodes /\ ptr[RootCell].node <= used
    BY <1>1, PointerType, UsedFacts DEF IInv, TreeInv
  <2>4. U[ptr[RootCell].node] = Keys
    BY <1>1, <2>3 DEF Agree, TreeRoutes
  <2> QED BY <1>2, <2>1, <2>2, <2>4 DEF WalkRoutes
<1>8. CASE Descend(p)
  <2>1. /\ pc[p] = "slot" /\ IsChild(st[Here(p)]) /\ call' = call
        /\ walk'[p] = Followed(p, Here(p))
    BY <1>1, <1>8 DEF Descend, ThreadTypes
  <2>2. walk'[p].cur = ptr[Here(p)].node /\ walk'[p].entry = walk[p].entry
    BY <1>2, <2>1 DEF Followed, Walks
  <2>3. Here(p) \in SlotCells /\ Here(p)[1] = walk[p].cur
    BY <1>1, HereCell
  <2>4. /\ ptr[Here(p)].node # Nil /\ ptr[Here(p)].node \in Nodes
        /\ ptr[Here(p)].node <= used
    BY <2>1, <2>3, Allocated DEF IInv, TreeInv
  <2>5. call[p].key \in R[walk[p].cur] /\ R[walk[p].entry] = Keys
    BY <1>1, <2>1 DEF OnlyWriters, WalkRoutes
  <2>6. call[p].key \in OnSlot(R, Here(p))
    BY <2>3, <2>5 DEF OnSlot, Here
  <2>7. call[p].key \in U[ptr[Here(p)].node]
    BY <1>1, <2>3, <2>4, <2>6 DEF TreeRoutes, Agree
  <2> QED BY <1>3, <2>1, <2>2, <2>5, <2>7 DEF WalkRoutes
<1>9. CASE Claim(p)
  <2>1. walk'[p].cur = walk[p].cur /\ walk'[p].entry = walk[p].entry
    BY <1>1, <1>2, <1>9 DEF Claim, ThreadTypes, Walks
  <2> QED BY <1>4, <1>9, <2>1 DEF Claim
<1>10. CASE Validate(p)
  <2>1. pc[p] = "validate" /\ call' = call
    BY <1>10 DEF Validate
  <2>2. CASE walk' = walk
    BY <1>4, <2>1, <2>2
  <2>3. CASE walk' = [walk EXCEPT ![p] = WalkFrom(walk[p].entry)]
    <3>1. walk'[p].cur = walk[p].entry /\ walk'[p].entry = walk[p].entry
      BY <1>1, <2>3 DEF ThreadTypes, WalkFrom, NoWalk
    <3>2. R[walk[p].entry] = Keys
      BY <1>1, <2>1 DEF OnlyWriters, WalkRoutes
    <3> QED BY <1>2, <1>3, <2>1, <3>1, <3>2 DEF WalkRoutes
  <2> QED BY <1>10, <2>2, <2>3 DEF Validate
<1>11. CASE LoadOwn(p) \/ ReadRoot(p) \/ ReadStep(p)
  <2>1. call' = call /\ pc[p] \in {"own", "read_root", "read"}
    BY <1>11 DEF LoadOwn, ReadRoot, ReadStep
  <2>2. walk' = walk \/ \E n : walk' = [walk EXCEPT ![p].at = n]
    BY <1>11 DEF LoadOwn, ReadRoot, ReadStep
  <2>3. walk'[p].cur = walk[p].cur /\ walk'[p].entry = walk[p].entry
    BY <1>1, <1>2, <2>2 DEF ThreadTypes, Walks
  <2> QED BY <1>4, <2>1, <2>3
<1>12. CASE PublishInline(p) \/ PublishChild(p) \/ RemoveMiss(p) \/ RemoveHit(p)
            \/ GetExisting(p) \/ CheckRatio(p) \/ Recheck(p) \/ Count(p)
            \/ CheckGrowth(p) \/ AdvanceThreshold(p) \/ ScanStep(p) \/ ScanEnd(p)
            \/ LoadVictim(p) \/ Freeze(p) \/ Unfreeze(p) \/ Swap(p)
            \/ ResetCounters(p)
  <2>1. UNCHANGED <<call, walk>> /\ pc[p] \notin {"idle", "root"}
    BY <1>12 DEF PublishInline, PublishChild, RemoveMiss, RemoveHit, GetExisting,
       CheckRatio, Recheck, Count, CheckGrowth, AdvanceThreshold, ScanStep, ScanEnd,
       LoadVictim, Freeze, Unfreeze, Swap, ResetCounters
  <2> QED BY <1>4, <2>1
<1> QED BY <1>5, <1>6, <1>7, <1>8, <1>9, <1>10, <1>11, <1>12 DEF Step

\* Iter::new visits slots of its node only.
LEMMA ScanOfNode ==
    ASSUME TypeOK, NEW n \in Nodes
    PROVE  \A i \in 1..Len(ScanOf(n)) : ScanOf(n)[i][1] = n
<1>1. model[n].scan \in Seq(Slots)
  BY DEF TypeOK, TreeTypes, Models
<1>2. Len(model[n].scan) \in Nat
  BY <1>1
<1> QED BY <1>2 DEF ScanOf

\* What the step leaves its thread to scan and to rebuild from.
LEMMA StepScans ==
    ASSUME IInv, OwnInv, NEW R, Routed(R), NEW p \in Threads, Begin(p) \/ Step(p),
           NEW U, Agree(R, U)
    PROVE  ScanRoutes(U, p)'
<1>1. TypeOK /\ ThreadTypes /\ TreeRoutes(R) /\ ScanRoutes(R, p) /\ rb[p] \in Scans
  BY DEF IInv, TypeOK, ThreadTypes, Routed
<1>2. ASSUME pc'[p] \notin {"rb_load", "rb_freeze", "rb_scan"}
      PROVE  ScanRoutes(U, p)'
  BY <1>2 DEF ScanRoutes
<1>3. ASSUME NEW kind, NEW c, StartRebuild(p, kind, c)
      PROVE  ScanRoutes(U, p)'
  <2>1. pc'[p] = "rb_load" /\ rb'[p].pairs = {}
    BY <1>1, <1>3 DEF StartRebuild, Goto, NoScan, ThreadTypes
  <2> QED BY <2>1 DEF ScanRoutes
<1>4. CASE Begin(p)
  <2>1. PICK c \in Program[p][ops[p] + 1] :
          IF c.op \in Sweepers
          THEN StartRebuild(p, c.op, RootCell)
          ELSE Goto(p, IF c.op \in Writers THEN "root" ELSE "read_root")
    BY <1>4 DEF Begin
  <2>2. CASE c.op \in Sweepers
    BY <1>3, <2>1, <2>2
  <2>3. CASE c.op \notin Sweepers
    <3>1. pc'[p] \in {"root", "read_root"}
      BY <1>1, <2>1, <2>3 DEF Goto, ThreadTypes
    <3> QED BY <1>2, <3>1
  <2> QED BY <2>2, <2>3
<1>5. CASE Validate(p)
  <2>1. CASE StartRebuild(p, "subtree", walk[p].snap)
    BY <1>3, <2>1
  <2>2. CASE ~StartRebuild(p, "subtree", walk[p].snap)
    <3>1. pc'[p] \in {"slot", "ratio", "own", "recheck"}
      BY <1>1, <1>5, <2>2 DEF Validate, AfterTrigger, Goto, ThreadTypes
    <3> QED BY <1>2, <3>1
  <2> QED BY <2>1, <2>2
<1>6. CASE CheckRatio(p)
  <2>1. CASE StartRebuild(p, "subtree", walk[p].snap)
    BY <1>3, <2>1
  <2>2. CASE ~StartRebuild(p, "subtree", walk[p].snap)
    <3>1. pc'[p] = "recheck"
      BY <1>1, <1>6, <2>2 DEF CheckRatio, Goto, ThreadTypes
    <3> QED BY <1>2, <3>1
  <2> QED BY <2>1, <2>2
<1>7. CASE AdvanceThreshold(p)
  <2>1. CASE StartRebuild(p, "rebuild", RootCell)
    BY <1>3, <2>1
  <2>2. CASE ~StartRebuild(p, "rebuild", RootCell)
    <3>1. pc'[p] = "return"
      BY <1>1, <1>7, <2>2 DEF AdvanceThreshold, Goto, ThreadTypes
    <3> QED BY <1>2, <3>1
  <2> QED BY <2>1, <2>2
<1>8. CASE LoadVictim(p)
  <2>1. CASE pc'[p] = "rb_freeze"
    <3>1. pc[p] = "rb_load" /\ rb'[p].pairs = rb[p].pairs
      BY <1>1, <1>8 DEF LoadVictim, Scans, ThreadTypes
    <3> QED BY <1>1, <2>1, <3>1 DEF ScanRoutes
  <2>2. CASE pc'[p] # "rb_freeze"
    <3>1. pc'[p] = Caller(p)
      BY <1>1, <1>8, <2>2 DEF LoadVictim, GiveUp, Goto, ThreadTypes
    <3> QED BY <1>2, <3>1 DEF Caller, AfterTrigger
  <2> QED BY <2>1, <2>2
<1>9. CASE Freeze(p) /\ StillUnfrozen(p)
  <2> DEFINE v == rb[p].victim
  <2>1. /\ pc[p] = "rb_freeze" /\ pc'[p] = "rb_scan"
        /\ rb'[p] = [rb[p] EXCEPT !.todo = ScanOf(v)]
        /\ ptr[rb[p].cell] = Plain(v) /\ UNCHANGED used
    BY <1>1, <1>9 DEF Freeze, StillUnfrozen, Goto, ThreadTypes
  <2>2. rb'[p].victim = v /\ rb'[p].pairs = {} /\ rb'[p].todo = ScanOf(v)
    BY <1>1, <2>1 DEF ScanRoutes, Scans
  <2>3. v \in Nodes /\ rb[p].cell \in Cells
    BY <1>1 DEF Scans
  <2>4. v <= used
    <3>1. ptr[rb[p].cell].node = v /\ v # Nil
      BY <2>1, <2>3, ConstantsAssumption DEF Plain
    <3> QED BY <1>1, <2>3, <3>1, CellFacts, UsedFacts DEF IInv, TreeInv
  <2> HIDE DEF v
  <2>5. \A i \in 1..Len(ScanOf(v)) : ScanOf(v)[i][1] = v
    BY <1>1, <2>3, ScanOfNode
  <2> QED BY <2>1, <2>2, <2>4, <2>5 DEF ScanRoutes
<1>10. CASE Freeze(p) /\ ~StillUnfrozen(p)
  <2>1. pc'[p] = Caller(p)
    BY <1>1, <1>10 DEF Freeze, GiveUp, Goto, ThreadTypes
  <2> QED BY <1>2, <2>1 DEF Caller, AfterTrigger
<1>11. CASE Unfreeze(p) \/ Swap(p) \/ ResetCounters(p)
  <2>1. pc'[p] \in {Caller(p), "rb_post"}
    BY <1>1, <1>11 DEF Unfreeze, Swap, ResetCounters, GiveUp, Goto, ThreadTypes
  <2> QED BY <1>2, <2>1 DEF Caller, AfterTrigger
<1>12. CASE ScanStep(p) /\ pc[p] = "rb_scan"
  <2> DEFINE c     == Head(rb[p].todo)
             v     == rb[p].victim
             below == IF IsChild(st[c]) THEN ScanOf(ptr[c].node) ELSE <<>>
             rest  == Tail(rb[p].todo)
             todo  == rb[p].todo
             good(d) == d[1] <= used /\ R[d[1]] \subseteq R[v]
  <2>1. /\ pc' = pc /\ todo # <<>> /\ UNCHANGED used
        /\ rb'[p] = Scanned(p, c)
    BY <1>1, <1>12 DEF ScanStep, ThreadTypes, tree
  <2>2. /\ rb'[p].victim = v /\ rb'[p].todo = below \o rest
        /\ rb'[p].pairs = IF st[c] = "DATA" THEN rb[p].pairs \cup {inline[c]}
                                            ELSE rb[p].pairs
    BY <1>1, <2>1 DEF Scanned, Scans
  <2>3. /\ todo \in Seq(SlotCells) /\ v \in Nodes /\ rb[p].cell \in Cells
    BY <1>1 DEF Scans
  <2>4. v <= used
    <3>1. ptr[rb[p].cell] = Frozen(v)
      BY <1>12 DEF IInv, FreezeExclusive, Freezing
    <3>2. ptr[rb[p].cell].node = v /\ v # Nil
      BY <2>3, <3>1, ConstantsAssumption DEF Frozen
    <3> QED BY <1>1, <2>3, <3>2, CellFacts, UsedFacts DEF IInv, TreeInv
  <2>5. /\ \A i \in 1..Len(todo) : good(todo[i])
        /\ \A e \in rb[p].pairs : e.key \in R[v]
    BY <1>1, <1>12 DEF ScanRoutes
  <2> HIDE DEF v
  <2>6. c \in SlotCells /\ c = todo[1] /\ 1 \in 1..Len(todo)
    BY <2>1, <2>3
  <2>7. good(c)
    BY <2>5, <2>6
  <2>8. rest \in Seq(SlotCells) /\ \A i \in 1..Len(rest) : good(rest[i])
    <3>1. /\ rest \in Seq(SlotCells) /\ Len(rest) = Len(todo) - 1
          /\ \A i \in 1..Len(rest) : rest[i] = todo[i + 1]
      BY <2>1, <2>3
    <3>2. Len(todo) \in Nat
      BY <2>3
    <3>3. \A i \in 1..Len(rest) : i + 1 \in 1..Len(todo)
      BY <3>1, <3>2
    <3> HIDE DEF rest, todo, good
    <3> QED BY <2>5, <3>1, <3>3
  <2>9. below \in Seq(SlotCells) /\ \A i \in 1..Len(below) : good(below[i])
    <3>1. CASE IsChild(st[c])
      <4>1. /\ ptr[c].node # Nil /\ ptr[c].node \in Nodes /\ ptr[c].node <= used
        BY <2>6, <3>1, Allocated DEF IInv, TreeInv
      <4>2. R[ptr[c].node] = OnSlot(R, c)
        BY <1>1, <2>6, <4>1 DEF TreeRoutes
      <4>3. R[ptr[c].node] \subseteq R[v]
        BY <2>7, <4>2 DEF OnSlot
      <4>4. /\ ScanOf(ptr[c].node) \in Seq(SlotCells)
            /\ \A i \in 1..Len(ScanOf(ptr[c].node)) :
                 ScanOf(ptr[c].node)[i][1] = ptr[c].node
        BY <1>1, <4>1, ScanOfNode, ScanOfType
      <4> HIDE DEF c
      <4> QED BY <3>1, <4>1, <4>3, <4>4
    <3>2. CASE ~IsChild(st[c])
      <4>1. below = <<>>
        BY <3>2
      <4> HIDE DEF below, good
      <4>2. below \in Seq(SlotCells) /\ Len(below) = 0
        BY <4>1
      <4> QED BY <4>2
    <3> QED BY <3>1, <3>2
  <2>10. st[c] = "DATA" => inline[c].key \in R[v]
    <3> SUFFICES ASSUME st[c] = "DATA" PROVE inline[c].key \in R[v]
      OBVIOUS
    <3>1. inline[c] # Nil
      BY <2>6 DEF IInv, TreeInv
    <3>2. inline[c].key \in R[c[1]]
      BY <1>1, <2>6, <3>1 DEF TreeRoutes, OnSlot
    <3> QED BY <2>7, <3>2
  <2>11. \A i \in 1..Len(below \o rest) : good((below \o rest)[i])
    <3> HIDE DEF below, rest, good
    <3> QED BY <2>8, <2>9, ConcatProperties
  <2> HIDE DEF below, rest, c, todo
  <2>12. \A d : d \in SlotCells /\ good(d) =>
            d[1] <= used' /\ U[d[1]] \subseteq U[v]
    <3> SUFFICES ASSUME NEW d \in SlotCells, good(d)
                 PROVE  d[1] <= used' /\ U[d[1]] \subseteq U[v]
      OBVIOUS
    <3>1. d[1] \in Nodes
      BY DEF SlotCells
    <3> QED BY <2>1, <2>3, <2>4, <3>1 DEF Agree, v
  <2>13. \A i \in 1..Len(below \o rest) : (below \o rest)[i] \in SlotCells
    BY <2>8, <2>9, ConcatProperties
  <2>14. \A i \in 1..Len(rb'[p].todo) :
           rb'[p].todo[i][1] <= used' /\ U[rb'[p].todo[i][1]] \subseteq U[v]
    <3> HIDE DEF good
    <3> QED BY <2>2, <2>11, <2>12, <2>13
  <2>15. \A e \in rb'[p].pairs : e.key \in U[v]
    <3>1. U[v] = R[v]
      BY <2>3, <2>4 DEF Agree, v
    <3> QED BY <2>2, <2>5, <2>10, <3>1
  <2> QED BY <1>12, <2>1, <2>2, <2>14, <2>15 DEF ScanRoutes
<1>13. CASE ScanStep(p) /\ pc[p] # "rb_scan"
  <2>1. pc'[p] = "scan"
    BY <1>13 DEF ScanStep
  <2> QED BY <1>2, <2>1
<1>14. CASE Return(p) \/ LoadRoot(p) \/ Claim(p) \/ PublishInline(p)
            \/ PublishChild(p) \/ RemoveMiss(p) \/ RemoveHit(p) \/ GetExisting(p)
            \/ LoadOwn(p) \/ Recheck(p) \/ Count(p) \/ CheckGrowth(p)
            \/ ReadRoot(p) \/ ScanEnd(p)
  <2>1. pc'[p] \notin {"rb_load", "rb_freeze", "rb_scan"}
    BY <1>1, <1>14 DEF Return, LoadRoot, Claim, PublishInline, PublishChild,
       RemoveMiss, RemoveHit, GetExisting, LoadOwn, Recheck, Count, CheckGrowth,
       ReadRoot, ScanEnd, Goto, ThreadTypes
  <2> QED BY <1>2, <2>1
<1>15. CASE Descend(p) \/ ReadStep(p)
  <2>1. pc'[p] \in {"slot", "read", "return", "recheck"}
    BY <1>1, <1>15 DEF Descend, ReadStep, Goto, ThreadTypes
  <2> QED BY <1>2, <2>1
<1> QED BY <1>4, <1>5, <1>6, <1>7, <1>8, <1>9, <1>10, <1>11, <1>12, <1>13, <1>14,
           <1>15 DEF Step
-----------------------------------------------------------------------------
(***************************************************************************)
(* The routing is invariant.                                               *)
(***************************************************************************)
\* At first every key belongs to every node: only the root is in the tree.
LEMMA RouteInit == Init => RouteInv
<1> SUFFICES ASSUME Init PROVE RouteInv
  OBVIOUS
<1> DEFINE R == [n \in Nodes |-> Keys]
<1>1. /\ ptr[RootCell].node = 1 /\ 1 \in Nodes
      /\ \A c \in SlotCells : ptr[c].node = Nil /\ inline[c] = Nil
  BY CellFacts, ConstantsAssumption DEF Init, Plain, Nodes
<1>2. TreeRoutes(R)
  BY <1>1 DEF TreeRoutes
<1>3. \A p \in Threads : pc[p] = "idle"
  BY DEF Init
<1>4. \A p \in Threads : OnlyWriters(p) /\ WalkRoutes(R, p) /\ ScanRoutes(R, p)
  BY <1>3 DEF OnlyWriters, Rebuilding, WalkRoutes, ScanRoutes
<1> QED BY <1>2, <1>4 DEF RouteInv, Routed

\* A step assigns keys to the node it allocates, if it allocates one.
LEMMA RouteStep ==
    ASSUME IInv, OwnInv, NEW R, Routed(R), NEW p \in Threads, Begin(p) \/ Step(p)
    PROVE  RouteInv'
<1>1. PICK U : TreeRoutes(U)' /\ Agree(R, U)
  BY StepRoutes
<1>2. TypeOK' /\ TreeStep(p) /\ OnlyWriters(p)
  BY StepTypes DEF Routed
<1>3. OnlyWriters(p)' /\ WalkRoutes(U, p)' /\ ScanRoutes(U, p)'
  BY <1>1, <1>2, StepWriters, StepWalk, StepScans
<1>4. ASSUME NEW q \in Threads \ {p}
      PROVE  OnlyWriters(q)' /\ WalkRoutes(U, q)' /\ ScanRoutes(U, q)'
  BY <1>1, <1>2, OtherRoutes
<1>5. Routed(U)'
  BY <1>1, <1>3, <1>4 DEF Routed
<1> QED BY <1>5 DEF RouteInv

LEMMA RouteNext == IInv /\ OwnInv /\ RouteInv /\ [Next]_vars => RouteInv'
<1> SUFFICES ASSUME IInv, OwnInv, RouteInv, [Next]_vars PROVE RouteInv'
  OBVIOUS
<1>1. PICK R : Routed(R)
  BY DEF RouteInv
<1>2. CASE UNCHANGED vars
  <2>1. UNCHANGED <<model, inline, ptr, used, pc, call, walk, rb>>
    BY <1>2 DEF vars, tree
  <2>2. TreeRoutes(R)'
    BY <1>1, <2>1, RoutesKept DEF Routed
  <2>3. ASSUME NEW p \in Threads
        PROVE  OnlyWriters(p)' /\ WalkRoutes(R, p)' /\ ScanRoutes(R, p)'
    BY <1>1, <2>1 DEF Routed, OnlyWriters, WalkRoutes, ScanRoutes, Rebuilding
  <2>4. Routed(R)'
    BY <2>2, <2>3 DEF Routed
  <2> QED BY <2>4 DEF RouteInv
<1>3. ASSUME NEW p \in Threads, Begin(p) \/ Step(p) PROVE RouteInv'
  BY <1>1, <1>3, RouteStep
<1> QED BY <1>2, <1>3 DEF Next, Rest

\* Every child and every entry stays where insert, get and remove look for it,
\* while conflict children are made and rebuilt nodes take the place of others.
THEOREM RouteInvariance == Spec => []RouteInv
BY RouteInit, RouteNext, Invariance, PointerInvariance, PTL DEF Spec
-----------------------------------------------------------------------------
(***************************************************************************)
(* Recursion down the tree.  Node numbers grow on the way down, so what a  *)
(* node's value is can be said from the last node to the first.            *)
(***************************************************************************)
LEMMA Downwards ==
    ASSUME NEW n \in Nat, NEW S,
           \A i \in 1..n : (\A j \in (i + 1)..n : j \in S) => i \in S
    PROVE  1..n \subseteq S
<1> DEFINE heights == {h \in Nat : n - h \in (1..n) \ S}
<1>1. SUFFICES ASSUME NEW i \in 1..n, i \notin S PROVE FALSE
  OBVIOUS
<1>2. n - i \in heights
  BY <1>1
<1>3. PICK h \in heights : \A g \in heights : ~(<<g, h>> \in OpToRel(<, Nat))
  <2>1. heights \subseteq Nat
    OBVIOUS
  <2> HIDE DEF heights
  <2> QED BY <1>2, <2>1, WFMin, NatLessThanWellFounded
<1>4. h \in Nat /\ n - h \in 1..n /\ n - h \notin S
  OBVIOUS
<1>5. PICK j \in (n - h + 1)..n : j \notin S
  BY <1>4
<1>6. n - j \in Nat /\ n - j < h /\ n - (n - j) = j /\ j \in 1..n
  BY <1>4
<1>7. n - j \in heights /\ <<n - j, h>> \in OpToRel(<, Nat)
  BY <1>4, <1>5, <1>6 DEF OpToRel
<1> QED BY <1>3, <1>7

\* F gives a value for each node from those of the later nodes, and f has them.
Recursion(n, X, F) ==
    /\ F \in [1..n -> [[1..n -> X] -> X]]
    /\ \A i \in 1..n : \A f, g \in [1..n -> X] :
         (\A j \in (i + 1)..n : f[j] = g[j]) => F[i][f] = F[i][g]
Solution(n, X, F, f) == f \in [1..n -> X] /\ \A i \in 1..n : f[i] = F[i][f]

\* There is such an f.
LEMMA Solvable ==
    ASSUME NEW n \in Nat, NEW X, NEW x \in X, NEW F, Recursion(n, X, F)
    PROVE  \E f : Solution(n, X, F, f)
<1> USE DEF Recursion, Solution
<1> DEFINE From(f, i) == \A j \in i..n : f[j] = F[j][f]
           S == {i \in 1..n : \E f \in [1..n -> X] : From(f, i)}
<1>1. PICK z \in [1..n -> X] : TRUE
  <2>1. [j \in 1..n |-> x] \in [1..n -> X]
    OBVIOUS
  <2> QED BY <2>1
<1>2. ASSUME NEW i \in 1..n, \A j \in (i + 1)..n : j \in S
      PROVE  i \in S
  <2>1. PICK f \in [1..n -> X] : From(f, i + 1)
    <3>1. CASE i = n
      <4>1. (i + 1)..n = {}
        BY <3>1
      <4> QED BY <1>1, <4>1
    <3>2. CASE i # n
      <4>1. i + 1 \in (i + 1)..n
        BY <3>2
      <4> QED BY <1>2, <4>1
    <3> QED BY <3>1, <3>2
  <2>2. PICK g : g = [f EXCEPT ![i] = F[i][f]]
    OBVIOUS
  <2>3. g \in [1..n -> X] /\ g[i] = F[i][f] /\ \A j \in (i + 1)..n : g[j] = f[j]
    BY <2>2
  <2>4. ASSUME NEW j \in i..n PROVE g[j] = F[j][g]
    <3>1. j \in 1..n /\ \A k \in (j + 1)..n : k \in (i + 1)..n
      OBVIOUS
    <3>2. F[j][g] = F[j][f]
      BY <2>3, <3>1
    <3>3. j = i \/ j \in (i + 1)..n
      OBVIOUS
    <3> QED BY <2>1, <2>3, <3>2, <3>3
  <2> QED BY <2>3, <2>4
<1>3. 1..n \subseteq S
  <2> HIDE DEF S
  <2> QED BY <1>2, Downwards
<1>4. CASE n = 0
  <2>1. 1..n = {}
    BY <1>4
  <2>2. \A i \in 1..n : z[i] = F[i][z]
    BY <2>1
  <2> QED BY <1>1, <2>2
<1>5. CASE n # 0
  <2>1. 1 \in 1..n
    BY <1>5
  <2>2. PICK f \in [1..n -> X] : From(f, 1)
    BY <1>3, <2>1
  <2> QED BY <2>2
<1> QED BY <1>4, <1>5

\* What get of key k finds from a node, given what it finds below.
Found(k, f, n) ==
    LET c == predict_slot(n, k) IN
    IF st[c] = "DATA" /\ inline[c].key = k THEN inline[c].val
    ELSE IF IsChild(st[c]) THEN f[ptr[c].node] ELSE Nil

\* The slots of a node, and the entries from it on, given those from below.
SlotsOf(n) == {n} \X Slots
DataIn(n) == {inline[c] : c \in {d \in SlotsOf(n) : st[d] = "DATA"}}
Collected(f, n) ==
    DataIn(n) \cup UNION {f[ptr[c].node] : c \in {d \in SlotsOf(n) : IsChild(st[d])}}

\* The pointers of a node lead to later nodes, its entries are entries.
LEMMA SlotFacts ==
    ASSUME IInv, OwnInv, NEW n \in Nodes, NEW c \in SlotsOf(n)
    PROVE  /\ c \in SlotCells /\ c[1] = n
           /\ IsChild(st[c]) => ptr[c].node \in Nodes /\ ptr[c].node \in (n + 1)..MaxNodes
           /\ st[c] = "DATA" => inline[c] \in Entries
<1>1. c \in SlotCells /\ c[1] = n
  BY DEF SlotsOf, SlotCells
<1>2. IsChild(st[c]) => ptr[c].node # Nil
  BY <1>1 DEF IInv, TreeInv
<1>3. st[c] = "DATA" => inline[c] # Nil
  BY <1>1 DEF IInv, TreeInv
<1>4. ptr[c].node # Nil => ptr[c].node > n
  BY <1>1 DEF OwnInv, Descending
<1>5. Nodes = 1..MaxNodes /\ MaxNodes \in Nat
  BY UsedFacts DEF IInv
<1> QED BY <1>1, <1>2, <1>3, <1>4, <1>5, Allocated

LEMMA FoundType ==
    ASSUME IInv, OwnInv, NEW k \in Keys, NEW f \in [Nodes -> Outcomes], NEW n \in Nodes
    PROVE  Found(k, f, n) \in Outcomes
<1> DEFINE c == predict_slot(n, k)
<1>1. c \in SlotsOf(n)
  BY PredictCell DEF IInv, SlotsOf, SlotCells
<1>2. st[c] = "DATA" => inline[c].val \in Outcomes
  BY <1>1, SlotFacts DEF Entries, Outcomes
<1>3. IsChild(st[c]) => f[ptr[c].node] \in Outcomes
  BY <1>1, SlotFacts
<1>4. Nil \in Outcomes
  BY DEF Outcomes
<1> QED BY <1>2, <1>3, <1>4 DEF Found

LEMMA FoundLocal ==
    ASSUME IInv, OwnInv, NEW k \in Keys, NEW n \in Nodes, NEW f, NEW g,
           \A j \in (n + 1)..MaxNodes : f[j] = g[j]
    PROVE  Found(k, f, n) = Found(k, g, n)
<1> DEFINE c == predict_slot(n, k)
<1>1. c \in SlotsOf(n)
  BY PredictCell DEF IInv, SlotsOf, SlotCells
<1>2. IsChild(st[c]) => f[ptr[c].node] = g[ptr[c].node]
  BY <1>1, SlotFacts
<1> QED BY <1>2 DEF Found

LEMMA CollectedType ==
    ASSUME IInv, OwnInv, NEW f \in [Nodes -> SUBSET Entries], NEW n \in Nodes
    PROVE  Collected(f, n) \in SUBSET Entries
<1>1. \A c \in SlotsOf(n) :
        /\ IsChild(st[c]) => f[ptr[c].node] \in SUBSET Entries
        /\ st[c] = "DATA" => inline[c] \in Entries
  BY SlotFacts
<1> QED BY <1>1 DEF Collected, DataIn

LEMMA CollectedLocal ==
    ASSUME IInv, OwnInv, NEW n \in Nodes, NEW f, NEW g,
           \A j \in (n + 1)..MaxNodes : f[j] = g[j]
    PROVE  Collected(f, n) = Collected(g, n)
<1> DEFINE children == {d \in SlotsOf(n) : IsChild(st[d])}
<1>1. \A c \in children : f[ptr[c].node] = g[ptr[c].node]
  BY SlotFacts
<1>2. {f[ptr[c].node] : c \in children} = {g[ptr[c].node] : c \in children}
  BY <1>1
<1> QED BY <1>2 DEF Collected

\* get computes what it says.
LEMMA FindStep ==
    ASSUME IInv, OwnInv, NEW k \in Keys
    PROVE  \A n \in Nodes : LookupFrom(k)[n] = Found(k, LookupFrom(k), n)
<1> DEFINE Solves(f) == f = [n \in Nodes |-> Found(k, f, n)]
           F == [n \in Nodes |-> [f \in [Nodes -> Outcomes] |-> Found(k, f, n)]]
<1>1. LookupFrom(k) = CHOOSE f : Solves(f)
  BY DEF LookupFrom, Found
<1>2. Nodes = 1..MaxNodes /\ MaxNodes \in Nat /\ Nil \in Outcomes
  BY UsedFacts DEF IInv, Outcomes
<1>3. F \in [Nodes -> [[Nodes -> Outcomes] -> Outcomes]]
  BY FoundType
<1>4. \A i \in Nodes : \A f, g \in [Nodes -> Outcomes] :
        (\A j \in (i + 1)..MaxNodes : f[j] = g[j]) => F[i][f] = F[i][g]
  <2> SUFFICES ASSUME NEW i \in Nodes, NEW f \in [Nodes -> Outcomes],
                      NEW g \in [Nodes -> Outcomes],
                      \A j \in (i + 1)..MaxNodes : f[j] = g[j]
               PROVE  F[i][f] = F[i][g]
    OBVIOUS
  <2>1. Found(k, f, i) = Found(k, g, i)
    BY FoundLocal
  <2> QED BY <2>1
<1>5. PICK f \in [Nodes -> Outcomes] : \A i \in Nodes : f[i] = F[i][f]
  <2> DEFINE N == MaxNodes
             X == Outcomes
  <2> HIDE DEF F
  <2>1. Recursion(MaxNodes, Outcomes, F)
    BY <1>2, <1>3, <1>4 DEF Recursion
  <2>2. \E f : Solution(MaxNodes, Outcomes, F, f)
    BY <1>2, <2>1, Solvable
  <2> QED BY <1>2, <2>2 DEF Solution
<1>6. Solves(f)
  <2>1. \A i \in Nodes : f[i] = Found(k, f, i)
    BY <1>5
  <2> QED BY <2>1
<1>7. Solves(LookupFrom(k))
  <2> HIDE DEF Solves
  <2> QED BY <1>1, <1>6, Zenon
<1> DEFINE find == LookupFrom(k)
<1>8. Solves(find)
  BY <1>7
<1> HIDE DEF find
<1>9. \A n \in Nodes : find[n] = Found(k, find, n)
  BY <1>8
<1> QED BY <1>9 DEF find

\* Iter collects what it says.
LEMMA CollectStep ==
    ASSUME IInv, OwnInv
    PROVE  \A n \in Nodes : EntriesFrom[n] = Collected(EntriesFrom, n)
<1> DEFINE Solves(f) == f = [n \in Nodes |-> Collected(f, n)]
           Sets == SUBSET Entries
           F == [n \in Nodes |-> [f \in [Nodes -> Sets] |-> Collected(f, n)]]
<1>1. EntriesFrom = CHOOSE f : Solves(f)
  BY DEF EntriesFrom, Collected, DataIn, SlotsOf
<1>2. Nodes = 1..MaxNodes /\ MaxNodes \in Nat /\ {} \in Sets
  BY UsedFacts DEF IInv
<1>3. F \in [Nodes -> [[Nodes -> Sets] -> Sets]]
  BY CollectedType
<1>4. \A i \in Nodes : \A f, g \in [Nodes -> Sets] :
        (\A j \in (i + 1)..MaxNodes : f[j] = g[j]) => F[i][f] = F[i][g]
  <2> SUFFICES ASSUME NEW i \in Nodes, NEW f \in [Nodes -> Sets],
                      NEW g \in [Nodes -> Sets],
                      \A j \in (i + 1)..MaxNodes : f[j] = g[j]
               PROVE  F[i][f] = F[i][g]
    OBVIOUS
  <2>1. Collected(f, i) = Collected(g, i)
    BY CollectedLocal
  <2> QED BY <2>1
<1>5. PICK f \in [Nodes -> Sets] : \A i \in Nodes : f[i] = F[i][f]
  <2> HIDE DEF F, Sets
  <2>1. Recursion(MaxNodes, Sets, F)
    BY <1>2, <1>3, <1>4 DEF Recursion
  <2>2. \E f : Solution(MaxNodes, Sets, F, f)
    BY <1>2, <2>1, Solvable
  <2> QED BY <1>2, <2>2 DEF Solution
<1>6. Solves(f)
  <2>1. \A i \in Nodes : f[i] = Collected(f, i)
    BY <1>5
  <2> QED BY <2>1
<1>7. Solves(EntriesFrom)
  <2> HIDE DEF Solves
  <2> QED BY <1>1, <1>6, Zenon
<1> DEFINE all == EntriesFrom
<1>8. Solves(all)
  BY <1>7
<1> HIDE DEF all
<1>9. \A n \in Nodes : all[n] = Collected(all, n)
  BY <1>8
<1> QED BY <1>9 DEF all

\* From every node on, the entries are those get finds, and all belong there.
Agreed(R, n) ==
    /\ \A e \in EntriesFrom[n] :
         e \in Entries /\ e.key \in R[n] /\ LookupFrom(e.key)[n] = e.val
    /\ \A k \in Keys : LookupFrom(k)[n] # Nil =>
         [key |-> k, val |-> LookupFrom(k)[n]] \in EntriesFrom[n]

LEMMA AgreedBelow ==
    ASSUME IInv, OwnInv, NEW R, TreeRoutes(R), NEW n \in Nodes,
           \A j \in (n + 1)..MaxNodes : Agreed(R, j)
    PROVE  Agreed(R, n)
<1>1. ASSUME NEW e \in EntriesFrom[n]
      PROVE  e \in Entries /\ e.key \in R[n] /\ LookupFrom(e.key)[n] = e.val
  <2>1. PICK c \in SlotsOf(n) :
          \/ st[c] = "DATA" /\ e = inline[c]
          \/ IsChild(st[c]) /\ e \in EntriesFrom[ptr[c].node]
    BY CollectStep DEF Collected, DataIn
  <2>2. /\ c \in SlotCells /\ c[1] = n
        /\ IsChild(st[c]) => ptr[c].node \in Nodes
                             /\ ptr[c].node \in (n + 1)..MaxNodes
        /\ st[c] = "DATA" => inline[c] \in Entries
    BY SlotFacts
  <2>3. Nil \notin Nodes /\ Nil \notin Entries
    BY ConstantsAssumption
  <2>4. CASE st[c] = "DATA" /\ e = inline[c]
    <3>1. e \in Entries /\ e.key \in OnSlot(R, c)
      BY <2>2, <2>3, <2>4 DEF TreeRoutes
    <3>2. e.key \in R[n] /\ predict_slot(n, e.key) = c /\ e.key \in Keys
      BY <2>2, <3>1 DEF OnSlot, Entries
    <3>3. Found(e.key, LookupFrom(e.key), n) = e.val
      BY <2>4, <3>2 DEF Found, IsChild
    <3> QED BY <3>1, <3>2, <3>3, FindStep
  <2>5. CASE IsChild(st[c]) /\ e \in EntriesFrom[ptr[c].node]
    <3> DEFINE m == ptr[c].node
    <3>1. /\ e \in Entries /\ e.key \in R[m] /\ LookupFrom(e.key)[m] = e.val
      BY <2>2, <2>5 DEF Agreed
    <3>2. R[m] = OnSlot(R, c)
      BY <2>2, <2>3, <2>5 DEF TreeRoutes
    <3>3. e.key \in R[n] /\ predict_slot(n, e.key) = c /\ e.key \in Keys
      BY <2>2, <3>1, <3>2 DEF OnSlot, Entries
    <3>4. Found(e.key, LookupFrom(e.key), n) = LookupFrom(e.key)[m]
      BY <2>5, <3>3 DEF Found, IsChild
    <3> QED BY <3>1, <3>3, <3>4, FindStep
  <2> QED BY <2>1, <2>4, <2>5
<1>2. ASSUME NEW k \in Keys, LookupFrom(k)[n] # Nil
      PROVE  [key |-> k, val |-> LookupFrom(k)[n]] \in EntriesFrom[n]
  <2> DEFINE c == predict_slot(n, k)
  <2>1. c \in SlotsOf(n)
    BY PredictCell DEF IInv, SlotsOf, SlotCells
  <2>2. /\ IsChild(st[c]) => ptr[c].node \in (n + 1)..MaxNodes
        /\ st[c] = "DATA" => inline[c] \in Entries
    BY <2>1, SlotFacts
  <2>3. LookupFrom(k)[n] = Found(k, LookupFrom(k), n)
    BY FindStep
  <2>4. EntriesFrom[n] = Collected(EntriesFrom, n)
    BY CollectStep
  <2>5. CASE st[c] = "DATA" /\ inline[c].key = k
    <3>1. LookupFrom(k)[n] = inline[c].val
      BY <2>3, <2>5 DEF Found, IsChild
    <3>2. inline[c] = [key |-> k, val |-> inline[c].val]
      BY <2>2, <2>5 DEF Entries
    <3>3. inline[c] \in DataIn(n)
      BY <2>1, <2>5 DEF DataIn
    <3> QED BY <2>4, <3>1, <3>2, <3>3 DEF Collected
  <2>6. CASE IsChild(st[c])
    <3> DEFINE m == ptr[c].node
    <3>1. LookupFrom(k)[n] = LookupFrom(k)[m]
      BY <2>3, <2>6 DEF Found, IsChild
    <3>2. [key |-> k, val |-> LookupFrom(k)[m]] \in EntriesFrom[m]
      BY <1>2, <2>2, <2>6, <3>1 DEF Agreed
    <3>3. EntriesFrom[m] \subseteq EntriesFrom[n]
      BY <2>1, <2>4, <2>6 DEF Collected
    <3> QED BY <3>1, <3>2, <3>3
  <2>7. CASE ~(st[c] = "DATA" /\ inline[c].key = k) /\ ~IsChild(st[c])
    BY <1>2, <2>3, <2>7 DEF Found
  <2> QED BY <2>5, <2>6, <2>7
<1> QED BY <1>1, <1>2 DEF Agreed

LEMMA AgreedEverywhere ==
    ASSUME IInv, OwnInv, NEW R, TreeRoutes(R)
    PROVE  \A n \in Nodes : Agreed(R, n)
<1> DEFINE S == {n \in Nodes : Agreed(R, n)}
<1>1. Nodes = 1..MaxNodes /\ MaxNodes \in Nat
  BY UsedFacts DEF IInv
<1>2. ASSUME NEW n \in 1..MaxNodes, \A j \in (n + 1)..MaxNodes : j \in S
      PROVE  n \in S
  BY <1>1, <1>2, AgreedBelow
<1>3. 1..MaxNodes \subseteq S
  <2> HIDE DEF S
  <2> QED BY <1>1, <1>2, Downwards
<1> QED BY <1>1, <1>3

\* At every moment, whatever inserts, removes and rebuilds are under way, what an
\* iteration would yield (Iter::advance of iter.rs) is what get finds key by key
\* (predict_slot all the way down): no entry is in a slot where get of its key
\* does not look, and no slot holds an older entry of a key that is found
\* elsewhere.
THEOREM LookupsAgree == Spec => []SearchTree
<1>1. ASSUME IInv, OwnInv, RouteInv PROVE SearchTree
  <2> DEFINE root == ptr[RootCell].node
  <2>1. PICK R : TreeRoutes(R)
    BY <1>1 DEF RouteInv, Routed
  <2>2. root \in Nodes
    BY <1>1, PointerType
  <2>3. Agreed(R, root)
    BY <1>1, <2>1, <2>2, AgreedEverywhere
  <2>4. ASSUME NEW e \in EntriesFrom[root]
        PROVE  e \in {[key |-> k, val |-> Lookup(k)] : k \in Content}
    <3>1. e \in Entries /\ Lookup(e.key) = e.val
      BY <2>3 DEF Agreed, Lookup
    <3>2. e.key \in Keys /\ e.val # Nil /\ e = [key |-> e.key, val |-> e.val]
      BY <3>1, ConstantsAssumption DEF Entries
    <3>3. e.key \in Content
      BY <3>1, <3>2 DEF Content
    <3> QED BY <3>1, <3>2, <3>3
  <2>5. ASSUME NEW k \in Content
        PROVE  [key |-> k, val |-> Lookup(k)] \in EntriesFrom[root]
    BY <2>3 DEF Agreed, Lookup, Content
  <2> QED BY <2>4, <2>5 DEF SearchTree
<1> QED BY <1>1, Invariance, PointerInvariance, RouteInvariance, PTL
=============================================================================
