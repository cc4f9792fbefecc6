---------------------------- MODULE LearnedTree ----------------------------
(***************************************************************************)
(* LearnedMap and its concurrent tree: src/map.rs, src/insert.rs,          *)
(* src/remove.rs, src/lookup.rs, src/rebuild.rs, src/iter.rs and the slot  *)
(* protocol of src/node.rs, run by a set of threads.                       *)
(*                                                                         *)
(* A step of a thread is one atomic access to shared memory: a load that   *)
(* later code depends on, a CAS, a publishing store or a fetch_add.  Three *)
(* kinds of accesses are taken together, because nothing another thread    *)
(* does in between could be told apart: the read of a slot's state with    *)
(* the CAS that follows it (a failed CAS re-reads the state), the read of  *)
(* a child state with the load of the child pointer (a child slot stays a  *)
(* child slot), and the reads of inline data, which is immutable once      *)
(* published.  The update of num_tombstones goes with the load of the      *)
(* snapshot pointer that follows it; others still see the slot changed and *)
(* not yet counted.  Memory is sequentially consistent.  The defensive     *)
(* branches of the code for a null child pointer are left out: TypeOK says *)
(* that no thread ever holds one.                                          *)
(*                                                                         *)
(* A pointer cell is the root pointer (RootCell) or the child pointer of a *)
(* slot <<node, index>>; a pointer is a node and a tag, tag 1 meaning      *)
(* frozen by a rebuild.  Nodes come from 1..MaxNodes and are never reused: *)
(* crossbeam-epoch frees a retired node only when no thread that could     *)
(* hold a reference is pinned, so that no stale pointer ever compares      *)
(* equal to a new one.                                                     *)
(*                                                                         *)
(* Every value written is unique, <<thread, call number>>, so that a read  *)
(* tells which call it observed.                                           *)
(***************************************************************************)
EXTENDS Integers, Sequences, FiniteSets

CONSTANTS
    Threads,            \* the threads that share the map
    Keys,               \* the keys they use
    Program,            \* Program[p]: the sequence of sets of calls p may make
    Main, Prelude,      \* Main makes its first Prelude calls alone
    AutoRebuild,        \* Config::auto_rebuild
    DepthThreshold,     \* Config::rebuild_depth_threshold
    TombNum, TombDen,   \* Config::tombstone_ratio_threshold = TombNum/TombDen
    InitialRootRebuild, \* INITIAL_ROOT_REBUILD_THRESHOLD
    MaxNodes,           \* bound: nodes a run may allocate
    Slots,              \* the slot indices some key predicts to
    Nil,                \* no value, no node, no entry
    EmptyModel,         \* the model of a new map's root
    SingleModel(_),     \* build_single_entry_child
    ConflictModel(_, _),\* build_conflict_node
    SubtreeFit(_),      \* build_recursive for a subtree rebuild, and
    RootFit(_)          \* for a root rebuild: the model of its node for a set of keys

Nodes     == 1..MaxNodes
SlotCells == Nodes \X Slots
RootCell  == <<0, 0>>
Cells     == SlotCells \cup {RootCell}
Values    == Threads \X Nat
Outcomes  == Values \cup {Nil}
Entries   == [key : Keys, val : Values]
Ptrs      == [node : Nodes \cup {Nil}, tag : {0, 1}]

\* A node's linear model, as far as the keys can tell: the size of its array,
\* the slot of each key, and the slots some key predicts to, in index order.
Models ==
    {m \in [cap : Nat, slot : [Keys -> Slots], scan : Seq(Slots)] :
        \A k \in Keys : \E j \in 1..Len(m.scan) : m.scan[j] = m.slot[k]}

Writers  == {"insert", "get_or_insert", "remove"}
Sweepers == {"rebuild", "clear", "drain"}
Calls    == [op : Writers \cup Sweepers \cup {"get", "iter"}, key : Keys]

\* The values the code's types allow.  Of the models only one thing is taken for
\* granted: a conflict child separates the two keys it is made for.
ASSUME ConstantsAssumption ==
    /\ Main \in Threads /\ Prelude \in Nat
    /\ Program \in [Threads -> Seq(SUBSET Calls)]
    /\ AutoRebuild \in BOOLEAN /\ DepthThreshold \in Nat
    /\ TombNum \in Nat /\ TombDen \in Nat
    /\ InitialRootRebuild \in Nat
    /\ MaxNodes \in Nat \ {0} /\ Slots \subseteq Nat
    /\ Keys # {} /\ IsFiniteSet(Keys)
    /\ Nil \notin Nodes /\ Nil \notin Entries /\ Nil \notin Values

ASSUME ModelsAssumption ==
    /\ EmptyModel \in Models
    /\ \A k \in Keys : SingleModel(k) \in Models
    /\ \A k1, k2 \in Keys : k1 # k2 => ConflictModel(k1, k2) \in Models
    /\ \A S \in SUBSET Keys :
         S # {} => SubtreeFit(S) \in Models /\ RootFit(S) \in Models

ASSUME SeparationAssumption ==
    \A k1, k2 \in Keys :
        LET m == ConflictModel(k1, k2) IN k1 # k2 => m.slot[k1] # m.slot[k2]

VARIABLES
    model,   \* model[n]: the linear model of node n
    st,      \* st[c]: the state byte of slot c
    inline,  \* inline[c]: the key and value stored in slot c, or Nil
    ptr,     \* ptr[c]: the root pointer and the child pointers
    tombs,   \* tombs[n]: num_tombstones of node n
    used,    \* nodes allocated so far: 1..used
    retired, \* nodes handed to defer_destroy
    len,     \* LearnedMap::len
    next_root_rebuild,
    pc,      \* where each thread is
    ops,     \* calls each thread has finished
    call,    \* the call each thread is in
    walk,    \* the locals of insert, get_or_insert, remove and get
    changed, \* retry_was_new, was_new; was_removed
    ret,     \* the value returned by get and get_or_insert
    num,     \* current_len, then threshold, of maybe_rebuild_root
    rb,      \* the locals of a rebuild, clear, drain or iteration
    acc,     \* history: the outcomes acceptable for each key
    before,  \* history: acc when the thread's call began
    rival    \* history: outcomes of the calls that overlap the thread's call

tree    == <<model, st, inline, ptr, tombs, used, retired>>
counts  == <<len, next_root_rebuild>>
history == <<acc, before, rival>>
vars    == <<tree, counts, pc, ops, call, walk, changed, ret, num, rb, history>>
-----------------------------------------------------------------------------
(***************************************************************************)
(* Helpers.                                                                *)
(***************************************************************************)
Plain(n)  == [node |-> n, tag |-> 0]
Frozen(n) == [node |-> n, tag |-> 1]

\* is_child(state): the children of build_recursive, and those made by inserts.
IsChild(s) == s \in {"CHILD", "CHILD_STALE"}

\* predict_slot: the slot of node n where key k belongs, and the slot the
\* thread looks at now.
FirstSlot(n, k) == <<n, model[1].slot[k]>> \* the model of the first root
predict_slot(n, k) == <<n, model[n].slot[k]>>
Here(p) == predict_slot(walk[p].cur, call[p].key)

\* The value a call writes.
Val(p) == <<p, ops[p] + 1>>

\* The slots of a node an iterator visits, in index order: Iter::new.  The
\* slots no key predicts to are always EMPTY and are left out.
ScanOf(n) ==
    LET idx == model[n].scan IN [j \in 1..Len(idx) |-> <<n, idx[j]>>]

\* A new node with the entries E stored by store_data: the next free node.
Fresh == used + 1
AddNode(m, E) ==
    LET at(e)  == <<Fresh, m.slot[e.key]>>
        filled == {at(e) : e \in E}
    IN  /\ Fresh \in Nodes
        /\ used' = Fresh
        /\ model' = [model EXCEPT ![Fresh] = m]
        /\ inline' = [c \in SlotCells |->
                        IF c \in filled THEN CHOOSE e \in E : at(e) = c
                                        ELSE inline[c]]

\* The state bytes after AddNode.
StatesWith(m, E) ==
    [c \in SlotCells |->
        IF \E e \in E : c = <<Fresh, m.slot[e.key]>> THEN "DATA" ELSE st[c]]

(***************************************************************************)
(* build_recursive: the node for a set S of keys has the model fitted to   *)
(* S; a run of two keys or more that predict to one slot goes to a child   *)
(* built for them in the same way, a key alone in its slot is inline data. *)
(* A node of build_degenerate is one whose model splits S in halves.       *)
(***************************************************************************)
Fit(kind, S) ==
    CASE kind = "subtree" -> SubtreeFit(S)
      [] kind = "rebuild" -> RootFit(S)
      [] OTHER            -> EmptyModel

\* The runs of the node for S that go to a child.
Runs(kind, S) ==
    LET slot == Fit(kind, S).slot
        at(k) == {l \in S : slot[l] = slot[k]}
    IN  {at(k) : k \in {j \in S : at(j) # {j}}}

\* The trees it builds for S, each as the sequence of its nodes' keys: the root
\* first, every other node for the run of exactly one slot of an earlier one.
\* They differ in how the nodes are numbered only.  Every node splits its keys,
\* so that there are fewer nodes than keys; for a node that does not there is no
\* tree, as the recursion would not end.
IsTree(kind, g) ==
    /\ \A i, j \in DOMAIN g : i # j =>
         g[i] # g[j] /\ Runs(kind, g[i]) \cap Runs(kind, g[j]) = {}
    /\ \A i \in DOMAIN g : \A G \in Runs(kind, g[i]) :
         \E j \in DOMAIN g : i < j /\ g[j] = G
    /\ \A j \in DOMAIN g \ {1} : \E i \in DOMAIN g : g[j] \in Runs(kind, g[i])
Trees(kind, S) ==
    LET sizes == {n \in 1..Cardinality(Keys) : n = 1 \/ n < Cardinality(S)}
    IN  {g \in UNION {[1..n -> SUBSET S] : n \in sizes} :
           g[1] = S /\ IsTree(kind, g)}

\* The keys that belong in slot c once the tree g has the next free nodes.
NewKeys(kind, g, c) ==
    LET i == c[1] - used IN
    IF i \in DOMAIN g THEN {k \in g[i] : Fit(kind, g[i]).slot[k] = c[2]} ELSE {}

\* Such a tree with the entries E, put in the place of pointer cell d.
AddTree(kind, g, E, d) ==
    LET node(i)  == used + i
        new(c)   == NewKeys(kind, g, c)
        alone(c) == {e \in E : new(c) = {e.key}}
        below(c) == {i \in DOMAIN g : i > 1 /\ g[i] = new(c)}
    IN  /\ used' = node(Len(g))
        /\ used' \in Nodes
        /\ model' = [n \in Nodes |-> IF n - used \in DOMAIN g
                                     THEN Fit(kind, g[n - used]) ELSE model[n]]
        /\ inline' = [c \in SlotCells |-> IF alone(c) # {}
                         THEN CHOOSE e \in alone(c) : TRUE ELSE inline[c]]
        /\ st' = [c \in SlotCells |-> IF alone(c) # {} THEN "DATA"
                                       ELSE IF below(c) # {} THEN "CHILD"
                                       ELSE st[c]]
        /\ ptr' = [c \in Cells |->
              IF c = d THEN Plain(Fresh)
              ELSE IF below(c) # {} THEN Plain(node(CHOOSE i \in below(c) : TRUE))
              ELSE ptr[c]]

NoCall == [op |-> "get", key |-> CHOOSE k \in Keys : TRUE]
NoWalk == [entry |-> 1, cur |-> 1, at |-> 1, snap |-> RootCell, child |-> 1,
           depth |-> 0, from |-> "EMPTY"]
NoScan == [kind |-> "none", cell |-> RootCell, victim |-> 1, todo |-> <<>>,
           pairs |-> {}]

\* The start of the 'retry loop at the root node the map call loaded.
WalkFrom(n) == [NoWalk EXCEPT !.entry = n, !.cur = n]

Goto(p, l) == pc' = [pc EXCEPT ![p] = l]

\* Enter try_rebuild_subtree, rebuild, clear or drain on pointer cell c.
StartRebuild(p, kind, c) ==
    /\ rb' = [rb EXCEPT ![p] = [NoScan EXCEPT !.kind = kind, !.cell = c]]
    /\ Goto(p, "rb_load")
-----------------------------------------------------------------------------
(***************************************************************************)
(* History: what the calls so far allow each key to hold.  acc[k] are the  *)
(* outcomes of the finished calls that no later finished call supersedes.  *)
(***************************************************************************)
EffectOf(c, v, k) ==
    CASE c.op \in {"insert", "get_or_insert"} /\ c.key = k -> {v}
      [] c.op = "remove" /\ c.key = k                      -> {Nil}
      [] c.op \in {"clear", "drain"}                       -> {Nil}
      [] OTHER                                             -> {}

Active(p)    == pc[p] # "idle"
Effect(p, k) == IF Active(p) THEN EffectOf(call[p], Val(p), k) ELSE {}

\* What a call may observe for key k: what was acceptable when it began, and
\* the outcome of every call that overlaps it.
View(p, k) == before[p][k] \cup rival[p][k]

NoOutcomes == [k \in Keys |-> {}]

\* acc[k] once the call of p has returned.
Accepted(p, k) ==
    LET kept == acc[k] \cap rival[p][k]
        c    == call[p]
    IN  CASE c.op = "insert" /\ c.key = k -> kept \cup {Val(p)}
          [] c.op = "get_or_insert" /\ c.key = k
               /\ (changed[p] \/ ret[p] = Val(p)) -> kept \cup {Val(p)}
          [] c.op = "remove" /\ c.key = k /\ changed[p] -> kept \cup {Nil}
          [] c.op = "remove" /\ c.key = k /\ ~changed[p] ->
               acc[k] \cap (rival[p][k] \cup {Nil})
          [] c.op \in {"clear", "drain"} /\ changed[p] -> kept \cup {Nil}
          [] OTHER -> acc[k]
-----------------------------------------------------------------------------
Init ==
    /\ model = [n \in Nodes |-> EmptyModel]
    /\ st = [c \in SlotCells |-> "EMPTY"]
    /\ inline = [c \in SlotCells |-> Nil]
    /\ ptr = [c \in Cells |-> IF c = RootCell THEN Plain(1) ELSE Plain(Nil)]
    /\ tombs = [n \in Nodes |-> 0]
    /\ used = 1
    /\ retired = {}
    /\ len = 0
    /\ next_root_rebuild = InitialRootRebuild
    /\ pc = [p \in Threads |-> "idle"]
    /\ ops = [p \in Threads |-> 0]
    /\ call = [p \in Threads |-> NoCall]
    /\ walk = [p \in Threads |-> NoWalk]
    /\ changed = [p \in Threads |-> FALSE]
    /\ ret = [p \in Threads |-> Nil]
    /\ num = [p \in Threads |-> 0]
    /\ rb = [p \in Threads |-> NoScan]
    /\ acc = [k \in Keys |-> {Nil}]
    /\ before = [p \in Threads |-> NoOutcomes]
    /\ rival = [p \in Threads |-> NoOutcomes]

\* A thread calls a method of the map.
Begin(p) ==
    /\ pc[p] = "idle"
    /\ ops[p] < Len(Program[p])
    /\ p = Main \/ ops[Main] >= Prelude
    /\ \E c \in Program[p][ops[p] + 1] :
         /\ call' = [call EXCEPT ![p] = c]
         /\ IF c.op \in Sweepers
            THEN StartRebuild(p, c.op, RootCell)
            ELSE /\ Goto(p, IF c.op \in Writers THEN "root" ELSE "read_root")
                 /\ UNCHANGED rb
         /\ before' = [before EXCEPT ![p] = acc]
         /\ rival' = [q \in Threads |->
              [k \in Keys |->
                 IF q = p
                 THEN UNION {Effect(o, k) : o \in Threads \ {p}}
                 ELSE rival[q][k] \cup
                      (IF Active(q) THEN EffectOf(c, Val(p), k) ELSE {})]]
    /\ UNCHANGED <<tree, counts, ops, walk, changed, ret, num, acc>>

\* The method returns.
Return(p) ==
    /\ pc[p] = "return"
    /\ Goto(p, "idle")
    /\ ops' = [ops EXCEPT ![p] = @ + 1]
    /\ acc' = [k \in Keys |-> Accepted(p, k)]
    /\ before' = [before EXCEPT ![p] = NoOutcomes]
    /\ rival' = [rival EXCEPT ![p] = NoOutcomes]
    /\ walk' = [walk EXCEPT ![p] = NoWalk]
    /\ changed' = [changed EXCEPT ![p] = FALSE]
    /\ ret' = [ret EXCEPT ![p] = Nil]
    /\ num' = [num EXCEPT ![p] = 0]
    /\ rb' = [rb EXCEPT ![p] = NoScan]
    /\ call' = [call EXCEPT ![p] = NoCall]
    /\ UNCHANGED <<tree, counts>>
-----------------------------------------------------------------------------
(***************************************************************************)
(* insert, get_or_insert and remove: map.rs around insert.rs / remove.rs.  *)
(***************************************************************************)
\* The loop of LearnedMap::insert, get_or_insert and remove: wait while the
\* root is frozen, then enter the tree.
LoadRoot(p) ==
    /\ pc[p] = "root"
    /\ ptr[RootCell].tag = 0
    /\ walk' = [walk EXCEPT ![p] = WalkFrom(ptr[RootCell].node)]
    /\ Goto(p, "slot")
    /\ UNCHANGED <<tree, counts, ops, call, changed, ret, num, rb, history>>

\* The locals after following the pointer of cell c: the first one followed is
\* remembered (descent_snapshot, which is also rebuild_candidate).
Followed(p, c) ==
    LET w     == walk[p]
        n     == ptr[c].node
        first == w.snap = RootCell
    IN  [w EXCEPT !.cur   = n,
                  !.snap  = IF first THEN c ELSE w.snap,
                  !.child = IF first THEN n ELSE w.child,
                  !.depth = w.depth + 1]

\* Follow a child pointer that is not frozen.
Descend(p) ==
    LET c == Here(p) IN
    /\ pc[p] = "slot"
    /\ IsChild(st[c])
    /\ ptr[c].tag = 0
    /\ walk' = [walk EXCEPT ![p] = Followed(p, c)]
    /\ UNCHANGED <<tree, counts, pc, ops, call, changed, ret, num, rb, history>>

\* The slot's inline entry is the one the call is about.
SameKey(p) == inline[Here(p)] # Nil /\ inline[Here(p)].key = call[p].key

\* The states an insert claims a slot from, and the state it leaves it in.
ClaimsWriting == {"EMPTY", "WRITING", "TOMBSTONE", "DATA"}
Claimable == {"EMPTY", "TOMBSTONE", "DATA"}
ClaimsAsChild == "CHILD_STALE"
ClaimedState == "WRITING"

\* The first CAS of cas_empty_to_data, cas_tombstone_to_child_stale and
\* cas_data_to_child_stale: the slot is WRITING and belongs to the thread.
Claim(p) ==
    LET c == Here(p) IN
    /\ pc[p] = "slot"
    /\ call[p].op \in {"insert", "get_or_insert"}
    /\ st[c] \in Claimable
    /\ ~(call[p].op = "get_or_insert" /\ st[c] = "DATA" /\ SameKey(p))
    /\ st' = [st EXCEPT ![c] = ClaimedState]
    /\ walk' = [walk EXCEPT ![p].from = st[c]]
    /\ Goto(p, "publish")
    /\ UNCHANGED <<model, inline, ptr, tombs, used, retired, counts, ops, call,
                   changed, ret, num, rb, history>>

\* The insert replaces the value of a key that is already there.
NeverUpdate(p) == FALSE
IsUpdate(p) == walk[p].from = "DATA" /\ SameKey(p)

\* The new entry goes into the slot itself, which has never held one.
InPlaceTombstone(p) == walk[p].from \in {"EMPTY", "TOMBSTONE"}
InPlace(p) == walk[p].from = "EMPTY"

\* cas_empty_to_data after its CAS: write the inline data, publish DATA.
PublishInline(p) ==
    LET c == Here(p) IN
    /\ pc[p] = "publish"
    /\ InPlace(p)
    /\ inline' = [inline EXCEPT ![c] = [key |-> call[p].key, val |-> Val(p)]]
    /\ st' = [st EXCEPT ![c] = "DATA"]
    /\ changed' = [changed EXCEPT ![p] = TRUE]
    /\ ret' = [ret EXCEPT ![p] = Val(p)]
    /\ Goto(p, "validate")
    /\ UNCHANGED <<model, ptr, tombs, used, retired, counts, ops, call, walk,
                   num, rb, history>>

\* cas_tombstone_to_child_stale and cas_data_to_child_stale after their CAS:
\* the entry goes into a new child, together with the entry of another key
\* that was in the slot; the slot's own inline data stays, stale.
PublishChild(p) ==
    LET c    == Here(p)
        mine == [key |-> call[p].key, val |-> Val(p)]
        both == walk[p].from = "DATA" /\ ~SameKey(p)
        E    == IF both THEN {mine, inline[c]} ELSE {mine}
        m    == IF both THEN ConflictModel(inline[c].key, mine.key)
                        ELSE SingleModel(mine.key)
    IN
    /\ pc[p] = "publish"
    /\ ~InPlace(p)
    /\ AddNode(m, E)
    /\ ptr' = [ptr EXCEPT ![c] = Plain(Fresh)]
    /\ st' = [StatesWith(m, E) EXCEPT ![c] = "CHILD_STALE"]
    /\ changed' = [changed EXCEPT ![p] =
                     @ \/ (call[p].op = "insert" /\ ~IsUpdate(p))]
    /\ Goto(p, "validate")
    /\ UNCHANGED <<tombs, retired, counts, ops, call, walk, ret, num, rb,
                   history>>

\* remove: the key is not in the tree (or no longer: was_removed).
RemoveMiss(p) ==
    LET c == Here(p) IN
    /\ pc[p] = "slot"
    /\ call[p].op = "remove"
    /\ st[c] \in {"EMPTY", "TOMBSTONE"} \/ (st[c] = "DATA" /\ ~SameKey(p))
    /\ Goto(p, "recheck")
    /\ UNCHANGED <<tree, counts, ops, call, walk, changed, ret, num, rb, history>>

\* cas_data_to_tombstone.
RemoveHit(p) ==
    LET c == Here(p) IN
    /\ pc[p] = "slot"
    /\ call[p].op = "remove"
    /\ st[c] = "DATA" /\ SameKey(p)
    /\ st' = [st EXCEPT ![c] = "TOMBSTONE"]
    /\ changed' = [changed EXCEPT ![p] = TRUE]
    /\ Goto(p, "validate")
    /\ UNCHANGED <<model, inline, ptr, tombs, used, retired, counts, ops, call,
                   walk, ret, num, rb, history>>

\* get_or_insert: the key is there; its value is returned as it is.
GetExisting(p) ==
    LET c == Here(p) IN
    /\ pc[p] = "slot"
    /\ call[p].op = "get_or_insert"
    /\ st[c] = "DATA" /\ SameKey(p)
    /\ ret' = [ret EXCEPT ![p] = inline[c].val]
    /\ Goto(p, "recheck")
    /\ UNCHANGED <<tree, counts, ops, call, walk, changed, num, rb, history>>

\* The post-CAS validation: nothing was descended into, or the first child
\* followed is still in place and not frozen.
SnapshotUnchanged(p) ==
    \/ walk[p].snap = RootCell
    \/ ptr[walk[p].snap].node = walk[p].child
SnapshotValid(p) ==
    \/ walk[p].snap = RootCell
    \/ ptr[walk[p].snap] = Plain(walk[p].child)

\* Where an insert goes after its validation and its rebuild: get_or_insert
\* looks its own entry up in the child it made.
AfterTrigger(p) ==
    IF call[p].op = "get_or_insert" /\ walk[p].from # "EMPTY"
    THEN "own" ELSE "recheck"

\* An insert of a new key that descended too deep rebuilds the first child.
TooDeep(p) ==
    /\ call[p].op # "remove"
    /\ AutoRebuild /\ walk[p].depth > DepthThreshold /\ ~IsUpdate(p)

\* After the CAS: adjust the tombstone count, then validate.  On failure the
\* call restarts from the root node it was given ('retry), and get_or_insert
\* remembers that it has inserted (retry_was_new).
Validate(p) ==
    LET n == walk[p].cur IN
    /\ pc[p] = "validate"
    /\ tombs' = [tombs EXCEPT ![n] =
         IF call[p].op = "remove" THEN @ + 1
         ELSE IF walk[p].from = "TOMBSTONE" THEN @ - 1 ELSE @]
    /\ \/ /\ ~SnapshotValid(p)
          /\ walk' = [walk EXCEPT ![p] = WalkFrom(walk[p].entry)]
          /\ Goto(p, "slot")
          /\ UNCHANGED rb
       \/ /\ SnapshotValid(p) /\ TooDeep(p)
          /\ StartRebuild(p, "subtree", walk[p].snap)
          /\ UNCHANGED walk
       \/ /\ SnapshotValid(p) /\ ~TooDeep(p)
          /\ Goto(p, IF call[p].op = "remove" THEN "ratio" ELSE AfterTrigger(p))
          /\ UNCHANGED <<walk, rb>>
    /\ changed' = [changed EXCEPT ![p] =
                     @ \/ (~SnapshotValid(p) /\ call[p].op = "get_or_insert")]
    /\ UNCHANGED <<model, st, inline, ptr, used, retired, counts, ops, call,
                   ret, num, history>>

\* tombstone_ratio() > tombstone_ratio_threshold.  num_tombstones is an
\* AtomicUsize: below zero (the tombstone replaced before it was counted) it
\* reads as a huge number.
TombstoneHeavy(n) ==
    tombs[n] < 0 \/ tombs[n] * TombDen > TombNum * model[n].cap

\* remove: compact the subtree when the node holds too many tombstones.
CheckRatio(p) ==
    /\ pc[p] = "ratio"
    /\ IF AutoRebuild /\ TombstoneHeavy(walk[p].cur) /\ walk[p].snap # RootCell
       THEN StartRebuild(p, "subtree", walk[p].snap)
       ELSE Goto(p, "recheck") /\ UNCHANGED rb
    /\ UNCHANGED <<tree, counts, ops, call, walk, changed, ret, num, history>>

\* get_or_insert: load the child just made, to look the entry up in it.
LoadOwn(p) ==
    /\ pc[p] = "own"
    /\ walk' = [walk EXCEPT ![p].at = ptr[Here(p)].node]
    /\ Goto(p, "read")
    /\ UNCHANGED <<tree, counts, ops, call, changed, ret, num, rb, history>>

\* The map's validation: the root is still the one the call worked on, and is
\* not frozen.
RootUnchanged(p) == ptr[RootCell].node = walk[p].entry
RootValid(p) == ptr[RootCell] = Plain(walk[p].entry)

Recheck(p) ==
    /\ pc[p] = "recheck"
    /\ Goto(p, IF ~RootValid(p) THEN "root"
               ELSE IF changed[p] THEN "count" ELSE "return")
    /\ UNCHANGED <<tree, counts, ops, call, walk, changed, ret, num, rb, history>>

\* len.fetch_add / fetch_sub, once per call.
Count(p) ==
    /\ pc[p] = "count"
    /\ len' = len + (IF call[p].op = "remove" THEN -1 ELSE 1)
    /\ num' = [num EXCEPT ![p] = len']
    /\ Goto(p, IF call[p].op # "remove" /\ AutoRebuild THEN "grow" ELSE "return")
    /\ UNCHANGED <<tree, next_root_rebuild, ops, call, walk, changed, ret, rb,
                   history>>

\* maybe_rebuild_root: compare the length with the threshold (a length below
\* zero is a wrapped usize, above every threshold) ...
CheckGrowth(p) ==
    /\ pc[p] = "grow"
    /\ IF 0 <= num[p] /\ num[p] < next_root_rebuild
       THEN Goto(p, "return") /\ UNCHANGED num
       ELSE /\ num' = [num EXCEPT ![p] = next_root_rebuild]
            /\ Goto(p, "advance")
    /\ UNCHANGED <<tree, counts, ops, call, walk, changed, ret, rb, history>>

\* ... and claim the rebuild by doubling the threshold.
AdvanceThreshold(p) ==
    /\ pc[p] = "advance"
    /\ IF next_root_rebuild = num[p]
       THEN /\ next_root_rebuild' = 2 * num[p]
            /\ StartRebuild(p, "rebuild", RootCell)
       ELSE Goto(p, "return") /\ UNCHANGED <<next_root_rebuild, rb>>
    /\ UNCHANGED <<tree, len, ops, call, walk, changed, ret, num, history>>
-----------------------------------------------------------------------------
(***************************************************************************)
(* get and iteration: they never look at tags.                             *)
(***************************************************************************)
\* LearnedMap::get and iter load the root.
ReadRoot(p) ==
    LET n == ptr[RootCell].node IN
    /\ pc[p] = "read_root"
    /\ walk' = [walk EXCEPT ![p].at = n]
    /\ IF call[p].op = "get"
       THEN Goto(p, "read") /\ UNCHANGED rb
       ELSE /\ rb' = [rb EXCEPT ![p] = [NoScan EXCEPT !.todo = ScanOf(n)]]
            /\ Goto(p, "scan")
    /\ UNCHANGED <<tree, counts, ops, call, changed, ret, num, history>>

\* The slot holds the key the thread looks for.
HoldsData(p, c) == st[c] = "DATA"
Holds(p, c) == st[c] = "DATA" /\ inline[c].key = call[p].key

\* One iteration of lookup::get.  A get returns its result; get_or_insert
\* returns the entry it finds as inserted and otherwise goes on with its loop.
ReadStep(p) ==
    LET c     == predict_slot(walk[p].at, call[p].key)
        found == Holds(p, c)
    IN
    /\ pc[p] = "read"
    /\ IF IsChild(st[c])
       THEN /\ walk' = [walk EXCEPT ![p].at = ptr[c].node]
            /\ UNCHANGED <<pc, ret, changed>>
       ELSE /\ ret' = [ret EXCEPT ![p] = IF found THEN inline[c].val ELSE Nil]
            /\ changed' = [changed EXCEPT ![p] =
                             @ \/ (found /\ call[p].op = "get_or_insert")]
            /\ Goto(p, IF call[p].op = "get" THEN "return"
                       ELSE IF found THEN "recheck" ELSE "slot")
            /\ UNCHANGED walk
    /\ UNCHANGED <<tree, counts, ops, call, num, rb, history>>

\* Iter::next does not pass a slot that is being written.
AlwaysReady(c) == TRUE
ScanReady(c) == st[c] # "WRITING"

\* The iterator after slot c: it yields the slot's data, descends into its child
\* or passes over it.
Scanned(p, c) ==
    LET r     == rb[p]
        below == IF IsChild(st[c]) THEN ScanOf(ptr[c].node) ELSE <<>>
    IN  [r EXCEPT !.todo  = below \o Tail(r.todo),
                  !.pairs = IF st[c] = "DATA" THEN r.pairs \cup {inline[c]}
                                              ELSE r.pairs]

\* Iter::next at one slot.
ScanStep(p) ==
    LET c == Head(rb[p].todo) IN
    /\ pc[p] \in {"scan", "rb_scan"}
    /\ rb[p].todo # <<>>
    /\ ScanReady(c)
    /\ rb' = [rb EXCEPT ![p] = Scanned(p, c)]
    /\ UNCHANGED <<tree, counts, pc, ops, call, walk, changed, ret, num, history>>

\* The iterator is exhausted.
ScanEnd(p) ==
    /\ pc[p] = "scan"
    /\ rb[p].todo = <<>>
    /\ Goto(p, "return")
    /\ UNCHANGED <<tree, counts, ops, call, walk, changed, ret, num, rb, history>>
-----------------------------------------------------------------------------
(***************************************************************************)
(* try_rebuild_subtree, rebuild, clear and drain: freeze the pointer, read *)
(* the tree below it, swap in a new one, retire the old one.               *)
(***************************************************************************)
\* Where the rebuilding function returns to.
Caller(p) == IF rb[p].kind = "subtree" THEN AfterTrigger(p) ELSE "return"

\* Where it goes when it does not rebuild: it returns, and never tries again.
TryAgain(p) == IF rb[p].kind = "rebuild" THEN "rb_load" ELSE Caller(p)
GiveUp(p) == Caller(p)

\* Load the pointer; give up if another thread has frozen it.
LoadVictim(p) ==
    LET q == ptr[rb[p].cell] IN
    /\ pc[p] = "rb_load"
    /\ IF q.tag # 0
       THEN Goto(p, GiveUp(p)) /\ UNCHANGED rb
       ELSE Goto(p, "rb_freeze") /\ rb' = [rb EXCEPT ![p].victim = q.node]
    /\ UNCHANGED <<tree, counts, ops, call, walk, changed, ret, num, history>>

\* The freezing CAS expects the pointer loaded, with tag 0.
StillSameNode(p) == ptr[rb[p].cell].node = rb[p].victim
StillUnfrozen(p) == ptr[rb[p].cell] = Plain(rb[p].victim)

\* Freeze it: CAS the tag from 0 to 1; give up if it has changed meanwhile.
Freeze(p) ==
    LET c == rb[p].cell  v == rb[p].victim IN
    /\ pc[p] = "rb_freeze"
    /\ IF StillUnfrozen(p)
       THEN /\ ptr' = [ptr EXCEPT ![c] = Frozen(v)]
            /\ rb' = [rb EXCEPT ![p].todo = ScanOf(v)]
            /\ Goto(p, "rb_scan")
       ELSE Goto(p, GiveUp(p)) /\ UNCHANGED <<ptr, rb>>
    /\ UNCHANGED <<model, st, inline, tombs, used, retired, counts, ops, call,
                   walk, changed, ret, num, history>>

\* The snapshot is complete, and too small to be worth a rebuild.
TooSmall(p) ==
    \/ rb[p].kind = "subtree" /\ Cardinality(rb[p].pairs) <= 1
    \/ rb[p].kind = "rebuild" /\ rb[p].pairs = {}

\* Unfreeze (FreezeGuard::drop, and the early return of rebuild).
Unfreeze(p) ==
    LET c == rb[p].cell  v == rb[p].victim IN
    /\ pc[p] = "rb_scan"
    /\ rb[p].todo = <<>>
    /\ TooSmall(p)
    /\ ptr' = [ptr EXCEPT ![c] = IF @ = Frozen(v) THEN Plain(v) ELSE @]
    /\ Goto(p, GiveUp(p))
    /\ UNCHANGED <<model, st, inline, tombs, used, retired, counts, ops, call,
                   walk, changed, ret, num, rb, history>>

\* What goes into the replacement: nothing for clear and drain, otherwise the
\* snapshot.
NewEntries(p) == IF rb[p].kind \in {"clear", "drain"} THEN {} ELSE rb[p].pairs
NewTrees(p) == Trees(rb[p].kind, {e.key : e \in NewEntries(p)})

\* What a successful swap hands to defer_destroy.
Leaked(p) == {}
Garbage(p) == {rb[p].victim}

\* Build the replacement, CAS it in place of the frozen pointer and retire the
\* old node.  Should the CAS fail, the replacement is dropped.
Swap(p) ==
    LET c  == rb[p].cell
        v  == rb[p].victim
        ok == ptr[c] = Frozen(v)
    IN
    /\ pc[p] = "rb_scan"
    /\ rb[p].todo = <<>>
    /\ ~TooSmall(p)
    /\ IF ok
       THEN /\ \E g \in NewTrees(p) : AddTree(rb[p].kind, g, NewEntries(p), c)
            /\ retired' = retired \cup Garbage(p)
       ELSE UNCHANGED <<model, used, inline, st, ptr, retired>>
    /\ changed' = [changed EXCEPT ![p] = @ \/ (ok /\ rb[p].kind \in {"clear", "drain"})]
    /\ Goto(p, IF ok /\ rb[p].kind # "subtree" THEN "rb_post" ELSE Caller(p))
    /\ UNCHANGED <<tombs, counts, ops, call, walk, ret, num, rb, history>>

\* After the swap of a root: clear and drain take what they counted off len;
\* the rebuild schedule is reset.
ResetCounters(p) ==
    LET n     == Cardinality(rb[p].pairs)
        empty == rb[p].kind \in {"clear", "drain"}
    IN
    /\ pc[p] = "rb_post"
    /\ len' = IF empty THEN len - n ELSE len
    /\ next_root_rebuild' = IF empty THEN InitialRootRebuild ELSE 2 * n
    /\ Goto(p, Caller(p))
    /\ UNCHANGED <<tree, ops, call, walk, changed, ret, num, rb, history>>
-----------------------------------------------------------------------------
Step(p) ==
    \/ Return(p)
    \/ LoadRoot(p) \/ Descend(p)
    \/ Claim(p) \/ PublishInline(p) \/ PublishChild(p)
    \/ RemoveMiss(p) \/ RemoveHit(p) \/ GetExisting(p)
    \/ Validate(p) \/ CheckRatio(p) \/ LoadOwn(p)
    \/ Recheck(p) \/ Count(p) \/ CheckGrowth(p) \/ AdvanceThreshold(p)
    \/ ReadRoot(p) \/ ReadStep(p) \/ ScanStep(p) \/ ScanEnd(p)
    \/ LoadVictim(p) \/ Freeze(p) \/ Unfreeze(p) \/ Swap(p) \/ ResetCounters(p)

\* Every thread has made all its calls.
Finished == \A p \in Threads : pc[p] = "idle" /\ ops[p] = Len(Program[p])
Rest == Finished /\ UNCHANGED vars

Next == (\E p \in Threads : Begin(p) \/ Step(p)) \/ Rest

Spec == Init /\ [][Next]_vars

\* The operating system keeps running every thread that can take a step.
Fairness == \A p \in Threads : WF_vars(Begin(p) \/ Step(p))
FairSpec == Spec /\ Fairness
-----------------------------------------------------------------------------
(***************************************************************************)
(* Properties.                                                             *)
(***************************************************************************)
PcValues ==
    {"idle", "return", "root", "slot", "publish", "validate", "ratio", "own",
     "recheck", "count", "grow", "advance", "read_root", "read", "scan",
     "rb_load", "rb_freeze", "rb_scan", "rb_post"}
SlotStates == {"EMPTY", "WRITING", "DATA", "CHILD", "CHILD_STALE", "TOMBSTONE"}
Walks == [entry : Nodes, cur : Nodes, at : Nodes, snap : Cells, child : Nodes,
          depth : Nat, from : SlotStates]
Scans == [kind : Sweepers \cup {"none", "subtree"}, cell : Cells,
          victim : Nodes, todo : Seq(SlotCells), pairs : SUBSET Entries]

TreeTypes ==
    /\ model \in [Nodes -> Models]
    /\ st \in [SlotCells -> SlotStates]
    /\ inline \in [SlotCells -> Entries \cup {Nil}]
    /\ ptr \in [Cells -> Ptrs]
    /\ tombs \in [Nodes -> Int]
    /\ used \in Nodes
    /\ retired \in SUBSET Nodes
    /\ len \in Int
    /\ next_root_rebuild \in Nat
ThreadTypes ==
    /\ pc \in [Threads -> PcValues]
    /\ ops \in [Threads -> Nat]
    /\ call \in [Threads -> Calls]
    /\ walk \in [Threads -> Walks]
    /\ changed \in [Threads -> BOOLEAN]
    /\ ret \in [Threads -> Outcomes]
    /\ num \in [Threads -> Int]
    /\ rb \in [Threads -> Scans]
HistoryTypes ==
    /\ acc \in [Keys -> SUBSET Outcomes]
    /\ before \in [Threads -> [Keys -> SUBSET Outcomes]]
    /\ rival \in [Threads -> [Keys -> SUBSET Outcomes]]

\* Type invariant.  It says more than a type in one place: every node a thread
\* holds, in particular one just read from a child slot, is a node and not the
\* null pointer.
TypeOK == TreeTypes /\ ThreadTypes /\ HistoryTypes

\* What a lookup of k that nothing disturbs finds from each node on.
LookupFrom(k) ==
    LET find[n \in Nodes] ==
          LET c == predict_slot(n, k) IN
          IF st[c] = "DATA" /\ inline[c].key = k THEN inline[c].val
          ELSE IF IsChild(st[c]) THEN find[ptr[c].node] ELSE Nil
    IN  find

\* What it finds for key k in the map.
Lookup(k) == LookupFrom(k)[ptr[RootCell].node]

\* No call that may change k is running, and no slot is half written.
Settled(k) == \A p \in Threads : Effect(p, k) = {} /\ pc[p] # "publish"

\* No lost update: whenever no call that may change k is running, the map holds
\* for k the outcome of a finished call that no later finished call superseded.
\* A write that lands in a subtree or a root being rebuilt is neither dropped
\* nor brought back once it has been overwritten or removed.
NoLostUpdate == \A k \in Keys : Settled(k) => Lookup(k) \in acc[k]

\* The thread holds a frozen pointer.
Freezing(p) == pc[p] = "rb_scan"

\* A frozen pointer has exactly one owner, which finds it as it left it: the
\* unfreezing CAS and the swapping CAS of its owner always succeed
\* ("no other code path modifies a frozen root").
FreezeExclusive ==
    /\ \A p \in Threads : Freezing(p) => ptr[rb[p].cell] = Frozen(rb[p].victim)
    /\ \A c \in Cells : ptr[c].tag = 1 =>
         \E p \in Threads : Freezing(p) /\ rb[p].cell = c
    /\ \A p, q \in Threads :
         p # q /\ Freezing(p) /\ Freezing(q) => rb[p].cell # rb[q].cell

\* A WRITING slot has exactly one owner, the thread about to publish it.
SlotExclusive ==
    /\ \A c \in SlotCells : st[c] = "WRITING" =>
         \E p \in Threads : pc[p] = "publish" /\ Here(p) = c
    /\ \A p \in Threads : pc[p] = "publish" => st[Here(p)] = "WRITING"
    /\ \A p, q \in Threads :
         p # q /\ pc[p] = "publish" /\ pc[q] = "publish" => Here(p) # Here(q)

\* Inline data is written once: readers that saw DATA keep references to it
\* while the slot becomes a tombstone, a child, or both in turn.
WriteOnce ==
    [][\A c \in SlotCells : inline[c] # Nil => inline'[c] = inline[c]]_vars

\* Every allocated node has exactly one owner, the root pointer, one child slot
\* or the garbage list: nothing leaks, nothing is destroyed twice, and a
\* retired node can no longer be reached.
OneOwner ==
    \A n \in 1..used :
        Cardinality({c \in Cells : ptr[c].node = n})
          + (IF n \in retired THEN 1 ELSE 0) = 1

\* An iteration yields, for every key, a value the key may have held while it
\* ran: it misses no key that is there throughout, also while subtrees and the
\* root are being rebuilt under it.
ResultFor(p, k) ==
    IF \E e \in rb[p].pairs : e.key = k
    THEN (CHOOSE e \in rb[p].pairs : e.key = k).val ELSE Nil
IterRegular ==
    \A p \in Threads : pc[p] = "return" /\ call[p].op = "iter" =>
        /\ \A k \in Keys : ResultFor(p, k) \in View(p, k)
        /\ \A e, f \in rb[p].pairs : e.key = f.key => e = f

\* A value returned by get or get_or_insert was written by a call that overlaps
\* or that was not superseded when the call began.
ReadsWritten ==
    \A p \in Threads :
        pc[p] = "return" /\ call[p].op \in {"get", "get_or_insert"} /\ ret[p] # Nil
          => ret[p] \in View(p, call[p].key)

\* What the map holds.
Content == {k \in Keys : Lookup(k) # Nil}

\* The entries an iteration that nothing disturbs yields from each node on.
EntriesFrom ==
    LET below[n \in Nodes] ==
          LET cells == {n} \X Slots IN
          {inline[c] : c \in {d \in cells : st[d] = "DATA"}}
            \cup UNION {below[ptr[c].node] : c \in {d \in cells : IsChild(st[d])}}
    IN  below

\* The tree is a search tree, whatever is under way: its live entries are those
\* lookups find, so no entry hides from get where an iteration sees it, and no
\* key has two values in it (an insert that starts over after a rebuild has
\* copied its first attempt makes no second entry).
SearchTree ==
    EntriesFrom[ptr[RootCell].node]
      = {[key |-> k, val |-> Lookup(k)] : k \in Content}

\* len is the number of keys whenever no call is running.
LenExact == (\A p \in Threads : ~Active(p)) => len = Cardinality(Content)

\* A get misses no key that is there from its beginning to its end
\* (tests/concurrent.rs, map_ref_concurrent, asserts it of keys inserted by the
\* thread itself: "assert!(m.contains_key(&(base + i)));").
GetSeesPresent ==
    \A p \in Threads :
        pc[p] = "return" /\ call[p].op = "get" /\ ret[p] = Nil
          => Nil \in View(p, call[p].key)

\* Every call returns: no thread waits forever on a WRITING slot or on a frozen
\* pointer, and every retry ends.
Terminates == <>[]Finished
=============================================================================
