-------------------------------- MODULE Lsm --------------------------------
(***************************************************************************)
(* LsmEngine (scry-lsm/src): clients that share an engine write through    *)
(* the write-ahead log and the memtable; a full memtable is drained into   *)
(* an SSTable of level 0; full levels are merged into the next one.  The   *)
(* process may crash or be closed, and the engine is opened again.         *)
(*                                                                         *)
(* A step is one access to shared state: an append under the WAL's mutex,  *)
(* one operation on the memtable (a map whose operations are taken to be   *)
(* atomic; LearnedTree looks into them), the section that writes a table.  *)
(* The manifest's mutex is held over several steps of a flush; what get,   *)
(* ingest_sorted and the compaction do under it is one step, as nobody     *)
(* else can look.                                                          *)
(*                                                                         *)
(* The WAL is the bytes of its file and of the BufWriter in front of it; a *)
(* crash leaves the file and whatever part of the BufWriter's bytes had    *)
(* reached it.  The manifest lives in memory: the files of a level are     *)
(* reachable only through it.  A key is one byte, and every value put is   *)
(* unique, the bytes <<client, call number>>; a deletion stores the empty  *)
(* value.  I/O errors and poisoned locks are left out.                     *)
(***************************************************************************)
EXTENDS SsTable, Wal

CONSTANTS
    Clients,         \* the threads that share the engine, each a byte
    Keys,            \* the keys, each a byte
    Program,         \* Program[p]: the sequence of sets of calls p may make
    Backends,        \* the memtables the engine may be opened with
    FlushThreshold,  \* EngineConfig::flush_threshold, in entries
    MaxTables,       \* MAX_TABLES_PER_LEVEL
    NumLevels,       \* NUM_LEVELS
    MaxRestarts      \* bound: crashes and closes of a run

Empty == <<>>

ASSUME LsmAssumption ==
    /\ Clients \subseteq 0..255 /\ Keys \subseteq 0..255 /\ Keys # {}
    /\ Backends \subseteq {"learned", "skiplist", "btree"}
    /\ FlushThreshold \in Nat /\ MaxTables \in Nat \ {0}
    /\ NumLevels \in Nat \ {0} /\ MaxRestarts \in Nat

\* The calls of the engine: put, delete and get name one key, ingest_sorted a
\* sequence of them.
Calls ==
    [op : {"put", "delete", "get"}, keys : {<<k>> : k \in Keys}]
      \cup [op : {"ingest_sorted"}, keys : Seq(Keys)]
      \cup [op : {"flush"}, keys : {<<>>}]

ASSUME ProgramAssumption ==
    Program \in [Clients -> Seq(SUBSET Calls)]

VARIABLES
    backend,  \* the kind of memtable
    mem,      \* the memtable: Nil where a key has no entry
    bytes,    \* byte_count, in entries
    wal,      \* the log file when it was opened or truncated
    buf,      \* what was appended since
    torn,     \* the file ended in an incomplete record when it was opened
    levels,   \* Manifest::levels
    lock,     \* who holds the manifest's mutex
    restarts, \* crashes and closes so far
    pc, ops, call,
    held,     \* the entries a flush has drained
    todo,     \* the keys a pass of the skip list's drain has yet to visit
    ret,      \* what get returns
    acc,      \* history: the outcomes acceptable for each key, as pairs
    before,   \* history: acc when the client's call began
    rival     \* history: outcomes of the calls that overlap the client's call

vars == <<backend, mem, bytes, wal, buf, torn, levels, lock, restarts, pc, ops, call,
          held, todo, ret, acc, before, rival>>
log     == <<wal, buf, torn>>
client  == <<ops, call>>
drained == <<held, todo>>
history == <<acc, before, rival>>

Goto(p, l) == pc' = [pc EXCEPT ![p] = l]
Val(p)     == <<p, ops[p] + 1>>
Key(p)     == call[p].keys[1]
Learned    == backend = "learned"
Skiplist   == backend = "skiplist"
NoCall     == [op |-> "flush", keys |-> <<>>]
Active(p)  == pc[p] # "idle"

\* The value put or delete stores.
Stored(p) == IF call[p].op = "delete" THEN Empty ELSE Val(p)
-----------------------------------------------------------------------------
(***************************************************************************)
(* The memtable, the log and the levels as values.                         *)
(***************************************************************************)
NoEntries == [k \in Keys |-> Nil]

\* Entries of a map from keys to values in ascending order.
SortedEntries(m) ==
    LET ks == SetToSortSeq({k \in DOMAIN m : m[k] # Nil}, <)
    IN  [i \in DOMAIN ks |-> [key |-> ks[i], val |-> m[ks[i]]]]

\* LsmEngine::open replays the records Wal::recover finds: the last one of a
\* key counts.
Replay(records) ==
    [k \in Keys |->
       LET at == {i \in DOMAIN records : records[i].key = <<k>>}
       IN  IF at = {} THEN Nil ELSE records[Max(at)].val]

\* The byte count after the replay: LearnedMemtable counts a key once.
ReplayedBytes(records) ==
    IF Learned THEN Cardinality({records[i].key : i \in DOMAIN records})
               ELSE Len(records)

\* LsmEngine::get below the memtable: levels from the first to the last, each
\* from its newest table to its oldest.
SearchOrder == FlattenSeq([l \in DOMAIN levels |-> Reverse(levels[l])])
FindInTables(k) ==
    LET hits == SelectSeq(SearchOrder,
                          LAMBDA t : InRange(t, k) /\ TableGet(t, k) # Nil)
    IN  IF hits = <<>> THEN Nil ELSE TableGet(hits[1], k)

\* Manifest::add, which makes the level if it is not there.
AddUnresized(L, l, t) == [L EXCEPT ![l] = Append(@, t)]
AddTo(L, l, t) ==
    IF l > Len(L) THEN Append(L, <<t>>) ELSE [L EXCEPT ![l] = Append(@, t)]

\* The merge of compact_level: MergeEntry::cmp makes the heap pop, of entries
\* with the same key, the one of the lowest source first, and the others are
\* skipped.
Merged(tables) ==
    LET scans == [i \in DOMAIN tables |-> Range(TableScan(tables[i]))] IN
    [k \in Keys |->
       LET at == {i \in DOMAIN scans : \E e \in scans[i] : e.key = k}
       IN  IF at = {} THEN Nil
           ELSE (CHOOSE e \in scans[Min(at)] : e.key = k).val]

\* compact_level of level l - 1 into level l (levels are numbered from 1 here):
\* tombstones are dropped when the target is the highest level.
CompactLevel(L, l) ==
    LET highest == l >= Len(L) - 1
        merged  == Merged(L[l])
        kept    == [k \in Keys |->
                      IF highest /\ merged[k] = Empty THEN Nil ELSE merged[k]]
        rest    == [L EXCEPT ![l] = <<>>]
    IN  IF kept = NoEntries THEN rest
        ELSE AddTo(rest, l + 1, WriteTable(SortedEntries(kept)))

\* maybe_compact: every level that was there at the start, in order.
Compacted(L) ==
    FoldLeft(LAMBDA M, l : IF Len(M[l]) >= MaxTables THEN CompactLevel(M, l)
                                                     ELSE M,
             L, [l \in 1..Len(L) |-> l])
-----------------------------------------------------------------------------
(***************************************************************************)
(* History.                                                                *)
(***************************************************************************)
\* A key whose newest entry is a tombstone has no value.
Visible(v) == IF v = Empty THEN Nil ELSE v

Ascending(ks) == \A i, j \in DOMAIN ks : i < j => ks[i] < ks[j]

EffectsOf(c, v) ==
    CASE c.op = "put"    -> {<<c.keys[1], v>>}
      [] c.op = "delete" -> {<<c.keys[1], Nil>>}
      [] c.op = "ingest_sorted" /\ Ascending(c.keys) ->
           {<<c.keys[i], v>> : i \in DOMAIN c.keys}
      [] OTHER -> {}
Effects(p) == IF Active(p) THEN EffectsOf(call[p], Val(p)) ELSE {}

\* acc once the call of p has returned.
Accepted(p) ==
    LET ks == {e[1] : e \in Effects(p)}
    IN  {a \in acc : a[1] \notin ks \/ a \in rival[p]} \cup Effects(p)
-----------------------------------------------------------------------------
Init ==
    /\ backend \in Backends
    /\ mem = NoEntries
    /\ bytes = 0
    /\ wal = <<>> /\ buf = <<>> /\ torn = FALSE
    /\ levels = [l \in 1..NumLevels |-> <<>>]
    /\ lock = Nil
    /\ restarts = 0
    /\ pc = [p \in Clients |-> "idle"]
    /\ ops = [p \in Clients |-> 0]
    /\ call = [p \in Clients |-> NoCall]
    /\ held = [p \in Clients |-> NoEntries]
    /\ todo = [p \in Clients |-> Keys]
    /\ ret = [p \in Clients |-> Nil]
    /\ acc = Keys \X {Nil}
    /\ before = [p \in Clients |-> {}]
    /\ rival = [p \in Clients |-> {}]

\* A client calls a method of the engine.
Begin(p) ==
    /\ pc[p] = "idle"
    /\ ops[p] < Len(Program[p])
    /\ \E c \in Program[p][ops[p] + 1] :
         /\ call' = [call EXCEPT ![p] = c]
         /\ Goto(p, CASE c.op \in {"put", "delete"} -> "log"
                      [] c.op = "get"               -> "get"
                      [] c.op = "flush"             -> "drain"
                      [] c.op = "ingest_sorted"     -> "ingest")
         /\ before' = [before EXCEPT ![p] = acc]
         /\ rival' = [q \in Clients |->
              IF q = p THEN UNION {Effects(o) : o \in Clients \ {p}}
              ELSE IF Active(q) THEN rival[q] \cup EffectsOf(c, Val(p))
              ELSE rival[q]]
    /\ UNCHANGED <<backend, mem, bytes, log, levels, lock, restarts, ops,
                   drained, ret, acc>>

Return(p) ==
    /\ pc[p] = "return"
    /\ Goto(p, "idle")
    /\ acc' = Accepted(p)
    /\ ops' = [ops EXCEPT ![p] = @ + 1]
    /\ call' = [call EXCEPT ![p] = NoCall]
    /\ before' = [before EXCEPT ![p] = {}]
    /\ rival' = [rival EXCEPT ![p] = {}]
    /\ ret' = [ret EXCEPT ![p] = Nil]
    /\ UNCHANGED <<backend, mem, bytes, log, levels, lock, restarts,
                   drained>>
-----------------------------------------------------------------------------
\* append_put and append_delete, under the WAL's mutex.
AppendLog(p) ==
    /\ pc[p] = "log"
    /\ buf' = buf \o (IF call[p].op = "put" THEN append_put(<<Key(p)>>, Val(p))
                                            ELSE append_delete(<<Key(p)>>))
    /\ Goto(p, "insert")
    /\ UNCHANGED <<backend, mem, bytes, wal, torn, levels, lock, restarts,
                   client, drained, ret, history>>

\* Where put and delete go once the memtable has the entry: only put flushes.
Inserted(p) == IF call[p].op = "put" THEN "maybe_flush" ELSE "return"

\* Memtable::insert.  LearnedMemtable counts only a new key; for a key that is
\* there already it removes the key and inserts it again.
MemInsert(p) ==
    /\ pc[p] = "insert"
    /\ mem' = [mem EXCEPT ![Key(p)] = Stored(p)]
    /\ Goto(p, IF Learned /\ mem[Key(p)] # Nil THEN "remove" ELSE "count")
    /\ UNCHANGED <<backend, bytes, log, levels, lock, restarts, client,
                   drained, ret, history>>

CountBytes(p) ==
    /\ pc[p] = "count"
    /\ bytes' = bytes + 1
    /\ Goto(p, Inserted(p))
    /\ UNCHANGED <<backend, mem, log, levels, lock, restarts, client,
                   drained, ret, history>>

MemRemove(p) ==
    /\ pc[p] = "remove"
    /\ mem' = [mem EXCEPT ![Key(p)] = Nil]
    /\ Goto(p, "again")
    /\ UNCHANGED <<backend, bytes, log, levels, lock, restarts, client,
                   drained, ret, history>>

\* The entry the second insert of LearnedMemtable::insert stores.
OldEntry(p) == mem[Key(p)]
NewEntry(p) == Stored(p)
MemInsertAgain(p) ==
    /\ pc[p] = "again"
    /\ mem' = [mem EXCEPT ![Key(p)] = NewEntry(p)]
    /\ Goto(p, Inserted(p))
    /\ UNCHANGED <<backend, bytes, log, levels, lock, restarts, client,
                   drained, ret, history>>

MaybeFlush(p) ==
    /\ pc[p] = "maybe_flush"
    /\ Goto(p, IF bytes >= FlushThreshold THEN "drain" ELSE "return")
    /\ UNCHANGED <<backend, mem, bytes, log, levels, lock, restarts,
                   client, drained, ret, history>>

\* drain_sorted of the learned map and of the B-tree, which take everything at
\* once; the B-tree resets its count under its lock.
Drain(p) ==
    /\ pc[p] = "drain"
    /\ ~Skiplist
    /\ held' = [held EXCEPT ![p] = mem]
    /\ mem' = NoEntries
    /\ bytes' = IF Learned THEN bytes ELSE 0
    /\ Goto(p, CASE Learned         -> "zero"
                 [] mem = NoEntries -> "return"
                 [] OTHER           -> "lock")
    /\ UNCHANGED <<backend, log, levels, lock, restarts, client, todo,
                   ret, history>>

\* A pass over the keys in ascending order, ending at label l.
Visit(p, l) ==
    LET rest == todo[p] \ {Min(todo[p])} IN
    /\ todo' = [todo EXCEPT ![p] = IF rest = {} THEN Keys ELSE rest]
    /\ Goto(p, IF rest = {} THEN l ELSE pc[p])

\* drain_sorted of the skip list copies the entries one by one ...
CollectEntry(p) ==
    LET k == Min(todo[p]) IN
    /\ pc[p] = "drain"
    /\ Skiplist
    /\ held' = [held EXCEPT ![p][k] = mem[k]]
    /\ Visit(p, "clear")
    /\ UNCHANGED <<backend, mem, bytes, log, levels, lock, restarts,
                   client, ret, history>>

\* ... and then removes the keys it has copied.
ClearEntry(p) ==
    LET k == Min(todo[p]) IN
    /\ pc[p] = "clear"
    /\ mem' = [mem EXCEPT ![k] = IF held[p][k] # Nil THEN Nil ELSE @]
    /\ Visit(p, "zero")
    /\ UNCHANGED <<backend, bytes, log, levels, lock, restarts, client,
                   held, ret, history>>

\* byte_count.store(0); flush_memtable has nothing to do if nothing was drained.
ZeroBytes(p) ==
    /\ pc[p] = "zero"
    /\ bytes' = 0
    /\ Goto(p, IF held[p] = NoEntries THEN "return" ELSE "lock")
    /\ UNCHANGED <<backend, mem, log, levels, lock, restarts, client,
                   drained, ret, history>>

LockManifest(p) ==
    /\ pc[p] = "lock"
    /\ lock = Nil
    /\ lock' = p
    /\ Goto(p, "table")
    /\ UNCHANGED <<backend, mem, bytes, log, levels, restarts, client,
                   drained, ret, history>>

\* Write the table and register it at level 0.
AddTable(p) ==
    /\ pc[p] = "table"
    /\ levels' = AddTo(levels, 1, WriteTable(SortedEntries(held[p])))
    /\ held' = [held EXCEPT ![p] = NoEntries]
    /\ Goto(p, "truncate")
    /\ UNCHANGED <<backend, mem, bytes, log, lock, restarts, client, todo,
                   ret, history>>

\* Wal::truncate: what the log file and the BufWriter hold is gone.
KeepLog == wal \o buf
EmptyLog == <<>>
TruncateLog(p) ==
    /\ pc[p] = "truncate"
    /\ wal' = EmptyLog /\ buf' = <<>> /\ torn' = FALSE
    /\ Goto(p, "compact")
    /\ UNCHANGED <<backend, mem, bytes, levels, lock, restarts, client,
                   drained, ret, history>>

\* maybe_compact, and the mutex is released.
Compact(p) ==
    /\ pc[p] = "compact"
    /\ levels' = Compacted(levels)
    /\ lock' = Nil
    /\ Goto(p, "return")
    /\ UNCHANGED <<backend, mem, bytes, log, restarts, client, drained,
                   ret, history>>

\* ingest_sorted: a table of its own, or an error if the keys do not ascend.
IngestSorted(p) ==
    LET ks == call[p].keys IN
    /\ pc[p] = "ingest"
    /\ lock = Nil
    /\ levels' = IF ks = <<>> \/ ~Ascending(ks) THEN levels
                 ELSE Compacted(AddTo(levels, 1, WriteTable(
                        [i \in DOMAIN ks |-> [key |-> ks[i], val |-> Val(p)]])))
    /\ Goto(p, "return")
    /\ UNCHANGED <<backend, mem, bytes, log, lock, restarts, client,
                   drained, ret, history>>

\* get: the memtable first ...
GetMem(p) ==
    LET v == mem[Key(p)] IN
    /\ pc[p] = "get"
    /\ ret' = [ret EXCEPT ![p] = Visible(v)]
    /\ Goto(p, IF v = Nil THEN "tables" ELSE "return")
    /\ UNCHANGED <<backend, mem, bytes, log, levels, lock, restarts,
                   client, drained, history>>

\* ... then the tables, under the manifest's mutex.
RawAnswer(k)   == FindInTables(k)
TableAnswer(k) == Visible(FindInTables(k))
GetTables(p) ==
    /\ pc[p] = "tables"
    /\ lock = Nil
    /\ ret' = [ret EXCEPT ![p] = TableAnswer(Key(p))]
    /\ Goto(p, "return")
    /\ UNCHANGED <<backend, mem, bytes, log, levels, lock, restarts,
                   client, drained, history>>
-----------------------------------------------------------------------------
\* LsmEngine::open on the bytes left of the log; it fails, and there is no
\* engine any more, if they are corrupt.  The file is then appended to as it is.
Open(file) ==
    LET r == recover(file) IN
    /\ ~r.corrupt
    /\ mem' = Replay(r.records)
    /\ bytes' = ReplayedBytes(r.records)
    /\ wal' = file /\ buf' = <<>> /\ torn' = (r.end <= Len(file))
    /\ levels' = [l \in 1..NumLevels |-> <<>>]
    /\ lock' = Nil
    /\ restarts' = restarts + 1
    /\ pc' = [p \in Clients |-> "idle"]
    /\ held' = [p \in Clients |-> NoEntries]
    /\ todo' = [p \in Clients |-> Keys]
    /\ ret' = [p \in Clients |-> Nil]
    /\ call' = [p \in Clients |-> NoCall]
    /\ before' = [p \in Clients |-> {}]
    /\ rival' = [p \in Clients |-> {}]
    /\ UNCHANGED backend

\* The process dies: the calls under way end without an answer, and may have
\* taken effect or not; some of the BufWriter's bytes have reached the file.
Crash ==
    /\ restarts < MaxRestarts
    /\ ops' = [p \in Clients |-> IF Active(p) THEN ops[p] + 1 ELSE ops[p]]
    /\ acc' = acc \cup UNION {Effects(p) : p \in Clients}
    /\ \E n \in 0..Len(buf) : Open(wal \o SubSeq(buf, 1, n))

\* The engine is dropped, which flushes the BufWriter, and opened again.
Close ==
    /\ restarts < MaxRestarts
    /\ \A p \in Clients : ~Active(p)
    /\ Open(wal \o buf)
    /\ UNCHANGED <<ops, acc>>
-----------------------------------------------------------------------------
Step(p) ==
    \/ Begin(p) \/ Return(p)
    \/ AppendLog(p) \/ MemInsert(p) \/ CountBytes(p) \/ MemRemove(p)
    \/ MemInsertAgain(p) \/ MaybeFlush(p)
    \/ Drain(p) \/ CollectEntry(p) \/ ClearEntry(p) \/ ZeroBytes(p)
    \/ LockManifest(p) \/ AddTable(p) \/ TruncateLog(p) \/ Compact(p)
    \/ IngestSorted(p) \/ GetMem(p) \/ GetTables(p)

Finished == \A p \in Clients : pc[p] = "idle" /\ ops[p] = Len(Program[p])
Rest == Finished /\ UNCHANGED vars

Next == (\E p \in Clients : Step(p)) \/ Crash \/ Close \/ Rest

Spec == Init /\ [][Next]_vars
-----------------------------------------------------------------------------
(***************************************************************************)
(* Properties.                                                             *)
(***************************************************************************)
\* What a get that nothing disturbs returns.
Lookup(k) == Visible(IF mem[k] # Nil THEN mem[k] ELSE FindInTables(k))

\* No call that writes k is running, and no flush has k in its hands.
Settled(k) ==
    \A p \in Clients : /\ \A e \in Effects(p) : e[1] # k
                       /\ held[p][k] = Nil

\* Whenever nothing is under way for a key, the engine holds for it the outcome
\* of a finished call that no later finished call superseded: reading the
\* memtable first and the tables from newest to oldest finds the newest entry.
ReadsLatest == \A k \in Keys : Settled(k) => <<k, Lookup(k)>> \in acc

Idle == \A p \in Clients : ~Active(p)

\* The log is replayed to the memtable's state whenever no call is running, as
\* the head of wal.rs has it.
LogReplays == Idle => Replay(recover(wal \o buf).records) = mem

\* LogReplays, unless the engine was opened on a log that ended in an incomplete
\* record and has not truncated it since: no write in the memtable is missing
\* from the log, no flushed one comes back, and a restart changes nothing.
LogMatchesMemtable == torn \/ LogReplays

\* Wherever a crash cuts such a log, recovery succeeds and gives the writes up
\* to some point, in order and unchanged: an incomplete record is never taken
\* for a shorter one, nor for an error.
CrashKeepsPrefix ==
    LET file == wal \o buf IN
    torn \/ \A n \in Len(wal)..Len(file) :
              LET r == recover(SubSeq(file, 1, n)) IN
              ~r.corrupt /\ IsPrefix(r.records, recover(file).records)

\* A get returns a value the key may have had while it ran.
GetRegular ==
    \A p \in Clients : pc[p] = "return" /\ call[p].op = "get" =>
        <<Key(p), ret[p]>> \in before[p] \cup rival[p]
=============================================================================
