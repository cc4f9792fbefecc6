----------------------------- MODULE LsmReplay -----------------------------
(***************************************************************************)
(* The log and the memtable of an engine with one client, for any keys,    *)
(* program, memtable and number of crashes: outside calls the log replays  *)
(* to the memtable.                                                        *)
(***************************************************************************)
EXTENDS LsmProofs

\* What the log replays to.
Replayed == Replay(recover(wal \o buf).records)

\* The memtable once the entry of p's call is in it.
WithEntry(p) == [mem EXCEPT ![Key(p)] = Stored(p)]
-----------------------------------------------------------------------------
(***************************************************************************)
(* The replay of a log that grows by a record.                             *)
(***************************************************************************)
LEMMA GreatestOf ==
    ASSUME NEW n \in Nat, NEW S \in SUBSET (1..n), S # {}
    PROVE  Max(S) \in S /\ \A x \in S : Max(S) >= x
<1>. DEFINE T == {m \in Nat : n - m \in S}
<1>1. T \subseteq Nat /\ T # {}
  <2>1. PICK x \in S : TRUE
    OBVIOUS
  <2>2. n - x \in Nat /\ n - (n - x) = x
    BY <2>1
  <2>3. n - x \in T
    BY <2>1, <2>2
  <2>. QED
    BY <2>3
<1>2. PICK m \in T : \A l \in T : ~(<<l, m>> \in OpToRel(<, Nat))
  <2>. HIDE DEF T
  <2>. QED
    BY <1>1, WFMin, NatLessThanWellFounded
<1>3. n - m \in S /\ m \in Nat
  OBVIOUS
<1>4. ASSUME NEW x \in S PROVE n - m >= x
  <2>1. SUFFICES ASSUME n - m < x PROVE FALSE
    BY <1>3
  <2>2. n - x \in Nat /\ n - x < m /\ n - (n - x) = x
    BY <1>3, <2>1
  <2>3. n - x \in T
    BY <2>2
  <2>4. <<n - x, m>> \in OpToRel(<, Nat)
    BY <1>3, <2>2 DEF OpToRel
  <2>. QED
    BY <1>2, <2>3, <2>4
<1>5. \E x \in S : \A y \in S : x >= y
  BY <1>3, <1>4
<1>. QED
  BY <1>5 DEF Max

\* The records of a key.
At(records, k) == {i \in DOMAIN records : records[i].key = <<k>>}

LEMMA ReplayAt ==
    \A records : \A k \in Keys :
      Replay(records)[k] = IF At(records, k) = {} THEN Nil
                           ELSE records[Max(At(records, k))].val
BY DEF Replay, At

LEMMA ReplayOfAppended ==
    ASSUME NEW rs \in Seq(Record), NEW k \in Keys, NEW v \in File
    PROVE  Replay(rs \o <<[key |-> <<k>>, val |-> v]>>)
             = [Replay(rs) EXCEPT ![k] = v]
<1>. DEFINE e == [key |-> <<k>>, val |-> v]
            E == <<e>>
            n == Len(rs)
            t == rs \o E
<1>1. e \in Record
  <2>1. <<k>> \in File
    <3>1. k \in Nat
      BY LsmAssumption
    <3>. QED
      BY <3>1 DEF File
  <2>. QED
    BY <2>1 DEF Record
<1>2. e.key = <<k>> /\ e.val = v
  OBVIOUS
<1>. HIDE DEF e
<1>3. E \in Seq(Record) /\ Len(E) = 1 /\ E[1] = e
  BY <1>1
<1>. HIDE DEF E
<1>4. /\ n \in Nat /\ DOMAIN rs = 1..n /\ Len(t) = n + 1 /\ DOMAIN t = 1..(n + 1)
      /\ \A i \in 1..n : t[i] = rs[i]
      /\ t[n + 1] = e
  BY <1>3, ConcatProperties
<1>. HIDE DEF t, n
<1>5. ASSUME NEW j \in Keys
      PROVE  Replay(t)[j] = IF j = k THEN v ELSE Replay(rs)[j]
  <2>1. CASE j = k
    <3>1. n + 1 \in At(t, k) /\ At(t, k) \in SUBSET (1..(n + 1))
      BY <1>2, <1>4 DEF At
    <3>2. /\ Max(At(t, k)) \in At(t, k)
          /\ \A x \in At(t, k) : Max(At(t, k)) >= x
      BY <1>4, <3>1, GreatestOf
    <3>3. Max(At(t, k)) = n + 1
      BY <1>4, <3>1, <3>2
    <3>. QED
      BY <1>2, <1>4, <2>1, <3>1, <3>3, ReplayAt
  <2>2. CASE j # k
    <3>1. <<j>> # <<k>>
      BY <2>2
    <3>2. At(t, j) = At(rs, j) /\ At(rs, j) \in SUBSET (1..n)
      BY <1>2, <1>4, <3>1 DEF At
    <3>3. CASE At(rs, j) = {}
      BY <2>2, <3>2, <3>3, ReplayAt
    <3>4. CASE At(rs, j) # {}
      <4>1. Max(At(rs, j)) \in 1..n
        BY <1>4, <3>2, <3>4, GreatestOf
      <4>. QED
        BY <1>4, <2>2, <3>2, <3>4, <4>1, ReplayAt
    <3>. QED
      BY <3>3, <3>4
  <2>. QED
    BY <2>1, <2>2
<1>6. /\ Replay(t) = [j \in Keys |-> Replay(t)[j]]
      /\ Replay(rs) = [j \in Keys |-> Replay(rs)[j]]
  BY DEF Replay
<1>7. Replay(t) = [Replay(rs) EXCEPT ![k] = v]
  BY <1>5, <1>6
<1>. QED
  BY <1>7 DEF t, E, e

LEMMA ReplayOfNothing == Replay(<<>>) = NoEntries
<1>1. \A k \in Keys : At(<<>>, k) = {}
  BY DEF At
<1>2. \A k \in Keys : Replay(<<>>)[k] = Nil
  BY <1>1, ReplayAt
<1>3. Replay(<<>>) = [k \in Keys |-> Replay(<<>>)[k]]
  BY DEF Replay
<1>. QED
  BY <1>2, <1>3 DEF NoEntries

LEMMA LeastOf ==
    ASSUME NEW S \in SUBSET Nat, S # {}
    PROVE  Min(S) \in S
<1>1. PICK m \in S : \A l \in S : ~(<<l, m>> \in OpToRel(<, Nat))
  BY WFMin, NatLessThanWellFounded
<1>2. ASSUME NEW x \in S PROVE m <= x
  <2>1. SUFFICES ASSUME x < m PROVE FALSE
    OBVIOUS
  <2>2. <<x, m>> \in OpToRel(<, Nat)
    BY <2>1 DEF OpToRel
  <2>. QED
    BY <1>1, <2>2
<1>3. \E x \in S : \A y \in S : x <= y
  BY <1>2
<1>. QED
  BY <1>3 DEF Min
-----------------------------------------------------------------------------
(***************************************************************************)
(* The invariant.                                                          *)
(***************************************************************************)
\* What the memtable and a flush may hold of a key.
MemEntry == File \cup {Nil}

MemType ==
    /\ mem \in [Keys -> MemEntry]
    /\ held \in [Clients -> [Keys -> MemEntry]]
    /\ todo \in [Clients -> SUBSET Keys]

\* A client writing the memtable has the put or delete it logged as its call;
\* the overwrite of LearnedMemtable has stored the new value before it removes
\* the key.
Writing(p) ==
    /\ pc[p] \in {"insert", "remove", "again"} => call[p].op \in {"put", "delete"}
    /\ pc[p] = "remove" => mem[Key(p)] = Stored(p)

\* What a flush has drained so far, and what it has left in the memtable.
Flushing(p) ==
    /\ todo[p] # {}
    /\ pc[p] \notin {"drain", "clear"} => todo[p] = Keys
    /\ pc[p] = "drain" /\ ~Skiplist => todo[p] = Keys
    /\ pc[p] = "drain" => \A k \in Keys \ todo[p] : held[p][k] = mem[k]
    /\ pc[p] = "clear" =>
         \A k \in Keys : mem[k] = IF k \in todo[p] THEN held[p][k] ELSE Nil
    /\ pc[p] \in {"zero", "lock", "table", "truncate"} => mem = NoEntries

\* What the log replays to at each point of a call: an entry is logged before
\* it is in the memtable, and stays logged until its table is registered.
Logged(p) ==
    /\ pc[p] \in {"insert", "again"} => Replayed = WithEntry(p)
    /\ pc[p] \in {"clear", "zero", "lock", "table"} => Replayed = held[p]
    /\ pc[p] \notin {"insert", "again", "clear", "zero", "lock", "table",
                     "truncate"} => Replayed = mem

ReplayInv ==
    MemType /\ \A p \in Clients : Writing(p) /\ Flushing(p) /\ (torn \/ Logged(p))

LEMMA ReplayType == \A b \in File : Replay(recover(b).records) \in [Keys -> MemEntry]
<1>1. ASSUME NEW b \in File
      PROVE  Replay(recover(b).records) \in [Keys -> MemEntry]
  <2>. DEFINE rs == recover(b).records
  <2>1. rs \in Seq(Record)
    BY RecordsType
  <2>. HIDE DEF rs
  <2>2. ASSUME NEW k \in Keys PROVE Replay(rs)[k] \in MemEntry
    <3>1. CASE At(rs, k) = {}
      BY <3>1, ReplayAt DEF MemEntry
    <3>2. CASE At(rs, k) # {}
      <4>1. Len(rs) \in Nat /\ At(rs, k) \in SUBSET (1..Len(rs))
        BY <2>1 DEF At
      <4>2. Max(At(rs, k)) \in 1..Len(rs)
        BY <3>2, <4>1, GreatestOf
      <4>3. rs[Max(At(rs, k))] \in Record
        BY <2>1, <4>2
      <4>4. rs[Max(At(rs, k))].val \in File
        BY <4>3 DEF Record
      <4>. QED
        BY <3>2, <4>4, ReplayAt DEF MemEntry
    <3>. QED
      BY <3>1, <3>2
  <2>3. Replay(rs) = [k \in Keys |-> Replay(rs)[k]]
    BY DEF Replay
  <2>4. Replay(rs) \in [Keys -> MemEntry]
    BY <2>2, <2>3
  <2>. QED
    BY <2>4 DEF rs
<1>. QED
  BY <1>1

\* The entry a put or delete is about.
LEMMA EntryType ==
    ASSUME NEW p \in Clients, LogInv, call[p].op \in {"put", "delete"}
    PROVE  Key(p) \in Keys /\ Stored(p) \in MemEntry
<1>1. LogType
  BY DEF LogInv
<1>2. /\ Key(p) \in Keys
      /\ [key |-> <<Key(p)>>, val |-> Stored(p)] \in Record
  BY <1>1, AppendedRecord
<1>3. Stored(p) \in File
  BY <1>2 DEF Record
<1>. QED
  BY <1>2, <1>3 DEF MemEntry
-----------------------------------------------------------------------------
(***************************************************************************)
(* The steps of the only client.                                           *)
(***************************************************************************)
\* Steps between the points where the log and the memtable agree.
Agreeing == {"idle", "count", "maybe_flush", "compact", "ingest", "get",
             "tables", "return"}

LEMMA QuietKeepsReplay ==
    ASSUME NEW p \in Clients, Clients = {p}, LogInv, ReplayInv,
           UNCHANGED <<mem, log, drained, backend>>, pc[p] \in Agreeing,
           NEW l \in Agreeing \cup {"log", "drain"}, pc' = [pc EXCEPT ![p] = l]
    PROVE  ReplayInv'
<1>1. /\ UNCHANGED <<mem, wal, buf, torn, held, todo, backend>>
      /\ pc'[p] = l
  BY DEF log, drained, LogInv, LogType
<1>2. todo[p] = Keys /\ (torn \/ Replayed = mem)
  BY DEF ReplayInv, Flushing, Logged, Agreeing
<1>3. MemType'
  BY <1>1 DEF ReplayInv, MemType
<1>4. Writing(p)'
  BY <1>1 DEF Writing, Agreeing
<1>5. Flushing(p)'
  BY <1>1, <1>2 DEF ReplayInv, Flushing, Agreeing
<1>6. torn' \/ Logged(p)'
  <2>1. Replayed' = Replayed
    BY <1>1 DEF Replayed
  <2>. QED
    BY <1>1, <1>2, <2>1 DEF Logged, Agreeing
<1>. QED
  BY <1>3, <1>4, <1>5, <1>6 DEF ReplayInv

LEMMA AppendKeepsReplay ==
    ASSUME NEW p \in Clients, Clients = {p}, LogInv, ReplayInv, AppendLog(p)
    PROVE  ReplayInv'
<1>. DEFINE y == IF call[p].op = "put" THEN append_put(<<Key(p)>>, Val(p))
                                       ELSE append_delete(<<Key(p)>>)
            e == [key |-> <<Key(p)>>, val |-> Stored(p)]
            rs == recover(wal \o buf).records
<1>1. /\ pc[p] = "log" /\ buf' = buf \o y
      /\ UNCHANGED <<wal, torn, mem, held, todo, call, ops, backend>>
      /\ pc' = [pc EXCEPT ![p] = "insert"]
  BY DEF AppendLog, Goto, log, client, drained
<1>2. pc'[p] = "insert"
  BY <1>1 DEF LogInv, LogType
<1>3. call[p].op \in {"put", "delete"} /\ LogType
  BY <1>1 DEF LogInv, Appending
<1>4. Key(p) \in Keys
  BY <1>3, AppendedRecord
<1>5. y \in File /\ e \in Record /\ Recovered(y, e)
  BY <1>3, AppendedRecord
<1>6. todo[p] = Keys /\ (torn \/ Replayed = mem)
  BY <1>1 DEF ReplayInv, Flushing, Logged
<1>7. MemType'
  BY <1>1 DEF ReplayInv, MemType
<1>8. Writing(p)'
  BY <1>1, <1>2, <1>3 DEF Writing
<1>9. Flushing(p)'
  BY <1>1, <1>2, <1>6 DEF ReplayInv, Flushing
<1>10. ASSUME ~torn PROVE Logged(p)'
  <2>. DEFINE x == wal \o buf
  <2>1. wal \in File /\ buf \in File
    BY <1>3 DEF LogType
  <2>2. x \in File /\ Len(wal) \in Nat
    BY <2>1, Concatenation
  <2>3. Clean(x)
    BY <1>10 DEF LogInv, WholeRecords
  <2>4. Cuts(x, Len(wal))
    BY <1>3, <1>10, CutsOfLog DEF LogInv
  <2>. HIDE DEF x, y, e
  <2>5. recover(x \o y).records = recover(x).records \o <<e>>
    BY <1>5, <2>2, <2>3, <2>4, AppendKeepsCuts
  <2>6. x \o y = wal' \o buf'
    <3>1. (wal \o buf) \o y = wal \o (buf \o y)
      BY <1>5, <2>1, Association
    <3>. QED
      BY <1>1, <3>1 DEF x
  <2>7. rs \in Seq(Record)
    BY <2>2, RecordsType DEF x
  <2>8. Stored(p) \in File
    BY <1>5 DEF Record, e
  <2>. HIDE DEF rs
  <2>9. Replay(rs \o <<e>>) = [Replay(rs) EXCEPT ![Key(p)] = Stored(p)]
    BY <1>4, <2>7, <2>8, ReplayOfAppended DEF e
  <2>10. Replayed' = Replay(rs \o <<e>>)
    <3>1. recover(wal' \o buf').records = rs \o <<e>>
      BY <2>5, <2>6 DEF rs, x
    <3>. QED
      BY <3>1 DEF Replayed
  <2>11. Replay(rs) = mem
    BY <1>6, <1>10 DEF Replayed, rs
  <2>12. WithEntry(p)' = [mem EXCEPT ![Key(p)] = Stored(p)]
    BY <1>1 DEF WithEntry, Key, Stored, Val
  <2>13. Replayed' = WithEntry(p)'
    BY <2>9, <2>10, <2>11, <2>12
  <2>. QED
    BY <1>2, <2>13 DEF Logged
<1>. QED
  BY <1>1, <1>7, <1>8, <1>9, <1>10 DEF ReplayInv

LEMMA InsertKeepsReplay ==
    ASSUME NEW p \in Clients, Clients = {p}, LogInv, ReplayInv, MemInsert(p)
    PROVE  ReplayInv'
<1>1. /\ pc[p] = "insert" /\ mem' = [mem EXCEPT ![Key(p)] = Stored(p)]
      /\ UNCHANGED <<wal, buf, torn, held, todo, call, ops, backend>>
  BY DEF MemInsert, log, client, drained
<1>2. pc'[p] \in {"remove", "count"}
  BY DEF MemInsert, Goto, LogInv, LogType
<1>3. call[p].op \in {"put", "delete"} /\ todo[p] = Keys
      /\ (torn \/ Replayed = WithEntry(p))
  BY <1>1 DEF ReplayInv, Writing, Flushing, Logged
<1>4. Key(p) \in Keys /\ Stored(p) \in MemEntry
  BY <1>3, EntryType
<1>5. MemType'
  BY <1>1, <1>4 DEF ReplayInv, MemType
<1>6. Writing(p)'
  <2>1. mem'[Key(p)] = Stored(p)
    BY <1>1, <1>4 DEF ReplayInv, MemType
  <2>2. Key(p)' = Key(p) /\ Stored(p)' = Stored(p)
    BY <1>1 DEF Key, Stored, Val
  <2>. QED
    BY <1>1, <1>2, <1>3, <2>1, <2>2 DEF Writing
<1>7. Flushing(p)'
  BY <1>1, <1>2, <1>3 DEF ReplayInv, Flushing
<1>8. torn' \/ Logged(p)'
  <2>1. Replayed' = Replayed
    BY <1>1 DEF Replayed
  <2>2. WithEntry(p) = mem'
    BY <1>1 DEF WithEntry
  <2>. QED
    BY <1>1, <1>2, <1>3, <2>1, <2>2 DEF Logged
<1>. QED
  BY <1>5, <1>6, <1>7, <1>8 DEF ReplayInv

LEMMA RemoveKeepsReplay ==
    ASSUME NEW p \in Clients, Clients = {p}, LogInv, ReplayInv, MemRemove(p)
    PROVE  ReplayInv'
<1>1. /\ pc[p] = "remove" /\ mem' = [mem EXCEPT ![Key(p)] = Nil]
      /\ UNCHANGED <<wal, buf, torn, held, todo, call, ops, backend>>
  BY DEF MemRemove, log, client, drained
<1>2. pc'[p] = "again"
  BY DEF MemRemove, Goto, LogInv, LogType
<1>3. /\ call[p].op \in {"put", "delete"} /\ mem[Key(p)] = Stored(p)
      /\ todo[p] = Keys /\ (torn \/ Replayed = mem)
  BY <1>1 DEF ReplayInv, Writing, Flushing, Logged
<1>4. Key(p) \in Keys
  BY <1>3, EntryType
<1>5. MemType'
  BY <1>1, <1>4 DEF ReplayInv, MemType, MemEntry
<1>6. Writing(p)'
  BY <1>1, <1>2, <1>3 DEF Writing
<1>7. Flushing(p)'
  BY <1>1, <1>2, <1>3 DEF ReplayInv, Flushing
<1>8. torn' \/ Logged(p)'
  <2>1. Replayed' = Replayed
    BY <1>1 DEF Replayed
  <2>2. WithEntry(p)' = [mem' EXCEPT ![Key(p)] = Stored(p)]
    BY <1>1 DEF WithEntry, Key, Stored, Val
  <2>3. [mem' EXCEPT ![Key(p)] = Stored(p)] = mem
    BY <1>1, <1>3, <1>4 DEF ReplayInv, MemType
  <2>. QED
    BY <1>1, <1>2, <1>3, <2>1, <2>2, <2>3 DEF Logged
<1>. QED
  BY <1>5, <1>6, <1>7, <1>8 DEF ReplayInv

LEMMA AgainKeepsReplay ==
    ASSUME NEW p \in Clients, Clients = {p}, LogInv, ReplayInv, MemInsertAgain(p)
    PROVE  ReplayInv'
<1>1. /\ pc[p] = "again" /\ mem' = [mem EXCEPT ![Key(p)] = Stored(p)]
      /\ UNCHANGED <<wal, buf, torn, held, todo, backend>>
  BY DEF MemInsertAgain, NewEntry, log, drained
<1>2. pc'[p] \in {"maybe_flush", "return"}
  BY DEF MemInsertAgain, Inserted, Goto, LogInv, LogType
<1>3. call[p].op \in {"put", "delete"} /\ todo[p] = Keys
      /\ (torn \/ Replayed = WithEntry(p))
  BY <1>1 DEF ReplayInv, Writing, Flushing, Logged
<1>4. Key(p) \in Keys /\ Stored(p) \in MemEntry
  BY <1>3, EntryType
<1>5. MemType'
  BY <1>1, <1>4 DEF ReplayInv, MemType
<1>6. Writing(p)'
  BY <1>2 DEF Writing
<1>7. Flushing(p)'
  BY <1>1, <1>2, <1>3 DEF ReplayInv, Flushing
<1>8. torn' \/ Logged(p)'
  <2>1. Replayed' = Replayed
    BY <1>1 DEF Replayed
  <2>2. WithEntry(p) = mem'
    BY <1>1 DEF WithEntry
  <2>. QED
    BY <1>1, <1>2, <1>3, <2>1, <2>2 DEF Logged
<1>. QED
  BY <1>5, <1>6, <1>7, <1>8 DEF ReplayInv

\* drain_sorted of the learned map and of the B-tree.
LEMMA DrainKeepsReplay ==
    ASSUME NEW p \in Clients, Clients = {p}, LogInv, ReplayInv, Drain(p)
    PROVE  ReplayInv'
<1>1. /\ pc[p] = "drain" /\ ~Skiplist
      /\ held' = [held EXCEPT ![p] = mem] /\ mem' = NoEntries
      /\ UNCHANGED <<wal, buf, torn, todo, backend>>
  BY DEF Drain, log
<1>2. \/ pc'[p] \in {"zero", "lock"}
      \/ pc'[p] = "return" /\ mem = NoEntries
  BY DEF Drain, Goto, LogInv, LogType
<1>3. todo[p] = Keys /\ (torn \/ Replayed = mem)
  BY <1>1 DEF ReplayInv, Flushing, Logged
<1>4. held'[p] = mem
  BY <1>1 DEF ReplayInv, MemType
<1>5. MemType'
  <2>1. NoEntries \in [Keys -> MemEntry]
    BY DEF NoEntries, MemEntry
  <2>. QED
    BY <1>1, <2>1 DEF ReplayInv, MemType
<1>6. Writing(p)'
  BY <1>2 DEF Writing
<1>7. Flushing(p)'
  <2>1. pc'[p] \notin {"drain", "clear"}
    BY <1>2
  <2>2. todo'[p] = Keys /\ Keys # {}
    BY <1>1, <1>3, LsmAssumption
  <2>. QED
    BY <1>1, <2>1, <2>2 DEF Flushing
<1>8. torn' \/ Logged(p)'
  <2>1. Replayed' = Replayed
    BY <1>1 DEF Replayed
  <2>. QED
    BY <1>1, <1>2, <1>3, <1>4, <2>1 DEF Logged
<1>. QED
  BY <1>5, <1>6, <1>7, <1>8 DEF ReplayInv

\* A pass of the skip list's drain.
LEMMA VisitRest ==
    ASSUME NEW p \in Clients, NEW l \in Labels, LogInv, ReplayInv, Visit(p, l)
    PROVE  LET k    == Min(todo[p])
               rest == todo[p] \ {k}
           IN  /\ k \in todo[p] /\ k \in Keys
               /\ todo' = [todo EXCEPT ![p] = IF rest = {} THEN Keys ELSE rest]
               /\ todo'[p] = IF rest = {} THEN Keys ELSE rest
               /\ todo'[p] # {}
               /\ pc'[p] = IF rest = {} THEN l ELSE pc[p]
<1>. DEFINE k == Min(todo[p])
            rest == todo[p] \ {k}
<1>1. todo[p] \in SUBSET Keys /\ todo[p] # {}
  BY DEF ReplayInv, MemType, Flushing
<1>2. todo[p] \in SUBSET Nat
  <2>1. \A j \in Keys : j \in Nat
    BY LsmAssumption
  <2>. QED
    BY <1>1, <2>1
<1>3. k \in todo[p]
  BY <1>1, <1>2, LeastOf
<1>. HIDE DEF k
<1>4. /\ todo' = [todo EXCEPT ![p] = IF rest = {} THEN Keys ELSE rest]
      /\ pc' = [pc EXCEPT ![p] = IF rest = {} THEN l ELSE pc[p]]
  BY DEF Visit, Goto, k
<1>. HIDE DEF rest
<1>5. todo'[p] = IF rest = {} THEN Keys ELSE rest
  BY <1>4 DEF ReplayInv, MemType
<1>6. pc'[p] = IF rest = {} THEN l ELSE pc[p]
  BY <1>4 DEF LogInv, LogType
<1>7. todo'[p] # {}
  BY <1>5, LsmAssumption
<1>. QED
  BY <1>1, <1>3, <1>4, <1>5, <1>6, <1>7 DEF k, rest

LEMMA CollectKeepsReplay ==
    ASSUME NEW p \in Clients, Clients = {p}, LogInv, ReplayInv, CollectEntry(p)
    PROVE  ReplayInv'
<1>. DEFINE k == Min(todo[p])
            rest == todo[p] \ {k}
<1>1. /\ pc[p] = "drain" /\ Skiplist
      /\ held' = [held EXCEPT ![p][k] = mem[k]]
      /\ UNCHANGED <<wal, buf, torn, mem, backend>>
      /\ Visit(p, "clear")
  BY DEF CollectEntry, log
<1>2. /\ k \in todo[p] /\ k \in Keys
      /\ todo' = [todo EXCEPT ![p] = IF rest = {} THEN Keys ELSE rest]
      /\ todo'[p] = IF rest = {} THEN Keys ELSE rest
      /\ todo'[p] # {}
      /\ pc'[p] = IF rest = {} THEN "clear" ELSE "drain"
  BY <1>1, VisitRest DEF Labels
<1>. HIDE DEF k
<1>3. \A j \in Keys \ todo[p] : held[p][j] = mem[j]
  BY <1>1 DEF ReplayInv, Flushing
<1>4. torn \/ Replayed = mem
  BY <1>1 DEF ReplayInv, Logged
<1>5. MemType'
  <2>1. mem[k] \in MemEntry
    BY <1>2 DEF ReplayInv, MemType
  <2>2. held' \in [Clients -> [Keys -> MemEntry]]
    BY <1>1, <1>2, <2>1 DEF ReplayInv, MemType
  <2>3. todo' \in [Clients -> SUBSET Keys]
    BY <1>2 DEF ReplayInv, MemType
  <2>. QED
    BY <1>1, <2>2, <2>3 DEF ReplayInv, MemType
<1>6. \A j \in Keys \ rest : held'[p][j] = mem'[j]
  <2>1. held'[p] = [held[p] EXCEPT ![k] = mem[k]]
    BY <1>1 DEF ReplayInv, MemType
  <2>2. held[p] \in [Keys -> MemEntry]
    BY DEF ReplayInv, MemType
  <2>. QED
    BY <1>1, <1>2, <1>3, <2>1, <2>2
<1>7. Writing(p)'
  BY <1>2 DEF Writing
<1>8. Flushing(p)'
  BY <1>1, <1>2, <1>6 DEF Flushing, Skiplist
<1>9. torn' \/ Logged(p)'
  <2>1. Replayed' = Replayed
    BY <1>1 DEF Replayed
  <2>2. CASE rest = {}
    <3>1. held'[p] = mem
      <4>1. held'[p] \in [Keys -> MemEntry] /\ mem \in [Keys -> MemEntry]
        BY <1>5 DEF ReplayInv, MemType
      <4>2. \A j \in Keys : held'[p][j] = mem[j]
        BY <1>1, <1>6, <2>2
      <4>. QED
        BY <4>1, <4>2
    <3>. QED
      BY <1>1, <1>2, <1>4, <2>1, <2>2, <3>1 DEF Logged
  <2>3. CASE rest # {}
    BY <1>1, <1>2, <1>4, <2>1, <2>3 DEF Logged
  <2>. QED
    BY <2>2, <2>3
<1>. QED
  BY <1>5, <1>7, <1>8, <1>9 DEF ReplayInv

LEMMA ClearKeepsReplay ==
    ASSUME NEW p \in Clients, Clients = {p}, LogInv, ReplayInv, ClearEntry(p)
    PROVE  ReplayInv'
<1>. DEFINE k == Min(todo[p])
            rest == todo[p] \ {k}
<1>1. /\ pc[p] = "clear"
      /\ mem' = [mem EXCEPT ![k] = IF held[p][k] # Nil THEN Nil ELSE mem[k]]
      /\ UNCHANGED <<wal, buf, torn, held, backend>>
      /\ Visit(p, "zero")
  BY DEF ClearEntry, log
<1>2. /\ k \in todo[p] /\ k \in Keys
      /\ todo' = [todo EXCEPT ![p] = IF rest = {} THEN Keys ELSE rest]
      /\ todo'[p] = IF rest = {} THEN Keys ELSE rest
      /\ todo'[p] # {}
      /\ pc'[p] = IF rest = {} THEN "zero" ELSE "clear"
  BY <1>1, VisitRest DEF Labels
<1>. HIDE DEF k
<1>3. \A j \in Keys : mem[j] = IF j \in todo[p] THEN held[p][j] ELSE Nil
  BY <1>1 DEF ReplayInv, Flushing
<1>4. torn \/ Replayed = held[p]
  BY <1>1 DEF ReplayInv, Logged
<1>5. mem' = [mem EXCEPT ![k] = Nil]
  BY <1>1, <1>2, <1>3
<1>6. MemType'
  <2>1. mem' \in [Keys -> MemEntry]
    BY <1>5 DEF ReplayInv, MemType, MemEntry
  <2>2. todo' \in [Clients -> SUBSET Keys]
    BY <1>2 DEF ReplayInv, MemType
  <2>. QED
    BY <1>1, <2>1, <2>2 DEF ReplayInv, MemType
<1>7. \A j \in Keys : mem'[j] = IF j \in rest THEN held[p][j] ELSE Nil
  BY <1>2, <1>3, <1>5 DEF ReplayInv, MemType
<1>8. Writing(p)'
  BY <1>2 DEF Writing
<1>9. Flushing(p)'
  <2>1. CASE rest = {}
    <3>1. mem' = NoEntries
      BY <1>6, <1>7, <2>1 DEF MemType, NoEntries
    <3>. QED
      BY <1>2, <2>1, <3>1 DEF Flushing
  <2>2. CASE rest # {}
    BY <1>1, <1>2, <1>7, <2>2 DEF Flushing
  <2>. QED
    BY <2>1, <2>2
<1>10. torn' \/ Logged(p)'
  <2>1. Replayed' = Replayed
    BY <1>1 DEF Replayed
  <2>. QED
    BY <1>1, <1>2, <1>4, <2>1 DEF Logged
<1>. QED
  BY <1>6, <1>8, <1>9, <1>10 DEF ReplayInv

LEMMA ZeroKeepsReplay ==
    ASSUME NEW p \in Clients, Clients = {p}, LogInv, ReplayInv, ZeroBytes(p)
    PROVE  ReplayInv'
<1>1. /\ pc[p] = "zero" /\ UNCHANGED <<wal, buf, torn, mem, held, todo, backend>>
  BY DEF ZeroBytes, log, drained
<1>2. \/ pc'[p] = "lock"
      \/ pc'[p] = "return" /\ held[p] = NoEntries
  BY DEF ZeroBytes, Goto, LogInv, LogType
<1>3. todo[p] = Keys /\ mem = NoEntries /\ (torn \/ Replayed = held[p])
  BY <1>1 DEF ReplayInv, Flushing, Logged
<1>4. Replayed' = Replayed
  BY <1>1 DEF Replayed
<1>5. MemType'
  BY <1>1 DEF ReplayInv, MemType
<1>6. Writing(p)'
  BY <1>2 DEF Writing
<1>7. Flushing(p)'
  <2>1. pc'[p] \notin {"drain", "clear"}
    BY <1>2
  <2>2. todo'[p] = Keys /\ Keys # {}
    BY <1>1, <1>3, LsmAssumption
  <2>. QED
    BY <1>1, <1>3, <2>1, <2>2 DEF Flushing, NoEntries
<1>8. torn' \/ Logged(p)'
  BY <1>1, <1>2, <1>3, <1>4 DEF Logged
<1>. QED
  BY <1>5, <1>6, <1>7, <1>8 DEF ReplayInv

LEMMA LockKeepsReplay ==
    ASSUME NEW p \in Clients, Clients = {p}, LogInv, ReplayInv, LockManifest(p)
    PROVE  ReplayInv'
<1>1. /\ pc[p] = "lock" /\ UNCHANGED <<wal, buf, torn, mem, held, todo, backend>>
  BY DEF LockManifest, log, drained
<1>2. pc'[p] = "table"
  BY DEF LockManifest, Goto, LogInv, LogType
<1>3. todo[p] = Keys /\ mem = NoEntries /\ (torn \/ Replayed = held[p])
  BY <1>1 DEF ReplayInv, Flushing, Logged
<1>4. Replayed' = Replayed
  BY <1>1 DEF Replayed
<1>5. MemType'
  BY <1>1 DEF ReplayInv, MemType
<1>6. Writing(p)'
  BY <1>2 DEF Writing
<1>7. Flushing(p)'
  <2>1. todo'[p] = Keys /\ Keys # {}
    BY <1>1, <1>3, LsmAssumption
  <2>. QED
    BY <1>1, <1>2, <1>3, <2>1 DEF Flushing, NoEntries
<1>8. torn' \/ Logged(p)'
  BY <1>1, <1>2, <1>3, <1>4 DEF Logged
<1>. QED
  BY <1>5, <1>6, <1>7, <1>8 DEF ReplayInv

LEMMA AddTableKeepsReplay ==
    ASSUME NEW p \in Clients, Clients = {p}, LogInv, ReplayInv, AddTable(p)
    PROVE  ReplayInv'
<1>1. /\ pc[p] = "table" /\ UNCHANGED <<wal, buf, torn, mem, todo, backend>>
      /\ held' = [held EXCEPT ![p] = NoEntries]
  BY DEF AddTable, log
<1>2. pc'[p] = "truncate"
  BY DEF AddTable, Goto, LogInv, LogType
<1>3. todo[p] = Keys /\ mem = NoEntries
  BY <1>1 DEF ReplayInv, Flushing
<1>4. MemType'
  <2>1. NoEntries \in [Keys -> MemEntry]
    BY DEF NoEntries, MemEntry
  <2>. QED
    BY <1>1, <2>1 DEF ReplayInv, MemType
<1>5. Writing(p)'
  BY <1>2 DEF Writing
<1>6. Flushing(p)'
  <2>1. todo'[p] = Keys /\ Keys # {}
    BY <1>1, <1>3, LsmAssumption
  <2>. QED
    BY <1>1, <1>2, <1>3, <2>1 DEF Flushing, NoEntries
<1>7. torn' \/ Logged(p)'
  BY <1>2 DEF Logged
<1>. QED
  BY <1>4, <1>5, <1>6, <1>7 DEF ReplayInv

LEMMA TruncateKeepsReplay ==
    ASSUME NEW p \in Clients, Clients = {p}, LogInv, ReplayInv, TruncateLog(p)
    PROVE  ReplayInv'
<1>1. /\ pc[p] = "truncate" /\ UNCHANGED <<mem, held, todo, backend>>
      /\ wal' = <<>> /\ buf' = <<>>
  BY DEF TruncateLog, EmptyLog, drained
<1>2. pc'[p] = "compact"
  BY DEF TruncateLog, Goto, LogInv, LogType
<1>3. todo[p] = Keys /\ mem = NoEntries
  BY <1>1 DEF ReplayInv, Flushing
<1>4. MemType'
  BY <1>1 DEF ReplayInv, MemType
<1>5. Writing(p)'
  BY <1>2 DEF Writing
<1>6. Flushing(p)'
  <2>1. todo'[p] = Keys /\ Keys # {}
    BY <1>1, <1>3, LsmAssumption
  <2>. QED
    BY <1>2, <2>1 DEF Flushing
<1>7. Logged(p)'
  <2>1. <<>> \o <<>> = <<>>
    BY ConcatEmptySeq
  <2>2. recover(wal' \o buf').records = <<>>
    BY <1>1, <2>1, EmptyLogClean
  <2>3. Replayed' = NoEntries
    BY <2>2, ReplayOfNothing DEF Replayed
  <2>. QED
    BY <1>1, <1>2, <1>3, <2>3 DEF Logged
<1>. QED
  BY <1>4, <1>5, <1>6, <1>7 DEF ReplayInv

\* LsmEngine::open fills the memtable from the log.
LEMMA OpenKeepsReplay ==
    ASSUME LogInv, ReplayInv, NEW file \in File, Open(file)
    PROVE  ReplayInv'
<1>1. /\ wal' = file /\ buf' = <<>>
      /\ mem' = Replay(recover(file).records)
      /\ pc' = [p \in Clients |-> "idle"]
      /\ held' = [p \in Clients |-> NoEntries]
      /\ todo' = [p \in Clients |-> Keys]
  BY DEF Open
<1>2. file \o <<>> = file
  BY ConcatEmptySeq DEF File
<1>3. Replayed' = mem'
  BY <1>1, <1>2 DEF Replayed
<1>4. MemType'
  <2>1. NoEntries \in [Keys -> MemEntry]
    BY DEF NoEntries, MemEntry
  <2>2. mem' \in [Keys -> MemEntry]
    BY <1>1, ReplayType
  <2>. QED
    BY <1>1, <2>1, <2>2 DEF MemType
<1>5. ASSUME NEW p \in Clients
      PROVE  Writing(p)' /\ Flushing(p)' /\ Logged(p)'
  <2>1. pc'[p] = "idle" /\ todo'[p] = Keys /\ Keys # {}
    BY <1>1, LsmAssumption
  <2>. QED
    BY <1>3, <2>1 DEF Writing, Flushing, Logged
<1>. QED
  BY <1>4, <1>5 DEF ReplayInv

LEMMA InitReplay == Init => ReplayInv
<1>. SUFFICES ASSUME Init PROVE ReplayInv
  OBVIOUS
<1>1. /\ wal = <<>> /\ buf = <<>> /\ mem = NoEntries
      /\ pc = [p \in Clients |-> "idle"]
      /\ held = [p \in Clients |-> NoEntries]
      /\ todo = [p \in Clients |-> Keys]
  BY DEF Init
<1>2. <<>> \o <<>> = <<>>
  BY ConcatEmptySeq
<1>3. recover(wal \o buf).records = <<>>
  BY <1>1, <1>2, EmptyLogClean
<1>4. Replayed = mem
  BY <1>1, <1>3, ReplayOfNothing DEF Replayed
<1>5. NoEntries \in [Keys -> MemEntry]
  BY DEF NoEntries, MemEntry
<1>6. MemType
  BY <1>1, <1>5 DEF MemType
<1>7. ASSUME NEW p \in Clients
      PROVE  Writing(p) /\ Flushing(p) /\ Logged(p)
  <2>1. pc[p] = "idle" /\ todo[p] = Keys /\ Keys # {}
    BY <1>1, LsmAssumption
  <2>. QED
    BY <1>4, <2>1 DEF Writing, Flushing, Logged
<1>. QED
  BY <1>6, <1>7 DEF ReplayInv

LEMMA StepKeepsReplay ==
    ASSUME NEW p \in Clients, Clients = {p}, LogInv, ReplayInv, Step(p)
    PROVE  ReplayInv'
<1>. DEFINE Quiet ==
       /\ UNCHANGED <<mem, log, drained, backend>>
       /\ pc[p] \in Agreeing
       /\ \E l \in Agreeing \cup {"log", "drain"} : pc' = [pc EXCEPT ![p] = l]
<1>1. ASSUME Quiet PROVE ReplayInv'
  BY <1>1, QuietKeepsReplay
<1>2. CASE Begin(p)
  <2>1. PICK c \in Program[p][ops[p] + 1] :
          Goto(p, CASE c.op \in {"put", "delete"} -> "log"
                    [] c.op = "get"               -> "get"
                    [] c.op = "flush"             -> "drain"
                    [] c.op = "ingest_sorted"     -> "ingest")
    BY <1>2 DEF Begin
  <2>2. c \in Calls
    <3>1. Program[p] \in Seq(SUBSET Calls) /\ ops[p] \in Nat
      BY ProgramAssumption DEF LogInv, LogType
    <3>2. ops[p] < Len(Program[p])
      BY <1>2 DEF Begin
    <3>3. Program[p][ops[p] + 1] \in SUBSET Calls
      BY <3>1, <3>2
    <3>. QED
      BY <3>3
  <2>3. c.op \in {"put", "delete", "get", "flush", "ingest_sorted"}
    BY <2>2 DEF Calls
  <2>4. Quiet
    BY <1>2, <2>1, <2>3 DEF Begin, Goto, Agreeing
  <2>. QED
    BY <1>1, <2>4
<1>3. CASE Return(p)
  BY <1>1, <1>3 DEF Return, Goto, Agreeing
<1>4. CASE AppendLog(p)
  BY <1>4, AppendKeepsReplay
<1>5. CASE MemInsert(p)
  BY <1>5, InsertKeepsReplay
<1>6. CASE CountBytes(p)
  BY <1>1, <1>6 DEF CountBytes, Inserted, Goto, Agreeing
<1>7. CASE MemRemove(p)
  BY <1>7, RemoveKeepsReplay
<1>8. CASE MemInsertAgain(p)
  BY <1>8, AgainKeepsReplay
<1>9. CASE MaybeFlush(p)
  BY <1>1, <1>9 DEF MaybeFlush, Goto, Agreeing
<1>10. CASE Drain(p)
  BY <1>10, DrainKeepsReplay
<1>11. CASE CollectEntry(p)
  BY <1>11, CollectKeepsReplay
<1>12. CASE ClearEntry(p)
  BY <1>12, ClearKeepsReplay
<1>13. CASE ZeroBytes(p)
  BY <1>13, ZeroKeepsReplay
<1>14. CASE LockManifest(p)
  BY <1>14, LockKeepsReplay
<1>15. CASE AddTable(p)
  BY <1>15, AddTableKeepsReplay
<1>16. CASE TruncateLog(p)
  BY <1>16, TruncateKeepsReplay
<1>17. CASE Compact(p)
  BY <1>1, <1>17 DEF Compact, Goto, Agreeing
<1>18. CASE IngestSorted(p)
  BY <1>1, <1>18 DEF IngestSorted, Goto, Agreeing
<1>19. CASE GetMem(p)
  BY <1>1, <1>19 DEF GetMem, Goto, Agreeing
<1>20. CASE GetTables(p)
  BY <1>1, <1>20 DEF GetTables, Goto, Agreeing
<1>. QED
  BY <1>2, <1>3, <1>4, <1>5, <1>6, <1>7, <1>8, <1>9, <1>10, <1>11, <1>12,
     <1>13, <1>14, <1>15, <1>16, <1>17, <1>18, <1>19, <1>20 DEF Step

LEMMA RestartKeepsReplay == LogInv /\ ReplayInv /\ (Crash \/ Close) => ReplayInv'
<1>. SUFFICES ASSUME LogInv, ReplayInv, Crash \/ Close PROVE ReplayInv'
  OBVIOUS
<1>1. wal \in File /\ buf \in File
  BY DEF LogInv, LogType
<1>2. PICK file \in File : Open(file)
  <2>1. CASE Crash
    <3>1. PICK n \in 0..Len(buf) : Open(wal \o SubSeq(buf, 1, n))
      BY <2>1 DEF Crash
    <3>2. SubSeq(buf, 1, n) \in File
      <4>1. \A i \in 1..n : buf[i] \in Nat
        BY <1>1, BytesOfFile
      <4>. QED
        BY <4>1, SubSeqProperties DEF File
    <3>3. wal \o SubSeq(buf, 1, n) \in File
      BY <1>1, <3>2, Concatenation
    <3>. QED
      BY <3>1, <3>3
  <2>2. CASE Close
    BY <1>1, <2>2, Concatenation DEF Close
  <2>. QED
    BY <2>1, <2>2
<1>. QED
  BY <1>2, OpenKeepsReplay

LEMMA StutterKeepsReplay == ReplayInv /\ UNCHANGED vars => ReplayInv'
<1>. SUFFICES ASSUME ReplayInv, UNCHANGED vars PROVE ReplayInv'
  OBVIOUS
<1>1. UNCHANGED <<backend, mem, wal, buf, torn, ops, call, pc, held, todo>>
  BY DEF vars
<1>. QED
  BY <1>1 DEF ReplayInv, MemType, Writing, Flushing, Logged, Replayed,
     WithEntry, Key, Stored, Val, Skiplist

(***************************************************************************)
(* With one client the log always replays to what the memtable holds, or,  *)
(* while a call is under way, to the memtable with the entry the call is   *)
(* about to store, or to the entries a flush has drained from it.          *)
(***************************************************************************)
THEOREM ReplayInvariance ==
    ASSUME NEW CONSTANT c, Clients = {c}
    PROVE  Spec => []ReplayInv
<1>1. Init => ReplayInv
  BY InitReplay
<1>2. LogInv /\ ReplayInv /\ [Next]_vars => ReplayInv'
  <2>. SUFFICES ASSUME LogInv, ReplayInv, [Next]_vars PROVE ReplayInv'
    OBVIOUS
  <2>1. CASE \E p \in Clients : Step(p)
    BY <2>1, StepKeepsReplay
  <2>2. CASE Crash \/ Close
    BY <2>2, RestartKeepsReplay
  <2>3. CASE Rest \/ UNCHANGED vars
    BY <2>3, StutterKeepsReplay DEF Rest
  <2>. QED
    BY <2>1, <2>2, <2>3 DEF Next
<1>. QED
  BY <1>1, <1>2, LogInvariance, PTL DEF Spec

(***************************************************************************)
(* LogMatchesMemtable holds with one client: between its calls, replaying  *)
(* the log as LsmEngine::open does gives exactly the memtable, through     *)
(* overwrites, deletions, flushes, crashes and reopenings, unless the log  *)
(* was opened ending in an incomplete record.                              *)
(***************************************************************************)
THEOREM LogReplaysToMemtable ==
    ASSUME NEW CONSTANT c, Clients = {c}
    PROVE  Spec => []LogMatchesMemtable
<1>1. ReplayInv => LogMatchesMemtable
  <2>. SUFFICES ASSUME ReplayInv, ~torn, Idle
                PROVE  Replay(recover(wal \o buf).records) = mem
    BY DEF LogMatchesMemtable, LogReplays
  <2>1. c \in Clients /\ pc[c] = "idle"
    BY DEF Idle, Active
  <2>2. Logged(c)
    BY <2>1 DEF ReplayInv
  <2>3. Replayed = mem
    BY <2>1, <2>2 DEF Logged
  <2>. QED
    BY <2>3 DEF Replayed
<1>2. Spec => []ReplayInv
  BY ReplayInvariance
<1>. QED
  BY <1>1, <1>2, PTL
=============================================================================
