----------------------------- MODULE LsmProofs -----------------------------
(***************************************************************************)
(* The engine and its log, for any clients, keys, programs and memtables:  *)
(* wherever a crash cuts the log, recovery gives a prefix of the writes.   *)
(***************************************************************************)
EXTENDS Lsm, WalProofs

Labels == {"idle", "log", "insert", "count", "remove", "again", "maybe_flush",
           "drain", "clear", "zero", "lock", "table", "truncate", "compact",
           "ingest", "get", "tables", "return"}
-----------------------------------------------------------------------------
(***************************************************************************)
(* Cutting a log that grows by whole records.                              *)
(***************************************************************************)
\* What recovery gives after a cut at lo or later is a prefix of all there is.
Cuts(file, lo) ==
    \A n \in lo..Len(file) :
      LET r == recover(SubSeq(file, 1, n)) IN
      ~r.corrupt /\ IsPrefix(r.records, recover(file).records)

LEMMA RecordsType ==
    \A b \in File : recover(b).records \in Seq(Record) /\ recover(b).end \in Nat
                    /\ recover(b).end <= Len(b) + 1
<1>1. ASSUME NEW b \in File
      PROVE  recover(b).records \in Seq(Record) /\ recover(b).end \in Nat
             /\ recover(b).end <= Len(b) + 1
  <2>1. Len(b) \in Nat /\ 1 \in Positions(b)
    BY BytesOfFile DEF Positions
  <2>2. recover(b) \in Result /\ recover(b).end \in 1..(Len(b) + 1)
    BY <2>1, RecoverType DEF recover
  <2>. QED
    BY <2>1, <2>2 DEF Result
<1>. QED
  BY <1>1, Zenon

LEMMA PrefixOfConcat ==
    ASSUME NEW T, NEW r \in Seq(T), NEW s \in Seq(T), NEW t \in Seq(T),
           IsPrefix(r, s)
    PROVE  IsPrefix(r, s \o t)
<1>1. /\ Len(r) \in Nat /\ Len(s) \in Nat /\ Len(t) \in Nat
      /\ Len(s \o t) = Len(s) + Len(t)
  BY ConcatProperties
<1>2. Len(r) <= Len(s) /\ SubSeq(r, 1, Len(r)) = SubSeq(s, 1, Len(r))
  BY DEF IsPrefix
<1>3. SubSeq(s \o t, 1, Len(r)) = SubSeq(s, 1, Len(r))
  <2>1. CASE Len(r) = 0
    BY <2>1, SubSeqEmpty
  <2>2. CASE Len(r) # 0
    <3>1. 1 \in 1..Len(s) /\ Len(r) \in 1..Len(s)
      BY <1>1, <1>2, <2>2
    <3>. QED
      BY <3>1, SubSeqOfConcat1
  <2>. QED
    BY <2>1, <2>2
<1>. QED
  BY <1>1, <1>2, <1>3 DEF IsPrefix

LEMMA PrefixOfItself ==
    ASSUME NEW T, NEW s \in Seq(T)
    PROVE  IsPrefix(s, s)
BY DEF IsPrefix

LEMMA CutOfConcat ==
    ASSUME NEW x \in File, NEW y \in File, NEW n \in 0..(Len(x) + Len(y))
    PROVE  /\ n <= Len(x) => SubSeq(x \o y, 1, n) = SubSeq(x, 1, n)
           /\ n > Len(x) =>
                SubSeq(x \o y, 1, n) = x \o SubSeq(y, 1, n - Len(x))
<1>. DEFINE z == x \o y
            s == SubSeq(z, 1, n)
<1>1. /\ z \in File /\ Len(x) \in Nat /\ Len(y) \in Nat
      /\ Len(z) = Len(x) + Len(y)
      /\ \A i \in 1..Len(x) : z[i] = x[i]
      /\ \A i \in 1..Len(y) : z[Len(x) + i] = y[i]
  BY Concatenation, Zenon
<1>2. s \in Seq(Nat) /\ Len(s) = n /\ \A i \in 1..n : s[i] = z[i]
  <2>1. \A i \in 1..n : z[i] \in Nat
    BY <1>1, BytesOfFile
  <2>. HIDE DEF z
  <2>2. /\ s \in Seq(Nat) /\ Len(s) = IF 1 <= n THEN n - 1 + 1 ELSE 0
        /\ \A i \in 1..n - 1 + 1 : s[i] = z[1 + i - 1]
    BY <2>1, SubSeqProperties
  <2>. HIDE DEF s
  <2>. QED
    BY <2>2
<1>3. CASE n <= Len(x)
  <2>. DEFINE t == SubSeq(x, 1, n)
  <2>1. \A i \in 1..n : x[i] \in Nat
    BY <1>1, <1>3, BytesOfFile
  <2>2. /\ t \in Seq(Nat) /\ Len(t) = IF 1 <= n THEN n - 1 + 1 ELSE 0
        /\ \A i \in 1..n - 1 + 1 : t[i] = x[1 + i - 1]
    BY <2>1, SubSeqProperties
  <2>. HIDE DEF s, t, z
  <2>3. Len(t) = Len(s) /\ \A i \in 1..Len(s) : s[i] = t[i]
    BY <1>1, <1>2, <1>3, <2>2
  <2>4. s = t
    BY <1>2, <2>2, <2>3, SeqEqual
  <2>. QED
    BY <1>3, <2>4 DEF s, t, z
<1>4. CASE n > Len(x)
  <2>. DEFINE m == n - Len(x)
              u == SubSeq(y, 1, m)
              t == x \o u
  <2>1. m \in 0..Len(y)
    BY <1>1, <1>4
  <2>. HIDE DEF m
  <2>2. \A i \in 1..m : y[i] \in Nat
    BY <1>1, <2>1, BytesOfFile
  <2>3. /\ u \in Seq(Nat) /\ Len(u) = IF 1 <= m THEN m - 1 + 1 ELSE 0
        /\ \A i \in 1..m - 1 + 1 : u[i] = y[1 + i - 1]
    BY <2>1, <2>2, SubSeqProperties
  <2>. HIDE DEF u
  <2>4. u \in File /\ Len(u) = m /\ \A i \in 1..m : u[i] = y[i]
    BY <2>1, <2>3 DEF File
  <2>5. /\ t \in File /\ Len(t) = Len(x) + m
        /\ \A i \in 1..Len(x) : t[i] = x[i]
        /\ \A i \in 1..m : t[Len(x) + i] = u[i]
    BY <2>4, Concatenation, Zenon
  <2>. HIDE DEF s, t, z
  <2>6. Len(t) = n
    BY <1>1, <2>5 DEF m
  <2>7. ASSUME NEW i \in 1..n PROVE s[i] = t[i]
    <3>1. CASE i <= Len(x)
      BY <1>1, <1>2, <2>5, <3>1
    <3>2. CASE i > Len(x)
      <4>. DEFINE j == i - Len(x)
      <4>1. j \in 1..m /\ j \in 1..Len(y) /\ Len(x) + j = i
        BY <1>1, <2>1, <3>2 DEF m
      <4>. HIDE DEF j
      <4>2. t[i] = y[j] /\ z[i] = y[j]
        BY <1>1, <2>4, <2>5, <4>1
      <4>. QED
        BY <1>2, <4>2
    <3>. QED
      BY <1>1, <3>1, <3>2
  <2>8. s = t
    <3>1. t \in Seq(Nat)
      BY <2>5 DEF File
    <3>. QED
      BY <1>2, <2>6, <2>7, <3>1, SeqEqual
  <2>. QED
    BY <1>4, <2>8 DEF s, t, z, u, m
<1>. QED
  BY <1>1, <1>3, <1>4

\* Appending a record to a log of whole records.
LEMMA AppendKeepsCuts ==
    ASSUME NEW x \in File, NEW y \in File, NEW e \in Record, NEW lo \in Nat,
           Clean(x), Cuts(x, lo), Recovered(y, e)
    PROVE  /\ x \o y \in File
           /\ Clean(x \o y)
           /\ recover(x \o y).records = recover(x).records \o <<e>>
           /\ Cuts(x \o y, lo)
<1>. DEFINE z == x \o y
            R == recover(x).records
            E == <<e>>
<1>1. /\ z \in File /\ Len(z) = Len(x) + Len(y)
      /\ Len(x) \in Nat /\ Len(y) \in Nat
  BY Concatenation
<1>2. /\ recover(y).records = E /\ Clean(y)
      /\ \A n \in 0..(Len(y) - 1) :
           LET cut == recover(SubSeq(y, 1, n)) IN cut.records = <<>> /\ ~cut.corrupt
  BY DEF Recovered
<1>3. R \in Seq(Record) /\ E \in Seq(Record)
  BY RecordsType
<1>. HIDE DEF R, E
<1>4. /\ recover(z).records = R \o recover(y).records
      /\ recover(z).corrupt <=> recover(y).corrupt
      /\ recover(z).end = Len(x) + recover(y).end
  BY RecoverExtended DEF R
<1>5. recover(z).records = R \o E
  BY <1>2, <1>4
<1>6. Clean(z)
  BY <1>1, <1>2, <1>4 DEF Clean
<1>7. R \o <<>> = R
  BY <1>3, ConcatEmptySeq
<1>8. Cuts(z, lo)
  <2>. HIDE DEF z
  <2>1. SUFFICES ASSUME NEW n \in lo..Len(z)
                 PROVE  LET r == recover(SubSeq(z, 1, n)) IN
                        ~r.corrupt /\ IsPrefix(r.records, recover(z).records)
    BY DEF Cuts
  <2>2. n \in 0..(Len(x) + Len(y))
    BY <1>1
  <2>3. CASE n <= Len(x)
    <3>. DEFINE p == SubSeq(x, 1, n)
    <3>1. n \in lo..Len(x)
      BY <1>1, <2>2, <2>3
    <3>2. ~recover(p).corrupt /\ IsPrefix(recover(p).records, R)
      BY <3>1 DEF Cuts, R
    <3>3. SubSeq(z, 1, n) = p
      BY <2>2, <2>3, CutOfConcat DEF z
    <3>4. recover(p).records \in Seq(Record)
      <4>1. \A i \in 1..n : x[i] \in Nat
        BY <1>1, <3>1, BytesOfFile
      <4>2. p \in File
        BY <4>1, SubSeqProperties DEF File
      <4>. QED
        BY <4>2, RecordsType
    <3>. HIDE DEF p
    <3>5. IsPrefix(recover(p).records, R \o E)
      BY <1>3, <3>2, <3>4, PrefixOfConcat
    <3>. QED
      BY <1>5, <3>2, <3>3, <3>5
  <2>4. CASE n > Len(x)
    <3>. DEFINE m == n - Len(x)
                q == SubSeq(y, 1, m)
    <3>1. m \in 0..Len(y)
      BY <1>1, <2>2, <2>4
    <3>2. SubSeq(z, 1, n) = x \o q
      BY <2>2, <2>4, CutOfConcat DEF z
    <3>. HIDE DEF m
    <3>3. q \in File
      <4>1. \A i \in 1..m : y[i] \in Nat
        BY <1>1, <3>1, BytesOfFile
      <4>. QED
        BY <3>1, <4>1, SubSeqProperties DEF File
    <3>4. CASE m = Len(y)
      <4>1. q = y
        BY <3>4, SubSeqFull DEF File
      <4>2. recover(SubSeq(z, 1, n)) = recover(z)
        BY <3>2, <4>1 DEF z
      <4>3. ~recover(z).corrupt
        BY <1>6 DEF Clean
      <4>4. recover(z).records \in Seq(Record)
        BY <1>1, RecordsType
      <4>. QED
        BY <4>2, <4>3, <4>4, PrefixOfItself
    <3>5. CASE m # Len(y)
      <4>1. m \in 0..(Len(y) - 1)
        BY <1>1, <3>1, <3>5
      <4>2. recover(q).records = <<>> /\ ~recover(q).corrupt
        BY <1>2, <4>1
      <4>. HIDE DEF q
      <4>3. /\ recover(x \o q).records = R \o recover(q).records
            /\ recover(x \o q).corrupt <=> recover(q).corrupt
        BY <3>3, RecoverExtended DEF R
      <4>4. recover(x \o q).records = R /\ ~recover(x \o q).corrupt
        BY <1>7, <4>2, <4>3
      <4>5. IsPrefix(R, R \o E)
        BY <1>3, PrefixOfItself, PrefixOfConcat
      <4>. QED
        BY <1>5, <3>2, <4>4, <4>5
    <3>. QED
      BY <3>4, <3>5
  <2>. QED
    BY <1>1, <2>2, <2>3, <2>4
<1>. QED
  BY <1>1, <1>5, <1>6, <1>8 DEF R, E
-----------------------------------------------------------------------------
(***************************************************************************)
(* The log of the engine.                                                  *)
(***************************************************************************)
LogType ==
    /\ wal \in File /\ buf \in File /\ torn \in BOOLEAN
    /\ ops \in [Clients -> Nat]
    /\ call \in [Clients -> Calls]
    /\ pc \in [Clients -> Labels]

\* A client about to append has put or delete as its call.
Appending ==
    \A p \in Clients : pc[p] = "log" => call[p].op \in {"put", "delete"}

\* A log that was not opened torn is one of whole records.
WholeRecords == torn \/ Clean(wal \o buf)

LogInv == LogType /\ Appending /\ WholeRecords /\ CrashKeepsPrefix

LEMMA CutsOfLog ==
    ASSUME LogType
    PROVE  CrashKeepsPrefix = (torn \/ Cuts(wal \o buf, Len(wal)))
BY DEF CrashKeepsPrefix, Cuts, LogType

LEMMA CallType ==
    \A c \in Calls : c.op \in {"put", "delete", "get"} =>
        \E k \in Keys : c.keys = <<k>>
BY DEF Calls

\* The bytes an append adds, and the record they are recovered as.
LEMMA AppendedRecord ==
    ASSUME NEW p \in Clients, LogType, call[p].op \in {"put", "delete"}
    PROVE  /\ Key(p) \in Keys
           /\ LET y == IF call[p].op = "put"
                       THEN append_put(<<Key(p)>>, Val(p))
                       ELSE append_delete(<<Key(p)>>)
                  e == [key |-> <<Key(p)>>, val |-> Stored(p)]
              IN  y \in File /\ e \in Record /\ Recovered(y, e)
<1>1. call[p] \in Calls
  BY DEF LogType
<1>2. PICK k \in Keys : call[p].keys = <<k>>
  BY <1>1, CallType
<1>3. Key(p) = k
  BY <1>2 DEF Key
<1>4. <<k>> \in File /\ Len(<<k>>) = 1
  <2>1. k \in Nat
    BY LsmAssumption
  <2>. QED
    BY <2>1 DEF File
<1>5. Val(p) \in File /\ Len(Val(p)) = 2
  <2>1. p \in Nat /\ ops[p] + 1 \in Nat
    BY LsmAssumption DEF LogType
  <2>. QED
    BY <2>1 DEF Val, File
<1>6. 1 < Limit /\ 2 < Limit /\ <<>> \in File
  BY SMT DEF Limit, File
<1>7. Recovered(append_put(<<k>>, Val(p)), [key |-> <<k>>, val |-> Val(p)])
  BY <1>4, <1>5, <1>6, PutRecovered
<1>8. Recovered(append_delete(<<k>>), [key |-> <<k>>, val |-> <<>>])
  BY <1>4, <1>6, DeleteRecovered
<1>9. CASE call[p].op = "put"
  <2>1. Stored(p) = Val(p)
    BY <1>9 DEF Stored
  <2>2. append_put(<<k>>, Val(p)) \in File
    BY <1>7 DEF Recovered
  <2>3. [key |-> <<k>>, val |-> Val(p)] \in Record
    BY <1>4, <1>5 DEF Record
  <2>. QED
    BY <1>3, <1>7, <1>9, <2>1, <2>2, <2>3
<1>10. CASE call[p].op = "delete"
  <2>1. Stored(p) = <<>>
    BY <1>10 DEF Stored, Empty
  <2>2. append_delete(<<k>>) \in File
    BY <1>8 DEF Recovered
  <2>3. [key |-> <<k>>, val |-> <<>>] \in Record
    BY <1>4, <1>6 DEF Record
  <2>. QED
    BY <1>3, <1>8, <1>10, <2>1, <2>2, <2>3
<1>. QED
  BY <1>9, <1>10

\* The steps that leave the log alone: they go on with the call under way.
LEMMA ElsewhereKeepsLog ==
    ASSUME LogInv, UNCHANGED <<log, client>>, NEW p \in Clients,
           NEW l \in Labels \ {"log"}, pc' = [pc EXCEPT ![p] = l]
    PROVE  LogInv'
<1>1. LogType'
  BY DEF LogInv, LogType, log, client
<1>2. Appending'
  BY DEF LogInv, LogType, Appending, client
<1>3. WholeRecords' /\ CrashKeepsPrefix'
  BY DEF LogInv, WholeRecords, CrashKeepsPrefix, log
<1>. QED
  BY <1>1, <1>2, <1>3 DEF LogInv

\* LsmEngine::open on a file.
LEMMA OpenKeepsLog ==
    ASSUME LogInv, NEW file \in File, Open(file), ops' \in [Clients -> Nat]
    PROVE  LogInv'
<1>1. /\ wal' = file /\ buf' = <<>> /\ torn' = (recover(file).end <= Len(file))
      /\ ~recover(file).corrupt
      /\ pc' = [p \in Clients |-> "idle"]
      /\ call' = [p \in Clients |-> NoCall]
  BY DEF Open
<1>2. <<>> \in File /\ file \o <<>> = file /\ Len(file) \in Nat
  BY ConcatEmptySeq DEF File
<1>3. recover(file).end \in Nat /\ recover(file).end <= Len(file) + 1
      /\ recover(file).records \in Seq(Record)
  BY RecordsType
<1>4. LogType'
  <2>1. NoCall \in Calls
    BY DEF NoCall, Calls
  <2>2. torn' \in BOOLEAN
    BY <1>1
  <2>. QED
    BY <1>1, <1>2, <2>1, <2>2 DEF LogType, Labels
<1>5. Appending'
  BY <1>1 DEF Appending
<1>6. WholeRecords'
  <2>1. ~torn' => recover(file).end = Len(file) + 1
    <3>1. torn' <=> recover(file).end <= Len(file)
      BY DEF Open
    <3>. QED
      BY <1>2, <1>3, <3>1
  <2>. QED
    BY <1>1, <1>2, <2>1 DEF WholeRecords, Clean
<1>7. CrashKeepsPrefix'
  <2>1. Cuts(file, Len(file))
    <3>1. SUFFICES ASSUME NEW n \in Len(file)..Len(file)
                   PROVE  LET r == recover(SubSeq(file, 1, n)) IN
                          ~r.corrupt /\ IsPrefix(r.records, recover(file).records)
      BY DEF Cuts
    <3>2. SubSeq(file, 1, n) = file
      <4>1. n = Len(file)
        BY <1>2
      <4>. QED
        BY <4>1, SubSeqFull DEF File
    <3>. QED
      BY <1>1, <1>3, <3>2, PrefixOfItself
  <2>2. CrashKeepsPrefix' = (torn' \/ Cuts(wal' \o buf', Len(wal')))
    BY DEF CrashKeepsPrefix, Cuts
  <2>. QED
    BY <1>1, <1>2, <2>1, <2>2
<1>. QED
  BY <1>4, <1>5, <1>6, <1>7 DEF LogInv

LEMMA AppendLogKeepsLog ==
    ASSUME LogInv, NEW p \in Clients, AppendLog(p)
    PROVE  LogInv'
<1>. DEFINE y == IF call[p].op = "put" THEN append_put(<<Key(p)>>, Val(p))
                                       ELSE append_delete(<<Key(p)>>)
<1>1. /\ pc[p] = "log" /\ buf' = buf \o y /\ wal' = wal /\ torn' = torn
      /\ pc' = [pc EXCEPT ![p] = "insert"] /\ UNCHANGED client
  BY DEF AppendLog, Goto
<1>. HIDE DEF y
<1>2. LogType /\ wal \in File /\ buf \in File
  BY DEF LogInv, LogType
<1>3. PICK e \in Record : y \in File /\ Recovered(y, e)
  <2>1. call[p].op \in {"put", "delete"}
    BY <1>1 DEF LogInv, Appending
  <2>. QED
    BY <1>2, <2>1, AppendedRecord DEF y
<1>4. buf' \in File /\ wal' \o buf' = (wal \o buf) \o y /\ wal \o buf \in File
      /\ Len(wal) \in Nat
  <2>1. buf \o y \in File /\ wal \o buf \in File /\ Len(wal) \in Nat
    BY <1>2, <1>3, Concatenation
  <2>2. (wal \o buf) \o y = wal \o (buf \o y)
    BY <1>2, <1>3, Association
  <2>. QED
    BY <1>1, <2>1, <2>2
<1>5. LogType'
  BY <1>1, <1>2, <1>4 DEF LogType, Labels, client
<1>6. Appending'
  BY <1>1, <1>2 DEF LogInv, LogType, Appending, client
<1>7. CASE torn
  <2>1. WholeRecords' /\ CrashKeepsPrefix'
    BY <1>1, <1>7 DEF WholeRecords, CrashKeepsPrefix
  <2>. QED
    BY <1>5, <1>6, <2>1 DEF LogInv
<1>8. CASE ~torn
  <2>. DEFINE x == wal \o buf
  <2>1. Clean(x)
    BY <1>8 DEF LogInv, WholeRecords
  <2>2. Cuts(x, Len(wal))
    BY <1>2, <1>8, CutsOfLog DEF LogInv
  <2>3. x \in File
    BY <1>4
  <2>. HIDE DEF x
  <2>4. Clean(x \o y) /\ Cuts(x \o y, Len(wal))
    BY <1>3, <1>4, <2>1, <2>2, <2>3, AppendKeepsCuts
  <2>5. WholeRecords'
    BY <1>4, <2>4 DEF WholeRecords, x
  <2>6. CrashKeepsPrefix'
    <3>1. CrashKeepsPrefix' = (torn' \/ Cuts(wal' \o buf', Len(wal')))
      BY DEF CrashKeepsPrefix, Cuts
    <3>. QED
      BY <1>1, <1>4, <2>4, <3>1 DEF x
  <2>. QED
    BY <1>5, <1>6, <2>5, <2>6 DEF LogInv
<1>. QED
  BY <1>7, <1>8

LEMMA TruncateLogKeepsLog ==
    ASSUME LogInv, NEW p \in Clients, TruncateLog(p)
    PROVE  LogInv'
<1>1. /\ wal' = <<>> /\ buf' = <<>> /\ torn' = FALSE
      /\ pc' = [pc EXCEPT ![p] = "compact"] /\ UNCHANGED client
  BY DEF TruncateLog, EmptyLog, Goto
<1>2. <<>> \in File /\ <<>> \o <<>> = <<>> /\ Len(<<>>) = 0
  BY ConcatEmptySeq DEF File
<1>3. LogType'
  BY <1>1, <1>2 DEF LogInv, LogType, Labels, client
<1>4. Appending'
  BY <1>1 DEF LogInv, LogType, Appending, client
<1>5. WholeRecords'
  BY <1>1, <1>2, EmptyLogClean DEF WholeRecords
<1>6. CrashKeepsPrefix'
  <2>1. Cuts(<<>>, 0)
    <3>1. SUFFICES ASSUME NEW n \in 0..0
                   PROVE  LET r == recover(SubSeq(<<>>, 1, n)) IN
                          ~r.corrupt /\ IsPrefix(r.records, recover(<<>>).records)
      BY <1>2 DEF Cuts
    <3>2. SubSeq(<<>>, 1, n) = <<>>
      BY SubSeqEmpty
    <3>3. recover(<<>>).records \in Seq(Record)
      BY <1>2, RecordsType
    <3>4. ~recover(<<>>).corrupt
      BY EmptyLogClean DEF Clean
    <3>. QED
      BY <3>2, <3>3, <3>4, PrefixOfItself
  <2>2. CrashKeepsPrefix' = (torn' \/ Cuts(wal' \o buf', Len(wal')))
    BY DEF CrashKeepsPrefix, Cuts
  <2>. QED
    BY <1>1, <1>2, <2>1, <2>2
<1>. QED
  BY <1>3, <1>4, <1>5, <1>6 DEF LogInv

LEMMA BeginKeepsLog ==
    ASSUME LogInv, NEW p \in Clients, Begin(p)
    PROVE  LogInv'
<1>1. PICK c \in Program[p][ops[p] + 1] :
        /\ call' = [call EXCEPT ![p] = c]
        /\ Goto(p, CASE c.op \in {"put", "delete"} -> "log"
                     [] c.op = "get"               -> "get"
                     [] c.op = "flush"             -> "drain"
                     [] c.op = "ingest_sorted"     -> "ingest")
  BY DEF Begin
<1>2. ops[p] < Len(Program[p]) /\ UNCHANGED <<log, ops>>
  BY DEF Begin
<1>3. c \in Calls
  <2>1. Program[p] \in Seq(SUBSET Calls) /\ ops[p] \in Nat
    BY ProgramAssumption DEF LogInv, LogType
  <2>2. Program[p][ops[p] + 1] \in SUBSET Calls
    BY <1>2, <2>1
  <2>. QED
    BY <2>2
<1>4. c.op \in {"put", "delete", "get", "flush", "ingest_sorted"}
  BY <1>3 DEF Calls
<1>5. PICK l \in Labels : /\ pc' = [pc EXCEPT ![p] = l]
                          /\ l = "log" => c.op \in {"put", "delete"}
  BY <1>1, <1>4 DEF Goto, Labels
<1>6. LogType'
  BY <1>1, <1>2, <1>3, <1>5 DEF LogInv, LogType, log
<1>7. Appending'
  BY <1>1, <1>5 DEF LogInv, LogType, Appending
<1>8. WholeRecords' /\ CrashKeepsPrefix'
  BY <1>2 DEF LogInv, WholeRecords, CrashKeepsPrefix, log
<1>. QED
  BY <1>6, <1>7, <1>8 DEF LogInv

LEMMA ReturnKeepsLog ==
    ASSUME LogInv, NEW p \in Clients, Return(p)
    PROVE  LogInv'
<1>1. /\ pc' = [pc EXCEPT ![p] = "idle"]
      /\ ops' = [ops EXCEPT ![p] = @ + 1]
      /\ call' = [call EXCEPT ![p] = NoCall]
      /\ UNCHANGED log
  BY DEF Return, Goto
<1>2. NoCall \in Calls
  BY DEF NoCall, Calls
<1>3. LogType'
  BY <1>1, <1>2 DEF LogInv, LogType, Labels, log
<1>4. Appending'
  BY <1>1 DEF LogInv, LogType, Appending
<1>5. WholeRecords' /\ CrashKeepsPrefix'
  BY <1>1 DEF LogInv, WholeRecords, CrashKeepsPrefix, log
<1>. QED
  BY <1>3, <1>4, <1>5 DEF LogInv

LEMMA InitLog == Init => LogInv
<1>. SUFFICES ASSUME Init PROVE LogInv
  OBVIOUS
<1>1. /\ wal = <<>> /\ buf = <<>> /\ torn = FALSE
      /\ pc = [p \in Clients |-> "idle"] /\ ops = [p \in Clients |-> 0]
      /\ call = [p \in Clients |-> NoCall]
  BY DEF Init
<1>2. <<>> \in File /\ <<>> \o <<>> = <<>> /\ Len(<<>>) = 0
  BY ConcatEmptySeq DEF File
<1>3. LogType
  <2>1. NoCall \in Calls
    BY DEF NoCall, Calls
  <2>. QED
    BY <1>1, <1>2, <2>1 DEF LogType, Labels
<1>4. Appending
  BY <1>1 DEF Appending
<1>5. WholeRecords
  BY <1>1, <1>2, EmptyLogClean DEF WholeRecords
<1>6. Cuts(<<>>, 0)
  <2>1. SUFFICES ASSUME NEW n \in 0..0
                 PROVE  LET r == recover(SubSeq(<<>>, 1, n)) IN
                        ~r.corrupt /\ IsPrefix(r.records, recover(<<>>).records)
    BY <1>2 DEF Cuts
  <2>2. SubSeq(<<>>, 1, n) = <<>>
    BY SubSeqEmpty
  <2>3. recover(<<>>).records \in Seq(Record)
    BY <1>2, RecordsType
  <2>4. ~recover(<<>>).corrupt
    BY EmptyLogClean DEF Clean
  <2>. QED
    BY <2>2, <2>3, <2>4, PrefixOfItself
<1>7. CrashKeepsPrefix
  BY <1>1, <1>2, <1>3, <1>6, CutsOfLog
<1>. QED
  BY <1>3, <1>4, <1>5, <1>7 DEF LogInv

LEMMA StepKeepsLog ==
    ASSUME LogInv, NEW p \in Clients, Step(p)
    PROVE  LogInv'
<1>1. CASE Begin(p)
  BY <1>1, BeginKeepsLog
<1>2. CASE Return(p)
  BY <1>2, ReturnKeepsLog
<1>3. CASE AppendLog(p)
  BY <1>3, AppendLogKeepsLog
<1>4. CASE TruncateLog(p)
  BY <1>4, TruncateLogKeepsLog
<1>. DEFINE Goes == \E l \in Labels \ {"log"} : pc' = [pc EXCEPT ![p] = l]
<1>5. ASSUME UNCHANGED <<log, client>>, Goes PROVE LogInv'
  BY <1>5, ElsewhereKeepsLog
<1>6. CASE MemInsert(p)
  BY <1>5, <1>6 DEF MemInsert, Goto, Labels
<1>7. CASE CountBytes(p)
  BY <1>5, <1>7 DEF CountBytes, Inserted, Goto, Labels
<1>8. CASE MemRemove(p)
  BY <1>5, <1>8 DEF MemRemove, Goto, Labels
<1>9. CASE MemInsertAgain(p)
  BY <1>5, <1>9 DEF MemInsertAgain, Inserted, Goto, Labels
<1>10. CASE MaybeFlush(p)
  BY <1>5, <1>10 DEF MaybeFlush, Goto, Labels
<1>11. CASE Drain(p)
  BY <1>5, <1>11 DEF Drain, Goto, Labels
<1>12. CASE CollectEntry(p)
  BY <1>5, <1>12 DEF CollectEntry, Visit, Goto, Labels
<1>13. CASE ClearEntry(p)
  BY <1>5, <1>13 DEF ClearEntry, Visit, Goto, Labels
<1>14. CASE ZeroBytes(p)
  BY <1>5, <1>14 DEF ZeroBytes, Goto, Labels
<1>15. CASE LockManifest(p)
  BY <1>5, <1>15 DEF LockManifest, Goto, Labels
<1>16. CASE AddTable(p)
  BY <1>5, <1>16 DEF AddTable, Goto, Labels
<1>17. CASE Compact(p)
  BY <1>5, <1>17 DEF Compact, Goto, Labels
<1>18. CASE IngestSorted(p)
  BY <1>5, <1>18 DEF IngestSorted, Goto, Labels
<1>19. CASE GetMem(p)
  BY <1>5, <1>19 DEF GetMem, Goto, Labels
<1>20. CASE GetTables(p)
  BY <1>5, <1>20 DEF GetTables, Goto, Labels
<1>. QED
  BY <1>1, <1>2, <1>3, <1>4, <1>6, <1>7, <1>8, <1>9, <1>10, <1>11, <1>12,
     <1>13, <1>14, <1>15, <1>16, <1>17, <1>18, <1>19, <1>20 DEF Step

LEMMA CrashKeepsLog == LogInv /\ Crash => LogInv'
<1>. SUFFICES ASSUME LogInv, Crash PROVE LogInv'
  OBVIOUS
<1>1. PICK n \in 0..Len(buf) : Open(wal \o SubSeq(buf, 1, n))
  BY DEF Crash
<1>2. ops' \in [Clients -> Nat]
  BY DEF Crash, LogInv, LogType
<1>3. wal \in File /\ buf \in File
  BY DEF LogInv, LogType
<1>4. SubSeq(buf, 1, n) \in File
  <2>1. \A i \in 1..n : buf[i] \in Nat
    BY <1>3, BytesOfFile
  <2>. QED
    BY <2>1, SubSeqProperties DEF File
<1>5. wal \o SubSeq(buf, 1, n) \in File
  BY <1>3, <1>4, Concatenation
<1>. QED
  BY <1>1, <1>2, <1>5, OpenKeepsLog

LEMMA CloseKeepsLog == LogInv /\ Close => LogInv'
<1>. SUFFICES ASSUME LogInv, Close PROVE LogInv'
  OBVIOUS
<1>1. Open(wal \o buf) /\ ops' = ops
  BY DEF Close
<1>2. wal \in File /\ buf \in File /\ ops \in [Clients -> Nat]
  BY DEF LogInv, LogType
<1>3. wal \o buf \in File
  BY <1>2, Concatenation
<1>. QED
  BY <1>1, <1>2, <1>3, OpenKeepsLog

LEMMA StutterKeepsLog == LogInv /\ UNCHANGED vars => LogInv'
<1>. SUFFICES ASSUME LogInv, UNCHANGED vars PROVE LogInv'
  OBVIOUS
<1>1. UNCHANGED <<wal, buf, torn, ops, call, pc>>
  BY DEF vars
<1>. QED
  BY <1>1 DEF LogInv, LogType, Appending, WholeRecords, CrashKeepsPrefix

LEMMA NextKeepsLog == LogInv /\ [Next]_vars => LogInv'
<1>. SUFFICES ASSUME LogInv, [Next]_vars PROVE LogInv'
  OBVIOUS
<1>1. CASE \E p \in Clients : Step(p)
  BY <1>1, StepKeepsLog
<1>2. CASE Crash
  BY <1>2, CrashKeepsLog
<1>3. CASE Close
  BY <1>3, CloseKeepsLog
<1>4. CASE Rest \/ UNCHANGED vars
  BY <1>4, StutterKeepsLog DEF Rest
<1>. QED
  BY <1>1, <1>2, <1>3, <1>4 DEF Next

(***************************************************************************)
(* The log always holds whole records of known types, unless it was opened *)
(* torn and has not been truncated since.                                  *)
(***************************************************************************)
THEOREM LogInvariance == Spec => []LogInv
<1>1. Init => LogInv
  BY InitLog
<1>2. LogInv /\ [Next]_vars => LogInv'
  BY NextKeepsLog
<1>. QED
  BY <1>1, <1>2, PTL DEF Spec

(***************************************************************************)
(* CrashKeepsPrefix holds with any number of clients and crashes: wherever *)
(* a crash cuts what the BufWriter holds, Wal::recover reports no          *)
(* corruption and gives the records of the log up to some point.           *)
(***************************************************************************)
THEOREM CrashPrefix == Spec => []CrashKeepsPrefix
<1>1. LogInv => CrashKeepsPrefix
  BY DEF LogInv
<1>. QED
  BY <1>1, LogInvariance, PTL
=============================================================================
