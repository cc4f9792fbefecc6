----------------------------- MODULE WalProofs -----------------------------
(***************************************************************************)
(* What Wal::recover makes of the bytes of a log, for every log: a record  *)
(* that was appended is read back, whatever its key and value; a log of    *)
(* whole records can be extended; a record that was cut off is not there.  *)
(***************************************************************************)
EXTENDS Wal, SequenceTheorems, WellFoundedInduction, TLAPS

\* The bytes of a log, and what is read back from them.
File   == Seq(Nat)
Record == [key : File, val : File]
Result == [records : Seq(Record), end : Nat, corrupt : BOOLEAN]

LEMMA BytesOfFile ==
    \A b \in File : Len(b) \in Nat /\ \A i \in 1..Len(b) : b[i] \in Nat
BY DEF File

LEMMA Concatenation ==
    \A x, y \in File :
      /\ x \o y \in File /\ Len(x) \in Nat /\ Len(y) \in Nat
      /\ Len(x \o y) = Len(x) + Len(y)
      /\ \A i \in 1..Len(x) : (x \o y)[i] = x[i]
      /\ \A i \in 1..Len(y) : (x \o y)[Len(x) + i] = y[i]
BY ConcatProperties DEF File

LEMMA Association ==
    \A x, y, z \in File : (x \o y) \o z = x \o (y \o z)
<1>1. ASSUME NEW T PROVE \A x, y, z \in Seq(T) : (x \o y) \o z = x \o (y \o z)
  BY ConcatAssociative
<1>2. \A T : \A x, y, z \in Seq(T) : (x \o y) \o z = x \o (y \o z)
  BY <1>1, Zenon
<1>3. PICK T : File = Seq(T)
  BY DEF File
<1>. QED
  BY <1>2, <1>3
-----------------------------------------------------------------------------
(***************************************************************************)
(* One length-prefixed field.                                              *)
(***************************************************************************)
\* The number four bytes encode, and the length found at position i.
Number(b1, b2, b3, b4) == b1 + 256 * b2 + 65536 * b3 + 16777216 * b4
Size(b, i) == IF i + 3 <= Len(b) THEN from_le_bytes(SubSeq(b, i, i + 3)) ELSE 0

LEMMA NumberType ==
    \A b1, b2, b3, b4 \in Nat : Number(b1, b2, b3, b4) \in Nat
BY SMT DEF Number

LEMMA BytesNumber ==
    \A b : from_le_bytes(b) = Number(b[1], b[2], b[3], b[4])
BY SMT DEF from_le_bytes, Number

LEMMA SizeOfBytes ==
    ASSUME NEW b \in File, NEW i \in Nat \ {0}
    PROVE  /\ Size(b, i) \in Nat
           /\ i + 3 <= Len(b) =>
                Size(b, i) = Number(b[i], b[i + 1], b[i + 2], b[i + 3])
<1>1. CASE i + 3 <= Len(b)
  <2>1. b[i] \in Nat /\ b[i + 1] \in Nat /\ b[i + 2] \in Nat /\ b[i + 3] \in Nat
    BY <1>1 DEF File
  <2>2. \A j \in i..(i + 3) : b[j] \in Nat
    BY <1>1 DEF File
  <2>. DEFINE s == SubSeq(b, i, i + 3)
  <2>3. \A j \in 1..4 : s[j] = b[i + j - 1]
    BY <2>2, SubSeqProperties, i \in Int, i + 3 \in Int, i + 3 - i + 1 = 4
  <2>. HIDE DEF s
  <2>4. s[1] = b[i] /\ s[2] = b[i + 1] /\ s[3] = b[i + 2] /\ s[4] = b[i + 3]
    <3>1. i + 1 - 1 = i /\ i + 2 - 1 = i + 1 /\ i + 3 - 1 = i + 2
          /\ i + 4 - 1 = i + 3
      OBVIOUS
    <3>. QED
      BY <2>3, <3>1
  <2>5. Size(b, i) = from_le_bytes(s)
    BY <1>1 DEF Size, s
  <2>6. from_le_bytes(s) = Number(s[1], s[2], s[3], s[4])
    BY BytesNumber
  <2>7. Size(b, i) = Number(b[i], b[i + 1], b[i + 2], b[i + 3])
    BY <2>4, <2>5, <2>6
  <2>8. Number(b[i], b[i + 1], b[i + 2], b[i + 3]) \in Nat
    BY <2>1, NumberType
  <2>. QED
    BY <2>7, <2>8
<1>2. CASE ~(i + 3 <= Len(b))
  BY <1>2 DEF Size
<1>. QED
  BY <1>1, <1>2

LEMMA ReadField ==
    ASSUME NEW b \in File, NEW i \in Nat \ {0}
    PROVE  /\ read_length_prefixed(b, i).ok = (i + 3 + Size(b, i) <= Len(b))
           /\ read_length_prefixed(b, i).next = i + 4 + Size(b, i)
           /\ read_length_prefixed(b, i).data =
                IF i + 3 + Size(b, i) <= Len(b)
                THEN SubSeq(b, i + 4, i + 3 + Size(b, i)) ELSE <<>>
<1>1. Size(b, i) \in Nat
  BY SizeOfBytes
<1>. QED
  BY <1>1 DEF read_length_prefixed, Size

LEMMA FieldType ==
    ASSUME NEW b \in File, NEW i \in Nat \ {0}
    PROVE  LET f == read_length_prefixed(b, i) IN
           /\ f.next \in Nat /\ f.next >= i + 4
           /\ f.data \in File
           /\ f.ok => f.next <= Len(b) + 1
<1>1. Size(b, i) \in Nat
  BY SizeOfBytes
<1>2. Len(b) \in Nat
  BY DEF File
<1>3. ASSUME i + 3 + Size(b, i) <= Len(b)
      PROVE  SubSeq(b, i + 4, i + 3 + Size(b, i)) \in File
  <2>1. \A j \in (i + 4)..(i + 3 + Size(b, i)) : b[j] \in Nat
    BY <1>1, <1>3 DEF File
  <2>. QED
    BY <2>1, <1>1, SubSeqProperties, i + 4 \in Int, i + 3 + Size(b, i) \in Int
    DEF File
<1>4. <<>> \in File
  BY DEF File
<1>. DEFINE f == read_length_prefixed(b, i)
<1>5. f.ok = (i + 3 + Size(b, i) <= Len(b)) /\ f.next = i + 4 + Size(b, i)
  BY ReadField
<1>8. f.ok => i + 3 + Size(b, i) <= Len(b)
  BY ReadField
<1>6. f.data \in File
  BY <1>3, <1>4, ReadField, Zenon
<1>. HIDE DEF f
<1>7. f.next \in Nat /\ f.next >= i + 4 /\ (f.ok => f.next <= Len(b) + 1)
  BY <1>1, <1>2, <1>5, <1>8
<1>. QED
  BY <1>6, <1>7 DEF f

\* A field that is all there is read the same when the log grows.
LEMMA FieldOfPrefix ==
    ASSUME NEW x \in File, NEW y \in File, NEW i \in Nat \ {0},
           read_length_prefixed(x, i).ok
    PROVE  LET f == read_length_prefixed(x, i)
               g == read_length_prefixed(x \o y, i)
           IN  g.ok /\ g.next = f.next /\ g.data = f.data
<1>. DEFINE n == Size(x, i)
            z == x \o y
<1>1. z \in File /\ Len(z) = Len(x) + Len(y)
  BY ConcatProperties DEF File
<1>2. \A j \in 1..Len(x) : z[j] = x[j]
  BY DEF File
<1>3. n \in Nat /\ Len(x) \in Nat /\ Len(y) \in Nat
  BY SizeOfBytes DEF File
<1>4. i + 3 + n <= Len(x)
  BY ReadField, Zenon
<1>5. SubSeq(z, i + 4, i + 3 + n) = SubSeq(x, i + 4, i + 3 + n)
  <2>1. i + 4 \in Int /\ i + 3 + n \in Int
    BY <1>3
  <2>2. CASE n = 0
    <3>1. i + 3 + n < i + 4
      BY <2>2
    <3>. QED
      BY <3>1, <2>1, SubSeqEmpty, Zenon
  <2>3. CASE n > 0
    <3>1. i + 4 \in 1..Len(x) /\ i + 3 + n \in 1..Len(x)
      BY <2>3, <1>3, <1>4
    <3>. QED
      BY <3>1, SubSeqOfConcat1, Zenon DEF File
  <2>. HIDE DEF n, z
  <2>. QED
    BY <1>3, <2>2, <2>3
<1>. HIDE DEF n, z
<1>6. i + 3 + n <= Len(z) /\ i + 3 <= Len(x) /\ i + 3 <= Len(z)
  BY <1>1, <1>3, <1>4
<1>7. z[i] = x[i] /\ z[i + 1] = x[i + 1] /\ z[i + 2] = x[i + 2]
      /\ z[i + 3] = x[i + 3]
  BY <1>2, <1>3, <1>6
<1>8. Size(z, i) = n
  BY <1>1, <1>6, <1>7, SizeOfBytes, Zenon DEF n
<1>9. /\ read_length_prefixed(z, i).ok
      /\ read_length_prefixed(z, i).next = i + 4 + n
      /\ read_length_prefixed(z, i).data = SubSeq(x, i + 4, i + 3 + n)
  BY <1>1, <1>5, <1>6, <1>8, ReadField, Zenon
<1>10. /\ read_length_prefixed(x, i).next = i + 4 + n
       /\ read_length_prefixed(x, i).data = SubSeq(x, i + 4, i + 3 + n)
  BY <1>4, ReadField, Zenon DEF n
<1>. QED
  BY <1>9, <1>10, Zenon DEF z

\* Behind a log x, a field of y is read as in y.
LEMMA FieldShifted ==
    ASSUME NEW x \in File, NEW y \in File, NEW i \in Nat \ {0}
    PROVE  LET f == read_length_prefixed(y, i)
               g == read_length_prefixed(x \o y, Len(x) + i)
           IN  g.ok = f.ok /\ g.next = Len(x) + f.next /\ g.data = f.data
<1>. DEFINE n == Size(y, i)
            j == Len(x) + i
            z == x \o y
<1>1. z \in File /\ Len(z) = Len(x) + Len(y)
  BY ConcatProperties DEF File
<1>2. Len(x) \in Nat /\ Len(y) \in Nat /\ n \in Nat /\ j \in Nat \ {0}
  BY SizeOfBytes DEF File
<1>3. \A k \in 1..Len(y) : z[Len(x) + k] = y[k]
  BY DEF File
<1>4. ASSUME i + 3 + n <= Len(y)
      PROVE  SubSeq(z, j + 4, j + 3 + n) = SubSeq(y, i + 4, i + 3 + n)
  <2>1. /\ i + 4 \in Int /\ i + 3 + n \in Int
        /\ j + 4 \in Int /\ j + 3 + n \in Int
    BY <1>2
  <2>2. CASE n = 0
    <3>1. i + 3 + n < i + 4 /\ j + 3 + n < j + 4
      BY <2>2, <1>2
    <3>. QED
      BY <3>1, <2>1, SubSeqEmpty, Zenon
  <2>3. CASE n > 0
    <3>. DEFINE I == Len(x) + 1 .. Len(x) + Len(y)
                k == j + 4
                l == j + 3 + n
    <3>1. k \in I /\ l \in I
      BY <1>2, <1>4, <2>3
    <3>2. k - Len(x) = i + 4 /\ l - Len(x) = i + 3 + n
      BY <1>2, <1>4, <2>3
    <3>3. \A k1, l1 \in I :
            SubSeq(z, k1, l1) = SubSeq(y, k1 - Len(x), l1 - Len(x))
      BY SubSeqOfConcat2 DEF File
    <3>. HIDE DEF I, k, l, z
    <3>4. SubSeq(z, k, l) = SubSeq(y, i + 4, i + 3 + n)
      BY <3>1, <3>2, <3>3
    <3>. QED
      BY <3>4 DEF k, l
  <2>. HIDE DEF n, z, j
  <2>. QED
    BY <1>2, <2>2, <2>3
<1>5. Size(z, j) = n
  <2>1. CASE i + 3 <= Len(y)
    <3>1. /\ i \in 1..Len(y) /\ i + 1 \in 1..Len(y) /\ i + 2 \in 1..Len(y)
          /\ i + 3 \in 1..Len(y)
          /\ j + 1 = Len(x) + (i + 1) /\ j + 2 = Len(x) + (i + 2)
          /\ j + 3 = Len(x) + (i + 3) /\ j + 3 <= Len(z)
      BY <1>1, <1>2, <2>1
    <3>. HIDE DEF z
    <3>2. z[Len(x) + i] = y[i] /\ z[Len(x) + (i + 1)] = y[i + 1]
          /\ z[Len(x) + (i + 2)] = y[i + 2] /\ z[Len(x) + (i + 3)] = y[i + 3]
      BY <1>3, <3>1, Zenon
    <3>3. z[j] = y[i] /\ z[j + 1] = y[i + 1] /\ z[j + 2] = y[i + 2]
          /\ z[j + 3] = y[i + 3]
      BY <3>1, <3>2, Zenon
    <3>. QED
      BY <1>1, <1>2, <2>1, <3>1, <3>3, SizeOfBytes, Zenon
  <2>2. CASE ~(i + 3 <= Len(y))
    <3>1. ~(j + 3 <= Len(z))
      BY <1>1, <1>2, <2>2
    <3>. QED
      BY <2>2, <3>1, Zenon DEF Size
  <2>. QED
    BY <2>1, <2>2
<1>. HIDE DEF n, j, z
<1>6. (j + 3 + n <= Len(z)) = (i + 3 + n <= Len(y))
  BY <1>1, <1>2 DEF j
<1>7. j + 4 + n = Len(x) + (i + 4 + n)
  BY <1>2 DEF j
<1>8. /\ read_length_prefixed(z, j).ok = (i + 3 + n <= Len(y))
      /\ read_length_prefixed(z, j).next = Len(x) + (i + 4 + n)
      /\ read_length_prefixed(z, j).data =
           IF i + 3 + n <= Len(y) THEN SubSeq(y, i + 4, i + 3 + n) ELSE <<>>
  <2>1. /\ read_length_prefixed(z, j).ok = (j + 3 + n <= Len(z))
        /\ read_length_prefixed(z, j).next = j + 4 + n
        /\ read_length_prefixed(z, j).data =
             IF j + 3 + n <= Len(z) THEN SubSeq(z, j + 4, j + 3 + n) ELSE <<>>
    BY <1>1, <1>2, <1>5, ReadField, Zenon
  <2>. QED
    BY <2>1, <1>4, <1>6, <1>7, Zenon
<1>9. /\ read_length_prefixed(y, i).ok = (i + 3 + n <= Len(y))
      /\ read_length_prefixed(y, i).next = i + 4 + n
      /\ read_length_prefixed(y, i).data =
           IF i + 3 + n <= Len(y) THEN SubSeq(y, i + 4, i + 3 + n) ELSE <<>>
  BY ReadField, Zenon DEF n
<1>. QED
  BY <1>8, <1>9, Zenon DEF j, z
-----------------------------------------------------------------------------
(***************************************************************************)
(* One record.                                                             *)
(***************************************************************************)
LEMMA RecordType ==
    ASSUME NEW b \in File, NEW i \in Nat \ {0}, record_at(b, i).whole
    PROVE  /\ record_at(b, i).key \in File
           /\ record_at(b, i).value \in File
           /\ record_at(b, i).next \in Nat
           /\ record_at(b, i).next >= i + 9
           /\ record_at(b, i).next <= Len(b) + 1
<1>. DEFINE key   == read_length_prefixed(b, i + 1)
            value == read_length_prefixed(b, key.next)
<1>1. i + 1 \in Nat \ {0}
  OBVIOUS
<1>2. key.next \in Nat /\ key.next >= i + 1 + 4 /\ key.data \in File
  BY <1>1, FieldType
<1>3. key.next \in Nat \ {0}
  BY <1>2
<1>4. /\ value.next \in Nat /\ value.next >= key.next + 4
      /\ value.data \in File
      /\ value.ok => value.next <= Len(b) + 1
  BY <1>3, FieldType
<1>5. /\ value.ok
      /\ record_at(b, i).key = key.data /\ record_at(b, i).value = value.data
      /\ record_at(b, i).next = value.next
  BY DEF record_at
<1>. HIDE DEF key, value
<1>. QED
  BY <1>2, <1>4, <1>5

\* A whole record is read the same when the log grows.
LEMMA RecordOfPrefix ==
    ASSUME NEW x \in File, NEW y \in File, NEW i \in Nat \ {0},
           record_at(x, i).whole
    PROVE  /\ record_at(x \o y, i).whole
           /\ record_at(x \o y, i).key = record_at(x, i).key
           /\ record_at(x \o y, i).value = record_at(x, i).value
           /\ record_at(x \o y, i).next = record_at(x, i).next
<1>. DEFINE key   == read_length_prefixed(x, i + 1)
            value == read_length_prefixed(x, key.next)
            keyZ   == read_length_prefixed(x \o y, i + 1)
            valueZ == read_length_prefixed(x \o y, keyZ.next)
<1>1. i + 1 \in Nat \ {0} /\ key.ok /\ value.ok
  <2>1. i + 1 \in Nat \ {0}
    OBVIOUS
  <2>2. key.ok /\ value.ok
    BY Zenon DEF record_at
  <2>. QED
    BY <2>1, <2>2
<1>2. keyZ.ok /\ keyZ.next = key.next /\ keyZ.data = key.data
  BY <1>1, FieldOfPrefix
<1>3. key.next \in Nat \ {0}
  BY <1>1, FieldType
<1>4. LET v == read_length_prefixed(x \o y, key.next) IN
      v.ok /\ v.next = value.next /\ v.data = value.data
  BY <1>1, <1>3, FieldOfPrefix
<1>5. valueZ.ok /\ valueZ.next = value.next /\ valueZ.data = value.data
  BY <1>2, <1>4
<1>. QED
  BY <1>2, <1>5 DEF record_at

\* Behind a log x, a record of y is read as in y.
LEMMA RecordShifted ==
    ASSUME NEW x \in File, NEW y \in File, NEW i \in Nat \ {0}
    PROVE  /\ record_at(x \o y, Len(x) + i).whole = record_at(y, i).whole
           /\ record_at(x \o y, Len(x) + i).key = record_at(y, i).key
           /\ record_at(x \o y, Len(x) + i).value = record_at(y, i).value
           /\ record_at(x \o y, Len(x) + i).next
                = Len(x) + record_at(y, i).next
<1>. DEFINE key   == read_length_prefixed(y, i + 1)
            value == read_length_prefixed(y, key.next)
            keyZ   == read_length_prefixed(x \o y, Len(x) + i + 1)
            valueZ == read_length_prefixed(x \o y, keyZ.next)
<1>1. i + 1 \in Nat \ {0} /\ Len(x) + i + 1 = Len(x) + (i + 1)
  BY DEF File
<1>2. keyZ.ok = key.ok /\ keyZ.next = Len(x) + key.next
      /\ keyZ.data = key.data
  <2>1. LET k == read_length_prefixed(x \o y, Len(x) + (i + 1)) IN
        k.ok = key.ok /\ k.next = Len(x) + key.next /\ k.data = key.data
    BY <1>1, FieldShifted, Zenon
  <2>. QED
    BY <1>1, <2>1
<1>3. key.next \in Nat \ {0}
  BY <1>1, FieldType
<1>4. LET v == read_length_prefixed(x \o y, Len(x) + key.next) IN
      v.ok = value.ok /\ v.next = Len(x) + value.next /\ v.data = value.data
  BY <1>3, FieldShifted
<1>5. valueZ.ok = value.ok /\ valueZ.next = Len(x) + value.next
      /\ valueZ.data = value.data
  BY <1>2, <1>4, Zenon
<1>. QED
  BY <1>2, <1>5, Zenon DEF record_at
-----------------------------------------------------------------------------
(***************************************************************************)
(* The recursion of recover goes from a position to later ones, so it has  *)
(* exactly one solution and can be reasoned about from the end of the file *)
(* backwards.                                                              *)
(***************************************************************************)
LEMMA Backwards ==
    ASSUME NEW n \in Nat, NEW S,
           \A i \in 1..n : (\A j \in (i + 1)..n : j \in S) => i \in S
    PROVE  1..n \subseteq S
<1>. DEFINE T == {m \in Nat : n - m \in (1..n) \ S}
<1>1. SUFFICES ASSUME T # {} PROVE FALSE
  <2>1. ASSUME NEW i \in 1..n, i \notin S PROVE FALSE
    <3>1. n - i \in Nat /\ n - (n - i) = i
      OBVIOUS
    <3>2. n - i \in T
      BY <2>1, <3>1
    <3>. QED
      BY <3>2, <1>1
  <2>. QED
    BY <2>1
<1>2. PICK m \in T : \A k \in T : ~(<<k, m>> \in OpToRel(<, Nat))
  <2>. HIDE DEF T
  <2>1. T \subseteq Nat
    BY DEF T
  <2>. QED
    BY <1>1, <2>1, WFMin, NatLessThanWellFounded
<1>3. m \in Nat /\ n - m \in 1..n /\ n - m \notin S
  OBVIOUS
<1>4. ASSUME NEW j \in (n - m + 1)..n PROVE j \in S
  <2>1. SUFFICES ASSUME j \notin S PROVE FALSE
    OBVIOUS
  <2>2. n - j \in Nat /\ n - j < m /\ n - (n - j) = j /\ j \in 1..n
    BY <1>3
  <2>3. n - j \in T
    BY <2>1, <2>2
  <2>4. <<n - j, m>> \in OpToRel(<, Nat)
    BY <2>2, <1>3 DEF OpToRel
  <2>. QED
    BY <2>3, <2>4, <1>2
<1>. QED
  BY <1>3, <1>4

Positions(b) == 1..(Len(b) + 1)

\* The value of the recursion at i, given those at later positions.
Stopped(i) == [records |-> <<>>, end |-> i, corrupt |-> FALSE]
Refused(i) == [records |-> <<>>, end |-> i, corrupt |-> TRUE]
RecordRead(b, i) ==
    [key |-> record_at(b, i).key,
     val |-> IF b[i] = RECORD_PUT THEN record_at(b, i).value ELSE <<>>]
Extended(r, rest) ==
    [records |-> <<r>> \o rest.records, end |-> rest.end, corrupt |-> rest.corrupt]
Known(b, i) == b[i] \in {RECORD_PUT, RECORD_DELETE}
Body(b, f, i) ==
    IF ~record_at(b, i).whole THEN Stopped(i)
    ELSE IF ~Known(b, i) THEN Refused(i)
    ELSE Extended(RecordRead(b, i), f[record_at(b, i).next])
Solves(b, f) == f = [i \in Positions(b) |-> Body(b, f, i)]

LEMMA StopFields ==
    \A i : /\ Stopped(i).records = <<>> /\ Stopped(i).end = i
          /\ ~Stopped(i).corrupt
          /\ Refused(i).records = <<>> /\ Refused(i).end = i
          /\ Refused(i).corrupt
BY DEF Stopped, Refused

LEMMA ExtendedFields ==
    \A r, rest : /\ Extended(r, rest).records = <<r>> \o rest.records
                /\ Extended(r, rest).end = rest.end
                /\ Extended(r, rest).corrupt = rest.corrupt
BY DEF Extended

\* What differs between two recoveries by an offset still does one record before.
LEMMA ExtendedAlike ==
    \A g, h, r, n :
      (g.records = h.records /\ (g.corrupt <=> h.corrupt) /\ g.end = n + h.end)
      => /\ Extended(r, g).records = Extended(r, h).records
         /\ Extended(r, g).corrupt <=> Extended(r, h).corrupt
         /\ Extended(r, g).end = n + Extended(r, h).end
<1>. SUFFICES
       ASSUME NEW g, NEW h, NEW r, NEW n,
              g.records = h.records, g.corrupt <=> h.corrupt, g.end = n + h.end
       PROVE  /\ Extended(r, g).records = Extended(r, h).records
              /\ Extended(r, g).corrupt <=> Extended(r, h).corrupt
              /\ Extended(r, g).end = n + Extended(r, h).end
  OBVIOUS
<1>1. Extended(r, g).records = Extended(r, h).records
  BY ExtendedFields, Zenon
<1>. QED
  BY <1>1, ExtendedFields

LEMMA StoppedType ==
    ASSUME NEW i \in Nat
    PROVE  Stopped(i) \in Result /\ Refused(i) \in Result
<1>1. <<>> \in Seq(Record)
  OBVIOUS
<1>. QED
  BY <1>1 DEF Stopped, Refused, Result

LEMMA ExtendedType ==
    ASSUME NEW r \in Record, NEW rest \in Result
    PROVE  /\ Extended(r, rest) \in Result
           /\ Extended(r, rest).records = <<r>> \o rest.records
           /\ Extended(r, rest).end = rest.end
           /\ Extended(r, rest).corrupt = rest.corrupt
<1>1. rest.records \in Seq(Record) /\ rest.end \in Nat /\ rest.corrupt \in BOOLEAN
  BY DEF Result
<1>2. <<r>> \in Seq(Record)
  OBVIOUS
<1>3. <<r>> \o rest.records \in Seq(Record)
  BY <1>1, <1>2, ConcatProperties
<1>. QED
  BY <1>1, <1>3 DEF Extended, Result

LEMMA RecordReadType ==
    ASSUME NEW b \in File, NEW i \in Positions(b), record_at(b, i).whole
    PROVE  /\ RecordRead(b, i) \in Record
           /\ record_at(b, i).next \in Positions(b)
           /\ record_at(b, i).next \in (i + 1)..(Len(b) + 1)
<1>1. i \in Nat \ {0} /\ Len(b) \in Nat
  BY DEF Positions, File
<1>2. /\ record_at(b, i).key \in File /\ record_at(b, i).value \in File
      /\ record_at(b, i).next \in Nat /\ record_at(b, i).next >= i + 9
      /\ record_at(b, i).next <= Len(b) + 1
  BY <1>1, RecordType
<1>3. <<>> \in File
  BY DEF File
<1>4. (IF b[i] = RECORD_PUT THEN record_at(b, i).value ELSE <<>>) \in File
  BY <1>2, <1>3
<1>5. RecordRead(b, i) \in Record
  BY <1>2, <1>4 DEF RecordRead, Record
<1>. QED
  BY <1>1, <1>2, <1>5 DEF Positions

LEMMA BodyType ==
    ASSUME NEW b \in File, NEW f \in [Positions(b) -> Result],
           NEW i \in Positions(b)
    PROVE  Body(b, f, i) \in Result
<1>1. i \in Nat
  BY DEF Positions
<1>2. Stopped(i) \in Result /\ Refused(i) \in Result
  BY <1>1, StoppedType
<1>3. ASSUME record_at(b, i).whole
      PROVE  Extended(RecordRead(b, i), f[record_at(b, i).next]) \in Result
  <2>1. RecordRead(b, i) \in Record /\ record_at(b, i).next \in Positions(b)
    BY <1>3, RecordReadType
  <2>2. f[record_at(b, i).next] \in Result
    BY <2>1
  <2>. QED
    BY <2>1, <2>2, ExtendedType
<1>. QED
  BY <1>2, <1>3 DEF Body

LEMMA BodyLocal ==
    ASSUME NEW b \in File, NEW i \in Positions(b), NEW f, NEW g,
           \A j \in (i + 1)..(Len(b) + 1) : f[j] = g[j]
    PROVE  Body(b, f, i) = Body(b, g, i)
<1>1. ASSUME record_at(b, i).whole
      PROVE  f[record_at(b, i).next] = g[record_at(b, i).next]
  BY <1>1, RecordReadType
<1>. QED
  BY <1>1 DEF Body

LEMMA Solvable ==
    ASSUME NEW b \in File
    PROVE  \E f \in [Positions(b) -> Result] : Solves(b, f)
<1>. DEFINE n == Len(b) + 1
            From(f, i) == \A j \in i..n : f[j] = Body(b, f, j)
            S == {i \in 1..n : \E f \in [Positions(b) -> Result] : From(f, i)}
<1>1. n \in Nat /\ Positions(b) = 1..n /\ 1 \in 1..n
  BY DEF Positions, File
<1>2. ASSUME NEW i \in 1..n, \A j \in (i + 1)..n : j \in S
      PROVE  i \in S
  <2>1. PICK f \in [Positions(b) -> Result] : From(f, i + 1)
    <3>1. CASE i = n
      <4>1. Stopped(1) \in Result
        BY StoppedType
      <4>2. [j \in Positions(b) |-> Stopped(1)] \in [Positions(b) -> Result]
        BY <4>1
      <4>3. (i + 1)..n = {}
        BY <1>1, <3>1
      <4>. QED
        BY <4>2, <4>3
    <3>2. CASE i # n
      <4>1. i + 1 \in (i + 1)..n
        BY <1>1, <3>2
      <4>. QED
        BY <4>1, <1>2
    <3>. QED
      BY <3>1, <3>2
  <2>. DEFINE g == [f EXCEPT ![i] = Body(b, f, i)]
  <2>2. i \in Positions(b)
    BY <1>1
  <2>3. Body(b, f, i) \in Result
    BY <2>2, BodyType
  <2>4. g \in [Positions(b) -> Result]
    BY <2>3
  <2>5. g[i] = Body(b, f, i) /\ \A j \in (i + 1)..n : g[j] = f[j]
    BY <1>1, <2>2
  <2>. HIDE DEF g
  <2>6. ASSUME NEW j \in i..n PROVE g[j] = Body(b, g, j)
    <3>1. j \in Positions(b) /\ \A k \in (j + 1)..n : k \in (i + 1)..n
      BY <1>1
    <3>2. Body(b, g, j) = Body(b, f, j)
      BY <2>5, <3>1, BodyLocal
    <3>3. CASE j = i
      BY <2>5, <3>2, <3>3
    <3>4. CASE j # i
      <4>1. j \in (i + 1)..n
        BY <1>1, <3>4
      <4>. QED
        BY <2>1, <2>5, <3>2, <4>1
    <3>. QED
      BY <3>3, <3>4
  <2>7. From(g, i)
    BY <2>6
  <2>. QED
    BY <2>4, <2>7
<1>3. 1..n \subseteq S
  <2>. HIDE DEF n, S
  <2>. QED
    BY <1>1, <1>2, Backwards
<1>4. PICK f \in [Positions(b) -> Result] : From(f, 1)
  BY <1>1, <1>3
<1>5. \A i \in Positions(b) : f[i] = Body(b, f, i)
  BY <1>1, <1>4
<1>6. f = [i \in Positions(b) |-> f[i]]
  OBVIOUS
<1>. QED
  BY <1>5, <1>6 DEF Solves

LEMMA RecoverSolves ==
    ASSUME NEW b \in File
    PROVE  Solves(b, recover_from(b))
<1>1. recover_from(b) = CHOOSE f : Solves(b, f)
  BY DEF recover_from, Solves, Body, Stopped, Refused, Extended, RecordRead, Known,
         Positions
<1>2. \E f : Solves(b, f)
  BY Solvable
<1>. QED
  BY <1>1, <1>2, Zenon

LEMMA RecoverStep ==
    ASSUME NEW b \in File, NEW i \in Positions(b)
    PROVE  recover_from(b)[i] = Body(b, recover_from(b), i)
<1>. DEFINE f == recover_from(b)
<1>1. Solves(b, f)
  BY RecoverSolves
<1>. HIDE DEF f
<1>2. f[i] = Body(b, f, i)
  BY <1>1 DEF Solves
<1>. QED
  BY <1>2 DEF f

\* The three ways recovery goes on at a position.
LEMMA RecoverCases ==
    ASSUME NEW b \in File, NEW i \in Positions(b)
    PROVE  /\ ~record_at(b, i).whole => recover_from(b)[i] = Stopped(i)
           /\ record_at(b, i).whole /\ ~Known(b, i) =>
                recover_from(b)[i] = Refused(i)
           /\ record_at(b, i).whole /\ Known(b, i) =>
                recover_from(b)[i] = Extended(RecordRead(b, i),
                                       recover_from(b)[record_at(b, i).next])
BY RecoverStep DEF Body

LEMMA RecoverType ==
    ASSUME NEW b \in File
    PROVE  \A i \in Positions(b) : /\ recover_from(b)[i] \in Result
                                  /\ recover_from(b)[i].end \in i..(Len(b) + 1)
<1>. DEFINE n == Len(b) + 1
            f == recover_from(b)
            S == {i \in 1..n : f[i] \in Result /\ f[i].end \in i..n}
<1>1. n \in Nat /\ Positions(b) = 1..n
  BY DEF Positions, File
<1>2. ASSUME NEW i \in 1..n, \A j \in (i + 1)..n : j \in S
      PROVE  i \in S
  <2>1. i \in Nat /\ i \in Positions(b) /\ i \in i..n
    BY <1>1
  <2>2. Stopped(i) \in Result /\ Refused(i) \in Result
    BY <2>1, StoppedType
  <2>3. Stopped(i).end = i /\ Refused(i).end = i
    BY StopFields
  <2>4. CASE record_at(b, i).whole /\ Known(b, i)
    <3>. DEFINE k == record_at(b, i).next
    <3>1. RecordRead(b, i) \in Record /\ k \in (i + 1)..n
      BY <2>1, <2>4, RecordReadType
    <3>2. f[k] \in Result /\ f[k].end \in k..n
      BY <1>2, <3>1
    <3>3. f[i] = Extended(RecordRead(b, i), f[k])
      BY <2>1, <2>4, RecoverCases
    <3>. HIDE DEF k, f, n
    <3>4. f[i] \in Result /\ f[i].end = f[k].end
      BY <3>1, <3>2, <3>3, ExtendedType
    <3>5. f[i].end \in i..n
      BY <1>1, <3>1, <3>2, <3>4
    <3>. QED
      BY <3>4, <3>5
  <2>5. CASE ~(record_at(b, i).whole /\ Known(b, i))
    <3>1. f[i] = Stopped(i) \/ f[i] = Refused(i)
      BY <2>1, <2>5, RecoverCases
    <3>. HIDE DEF f, n
    <3>. QED
      BY <2>1, <2>2, <2>3, <3>1
  <2>. QED
    BY <2>4, <2>5
<1>. HIDE DEF S, f, n
<1>3. 1..n \subseteq S
  BY <1>1, <1>2, Backwards
<1>. QED
  BY <1>1, <1>3 DEF S, f, n

\* Behind a log x, recovery of y goes as it does on y alone.
LEMMA RecoverShifted ==
    ASSUME NEW x \in File, NEW y \in File
    PROVE  \A i \in Positions(y) :
             LET g == recover_from(x \o y)[Len(x) + i]
                 h == recover_from(y)[i]
             IN  /\ g.records = h.records
                 /\ g.corrupt <=> h.corrupt
                 /\ g.end = Len(x) + h.end
<1>. DEFINE z == x \o y
            n == Len(y) + 1
            g(i) == recover_from(z)[Len(x) + i]
            h(i) == recover_from(y)[i]
            Same(i) == /\ g(i).records = h(i).records
                       /\ g(i).corrupt <=> h(i).corrupt
                       /\ g(i).end = Len(x) + h(i).end
            S == {i \in 1..n : Same(i)}
<1>1. /\ n \in Nat /\ Positions(y) = 1..n /\ Len(x) \in Nat
      /\ z \in File /\ Len(z) = Len(x) + Len(y)
  BY ConcatProperties DEF Positions, File
<1>2. ASSUME NEW i \in 1..n, \A j \in (i + 1)..n : j \in S
      PROVE  i \in S
  <2>1. i \in Nat \ {0} /\ i \in Positions(y) /\ Len(x) + i \in Positions(z)
    BY <1>1 DEF Positions
  <2>2. /\ record_at(z, Len(x) + i).whole = record_at(y, i).whole
        /\ record_at(z, Len(x) + i).key = record_at(y, i).key
        /\ record_at(z, Len(x) + i).value = record_at(y, i).value
        /\ record_at(z, Len(x) + i).next = Len(x) + record_at(y, i).next
    BY <2>1, RecordShifted
  <2>3. CASE ~record_at(y, i).whole
    <3>1. g(i) = Stopped(Len(x) + i) /\ h(i) = Stopped(i)
      BY <1>1, <2>1, <2>2, <2>3, RecoverCases
    <3>. HIDE DEF g, h
    <3>2. Same(i)
      BY <3>1, StopFields
    <3>. QED
      BY <3>2
  <2>4. CASE record_at(y, i).whole
    <3>1. i <= Len(y)
      BY <2>1, <2>4, RecordReadType
    <3>2. z[Len(x) + i] = y[i]
      BY <3>1, <2>1 DEF File
    <3>3. Known(z, Len(x) + i) = Known(y, i)
      BY <3>2 DEF Known
    <3>4. RecordRead(z, Len(x) + i) = RecordRead(y, i)
      BY <2>2, <3>2 DEF RecordRead
    <3>5. CASE ~Known(y, i)
      <4>1. g(i) = Refused(Len(x) + i) /\ h(i) = Refused(i)
        BY <1>1, <2>1, <2>2, <2>4, <3>3, <3>5, RecoverCases
      <4>. HIDE DEF g, h
      <4>2. Same(i)
        BY <4>1, StopFields
      <4>. QED
        BY <4>2
    <3>6. CASE Known(y, i)
      <4>. DEFINE k == record_at(y, i).next
      <4>1. k \in (i + 1)..n /\ k \in Positions(y)
        BY <2>1, <2>4, RecordReadType
      <4>2. Same(k)
        BY <1>2, <4>1
      <4>3. g(i) = Extended(RecordRead(y, i), g(k))
        BY <1>1, <2>1, <2>2, <2>4, <3>3, <3>4, <3>6, RecoverCases
      <4>4. h(i) = Extended(RecordRead(y, i), h(k))
        BY <2>1, <2>4, <3>6, RecoverCases
      <4>. HIDE DEF k
      <4>5. PICK gk, hk, r :
              /\ gk.records = hk.records
              /\ gk.corrupt <=> hk.corrupt
              /\ gk.end = Len(x) + hk.end
              /\ g(i) = Extended(r, gk) /\ h(i) = Extended(r, hk)
        BY <4>2, <4>3, <4>4, Zenon
      <4>. HIDE DEF g, h
      <4>6. /\ Extended(r, gk).records = Extended(r, hk).records
            /\ Extended(r, gk).corrupt <=> Extended(r, hk).corrupt
            /\ Extended(r, gk).end = Len(x) + Extended(r, hk).end
        BY <4>5, ExtendedAlike
      <4>7. Same(i)
        BY <4>5, <4>6
      <4>. QED
        BY <4>7
    <3>. QED
      BY <3>5, <3>6
  <2>. QED
    BY <2>3, <2>4
<1>. HIDE DEF S, n
<1>3. 1..n \subseteq S
  BY <1>1, <1>2, Backwards
<1>. QED
  BY <1>1, <1>3 DEF S

\* A log of whole records of known types.
Clean(b) == recover(b).end = Len(b) + 1 /\ ~recover(b).corrupt

\* What is appended to such a log is recovered behind what was there.
LEMMA RecoverExtended ==
    ASSUME NEW x \in File, NEW y \in File, Clean(x)
    PROVE  /\ recover(x \o y).records = recover(x).records \o recover(y).records
           /\ recover(x \o y).corrupt <=> recover(y).corrupt
           /\ recover(x \o y).end = Len(x) + recover(y).end
<1>. DEFINE z == x \o y
            n == Len(x) + 1
            F == recover_from(x)
            G == recover_from(z)
            h == recover(y)
            Done(i) == F[i].end = n /\ ~F[i].corrupt
            Joined(i) == /\ G[i].records = F[i].records \o h.records
                         /\ G[i].corrupt <=> h.corrupt
                         /\ G[i].end = Len(x) + h.end
            S == {i \in 1..n : Done(i) => Joined(i)}
<1>1. /\ n \in Nat /\ 1 \in 1..n /\ Positions(x) = 1..n /\ Len(x) \in Nat
      /\ z \in File /\ Len(z) = Len(x) + Len(y) /\ Len(y) \in Nat
      /\ 1 \in Positions(y)
  BY ConcatProperties DEF Positions, File
<1>2. \A i \in 1..n : i \in Positions(z) /\ i \in Nat \ {0}
  BY <1>1 DEF Positions
<1>3. h \in Result /\ \A i \in 1..n : F[i] \in Result
  BY <1>1, RecoverType DEF recover
<1>4. /\ G[n].records = h.records
      /\ G[n].corrupt <=> h.corrupt
      /\ G[n].end = Len(x) + h.end
  BY <1>1, RecoverShifted DEF recover
<1>5. ASSUME NEW i \in 1..n, \A j \in (i + 1)..n : j \in S
      PROVE  i \in S
  <2>1. SUFFICES ASSUME Done(i) PROVE Joined(i)
    OBVIOUS
  <2>2. CASE ~record_at(x, i).whole
    <3>1. F[i] = Stopped(i)
      BY <1>1, <2>2, RecoverCases
    <3>. HIDE DEF F, G, h
    <3>2. i = n /\ F[i].records = <<>>
      BY <2>1, <3>1, StopFields
    <3>3. F[i].records \o h.records = h.records
      <4>1. h.records \in Seq(Record)
        BY <1>3 DEF Result
      <4>. QED
        BY <3>2, <4>1, ConcatEmptySeq
    <3>. HIDE DEF n
    <3>. QED
      BY <1>4, <3>2, <3>3
  <2>3. CASE record_at(x, i).whole /\ ~Known(x, i)
    <3>1. F[i] = Refused(i)
      BY <1>1, <2>3, RecoverCases
    <3>. HIDE DEF F
    <3>. QED
      BY <2>1, <3>1, StopFields
  <2>4. CASE record_at(x, i).whole /\ Known(x, i)
    <3>. DEFINE k == record_at(x, i).next
                r == RecordRead(x, i)
    <3>1. r \in Record /\ k \in (i + 1)..n /\ k \in 1..n
      BY <1>1, <2>4, RecordReadType
    <3>2. /\ record_at(z, i).whole /\ record_at(z, i).next = k
          /\ record_at(z, i).key = record_at(x, i).key
          /\ record_at(z, i).value = record_at(x, i).value
      BY <1>2, <2>4, RecordOfPrefix
    <3>3. i \in 1..Len(x)
      BY <1>1, <3>1
    <3>4. z[i] = x[i]
      BY <3>3 DEF File
    <3>5. Known(z, i) /\ RecordRead(z, i) = r
      BY <2>4, <3>2, <3>4 DEF Known, RecordRead
    <3>6. F[i] = Extended(r, F[k])
      BY <1>1, <2>4, RecoverCases
    <3>7. G[i] = Extended(r, G[k])
      BY <1>1, <1>2, <3>2, <3>5, RecoverCases
    <3>. HIDE DEF k, r, F, G, h, n
    <3>8. Done(k)
      BY <2>1, <3>6, ExtendedFields
    <3>9. Joined(k)
      BY <1>5, <3>1, <3>8
    <3>10. /\ F[i].records = <<r>> \o F[k].records
           /\ G[i].records = <<r>> \o G[k].records
           /\ G[i].corrupt = G[k].corrupt
           /\ G[i].end = G[k].end
      BY <3>6, <3>7, ExtendedFields, Zenon
    <3>11. /\ h.records \in Seq(Record) /\ F[k].records \in Seq(Record)
           /\ <<r>> \in Seq(Record)
      BY <1>3, <3>1 DEF Result
    <3>12. (<<r>> \o F[k].records) \o h.records
             = <<r>> \o (F[k].records \o h.records)
      <4>1. \A s, t, u \in Seq(Record) : (s \o t) \o u = s \o (t \o u)
        BY ConcatAssociative
      <4>. QED
        BY <3>11, <4>1, Zenon
    <3>. QED
      BY <3>9, <3>10, <3>12, Zenon
  <2>. QED
    BY <2>2, <2>3, <2>4
<1>6. 1..n \subseteq S
  <2>. HIDE DEF n, S
  <2>. QED
    BY <1>1, <1>5, Backwards
<1>7. Joined(1)
  <2>1. Done(1)
    BY DEF Clean, recover
  <2>. HIDE DEF F, G, h, n
  <2>. QED
    BY <1>1, <1>6, <2>1
<1>. QED
  BY <1>7 DEF recover
-----------------------------------------------------------------------------
(***************************************************************************)
(* A log of one record, and what is left when it is cut off.               *)
(***************************************************************************)
\* A length below 2^32 survives the conversion to u32 and its four bytes.
Limit == 65536 * 65536

LEMMA LengthRoundTrip ==
    ASSUME NEW n \in Nat
    PROVE  LET h == to_le_bytes(n) IN
           /\ h \in File /\ Len(h) = 4
           /\ n < Limit => Number(h[1], h[2], h[3], h[4]) = n
<1>1. /\ n % 256 \in Nat /\ (n \div 256) % 256 \in Nat
      /\ (n \div 65536) % 256 \in Nat /\ (n \div 16777216) % 256 \in Nat
  BY SMT
<1>2. ASSUME n < Limit
      PROVE  Number(n % 256, (n \div 256) % 256, (n \div 65536) % 256,
                    (n \div 16777216) % 256) = n
  BY <1>2, SMT DEF Number, Limit
<1>3. PICK b1, b2, b3, b4 \in Nat :
        /\ to_le_bytes(n) = <<b1, b2, b3, b4>>
        /\ n < Limit => Number(b1, b2, b3, b4) = n
  BY <1>1, <1>2, SMT DEF to_le_bytes
<1>. QED
  BY <1>3, SMT DEF File

\* A field as append_put and append_delete write it.
Field(d) == to_le_bytes(Len(d)) \o d

LEMMA FieldRoundTrip ==
    ASSUME NEW d \in File, Len(d) < Limit
    PROVE  /\ Field(d) \in File /\ Len(Field(d)) = Len(d) + 4
           /\ read_length_prefixed(Field(d), 1).ok
           /\ read_length_prefixed(Field(d), 1).data = d
           /\ read_length_prefixed(Field(d), 1).next = Len(d) + 5
<1>. DEFINE h == to_le_bytes(Len(d))
            b == Field(d)
            n == Len(d)
<1>1. n \in Nat /\ h \in File /\ Len(h) = 4
  BY LengthRoundTrip DEF File
<1>2. /\ b \in File /\ Len(b) = n + 4
      /\ \A i \in 1..4 : b[i] = h[i]
      /\ \A i \in 1..n : b[4 + i] = d[i]
  <2>1. b = h \o d
    BY DEF Field
  <2>. HIDE DEF h, b
  <2>2. /\ h \o d \in File /\ Len(h \o d) = Len(h) + Len(d)
        /\ \A i \in 1..Len(h) : (h \o d)[i] = h[i]
        /\ \A i \in 1..Len(d) : (h \o d)[Len(h) + i] = d[i]
    BY <1>1, Concatenation, Zenon
  <2>3. Len(h) + Len(d) = n + 4
    BY <1>1
  <2>. HIDE DEF n
  <2>. QED
    BY <1>1, <2>1, <2>2, <2>3, Zenon DEF n
<1>3. Number(h[1], h[2], h[3], h[4]) = n
  BY <1>1, LengthRoundTrip
<1>. HIDE DEF h, b, n
<1>4. b[1] = h[1] /\ b[2] = h[2] /\ b[3] = h[3] /\ b[4] = h[4]
  BY <1>2
<1>5. Size(b, 1) = Number(b[1], b[2], b[3], b[4])
  <2>1. 1 \in Nat \ {0} /\ 1 + 3 <= Len(b)
        /\ 1 + 1 = 2 /\ 1 + 2 = 3 /\ 1 + 3 = 4
    BY <1>1, <1>2
  <2>2. Size(b, 1) = Number(b[1], b[1 + 1], b[1 + 2], b[1 + 3])
    BY <1>2, <2>1, SizeOfBytes, Zenon
  <2>. QED
    BY <2>1, <2>2
<1>6. Size(b, 1) = n
  BY <1>3, <1>4, <1>5
<1>7. SubSeq(b, 5, n + 4) = d
  <2>1. \A i \in 5..(n + 4) : b[i] \in Nat
    BY <1>2 DEF File
  <2>2. /\ SubSeq(b, 5, n + 4) \in Seq(Nat)
        /\ Len(SubSeq(b, 5, n + 4)) = n
        /\ \A i \in 1..n : SubSeq(b, 5, n + 4)[i] = b[i + 4]
    BY <1>1, <2>1, SubSeqProperties
  <2>3. \A i \in 1..n : b[i + 4] = d[i]
    BY <1>1, <1>2
  <2>4. Len(d) = n /\ d \in Seq(Nat)
    BY DEF File, n
  <2>. QED
    BY <2>2, <2>3, <2>4, SeqEqual
<1>8. /\ 1 + 3 + n <= Len(b) /\ 1 + 4 = 5 /\ 1 + 3 + n = n + 4
      /\ 1 + 4 + n = n + 5
  BY <1>1, <1>2
<1>9. /\ read_length_prefixed(b, 1).ok
      /\ read_length_prefixed(b, 1).next = n + 5
      /\ read_length_prefixed(b, 1).data = d
  <2>1. /\ read_length_prefixed(b, 1).ok = (1 + 3 + n <= Len(b))
        /\ read_length_prefixed(b, 1).next = 1 + 4 + n
        /\ read_length_prefixed(b, 1).data =
             IF 1 + 3 + n <= Len(b) THEN SubSeq(b, 1 + 4, 1 + 3 + n) ELSE <<>>
    BY <1>2, <1>6, ReadField, 1 \in Nat \ {0}, Zenon
  <2>. QED
    BY <1>7, <1>8, <2>1
<1>. QED
  BY <1>2, <1>9 DEF b, n

\* A record of type t as it is written.
Written(t, key, value) == <<t>> \o (Field(key) \o Field(value))

\* b is such a record, as recovery sees it.
IsRecord(b, t, key, value) ==
    /\ b \in File /\ Len(b) = Len(key) + Len(value) + 9 /\ b[1] = t
    /\ record_at(b, 1).whole /\ record_at(b, 1).next = Len(b) + 1
    /\ record_at(b, 1).key = key /\ record_at(b, 1).value = value

LEMMA WrittenRecord ==
    \A t \in Nat : \A key, value \in File :
      Len(key) < Limit /\ Len(value) < Limit =>
        IsRecord(Written(t, key, value), t, key, value)
<1>. TAKE t \in Nat
<1>. TAKE key, value \in File
<1>. HAVE Len(key) < Limit /\ Len(value) < Limit
<1>. DEFINE b == Written(t, key, value)
            fk == Field(key)
            fv == Field(value)
<1>1. /\ fk \in File /\ Len(fk) = Len(key) + 4
      /\ fv \in File /\ Len(fv) = Len(value) + 4
      /\ Len(key) \in Nat /\ Len(value) \in Nat
  BY FieldRoundTrip DEF File
<1>2. read_length_prefixed(fk, 1).ok /\ read_length_prefixed(fk, 1).data = key
      /\ read_length_prefixed(fk, 1).next = Len(key) + 5
  BY FieldRoundTrip
<1>3. read_length_prefixed(fv, 1).ok /\ read_length_prefixed(fv, 1).data = value
      /\ read_length_prefixed(fv, 1).next = Len(value) + 5
  BY FieldRoundTrip
<1>. HIDE DEF fk, fv
<1>. DEFINE s == <<t>>
<1>13. s \in File /\ Len(s) = 1 /\ s[1] = t
  BY DEF File
<1>5. b = s \o (fk \o fv)
  BY DEF Written, fk, fv
<1>. HIDE DEF s
<1>4. fk \o fv \in File /\ s \o fk \in File /\ Len(s \o fk) = Len(key) + 5
  <2>. HIDE DEF b
  <2>1. /\ fk \o fv \in File /\ s \o fk \in File
        /\ Len(s \o fk) = Len(s) + Len(fk)
    BY <1>1, <1>13, Concatenation, Zenon
  <2>. QED
    BY <1>1, <1>13, <2>1
<1>. HIDE DEF b
<1>. DEFINE x == s \o fk
<1>6. b = x \o fv
  BY <1>1, <1>13, <1>4, <1>5, Association, Zenon
<1>7. Len(x) = Len(key) + 5 /\ x \in File
  BY <1>4
<1>. HIDE DEF x
<1>8. b \in File /\ Len(b) = Len(key) + Len(value) + 9 /\ b[1] = t
  <2>1. b \in File /\ Len(b) = Len(x) + Len(fv)
    BY <1>1, <1>6, <1>7, Concatenation, Zenon
  <2>2. 1 \in 1..Len(s)
    BY <1>13
  <2>3. b[1] = s[1]
    BY <1>13, <1>4, <1>5, <2>2, Concatenation, Zenon
  <2>. QED
    BY <1>1, <1>13, <1>7, <2>1, <2>3
<1>9. LET f == read_length_prefixed(b, 1 + 1) IN
      f.ok /\ f.data = key /\ f.next = Len(key) + 6
  <2>1. LET f == read_length_prefixed(fk \o fv, 1) IN
        f.ok /\ f.data = key /\ f.next = Len(key) + 5
    BY <1>1, <1>2, FieldOfPrefix, 1 \in Nat \ {0}, Zenon
  <2>2. LET f == read_length_prefixed(fk \o fv, 1)
            g == read_length_prefixed(s \o (fk \o fv), Len(s) + 1)
        IN  g.ok = f.ok /\ g.next = Len(s) + f.next /\ g.data = f.data
    BY <1>13, <1>4, FieldShifted, 1 \in Nat \ {0}, Zenon
  <2>3. 1 + (Len(key) + 5) = Len(key) + 6
    BY <1>1
  <2>. QED
    BY <1>13, <1>5, <2>1, <2>2, <2>3, Zenon
<1>10. LET f == read_length_prefixed(b, Len(key) + 6) IN
      f.ok /\ f.data = value /\ f.next = Len(key) + Len(value) + 10
  <2>1. LET f == read_length_prefixed(fv, 1)
            g == read_length_prefixed(x \o fv, Len(x) + 1)
        IN  g.ok = f.ok /\ g.next = Len(x) + f.next /\ g.data = f.data
    BY <1>1, <1>7, FieldShifted, 1 \in Nat \ {0}, Zenon
  <2>2. Len(x) + 1 = Len(key) + 6
        /\ Len(x) + (Len(value) + 5) = Len(key) + Len(value) + 10
    BY <1>1, <1>7
  <2>. QED
    BY <1>3, <1>6, <2>1, <2>2, Zenon
<1>11. /\ record_at(b, 1).whole
       /\ record_at(b, 1).key = key /\ record_at(b, 1).value = value
       /\ record_at(b, 1).next = Len(key) + Len(value) + 10
  BY <1>9, <1>10 DEF record_at
<1>12. Len(key) + Len(value) + 10 = Len(key) + Len(value) + 9 + 1
  BY <1>1
<1>14. IsRecord(b, t, key, value)
  BY <1>8, <1>11, <1>12 DEF IsRecord
<1>. QED
  BY <1>14 DEF b

\* What recovery makes of a record and of what is left of one that is cut off.
Entry(t, key, value) == [key |-> key, val |-> IF t = RECORD_PUT THEN value ELSE <<>>]
Recovered(b, r) ==
    /\ b \in File
    /\ Clean(b) /\ recover(b).records = <<r>>
    /\ \A n \in 0..(Len(b) - 1) :
         LET cut == recover(SubSeq(b, 1, n)) IN cut.records = <<>> /\ ~cut.corrupt

LEMMA WrittenRecovered ==
    ASSUME NEW t \in {RECORD_PUT, RECORD_DELETE},
           NEW key \in File, NEW value \in File,
           Len(key) < Limit, Len(value) < Limit
    PROVE  Recovered(Written(t, key, value), Entry(t, key, value))
<1>. DEFINE b == Written(t, key, value)
            e == Entry(t, key, value)
            F == recover_from(b)
            n == Len(b) + 1
<1>1. t \in Nat
  BY DEF RECORD_PUT, RECORD_DELETE
<1>. HIDE DEF F, e
<1>2. /\ b \in File /\ Len(b) = Len(key) + Len(value) + 9 /\ b[1] = t
      /\ record_at(b, 1).whole /\ record_at(b, 1).next = n
      /\ record_at(b, 1).key = key /\ record_at(b, 1).value = value
  <2>. HIDE DEF n
  <2>1. IsRecord(b, t, key, value)
    BY <1>1, WrittenRecord
  <2>. HIDE DEF b
  <2>. QED
    BY <2>1 DEF IsRecord, n
<1>3. RecordRead(b, 1) = e /\ Known(b, 1)
  <2>. HIDE DEF b
  <2>. QED
    BY <1>2 DEF RecordRead, Known, Entry, e
<1>. USE DEF F, e
<1>. HIDE DEF b
<1>4. n \in Nat /\ 1 \in Positions(b) /\ n \in Positions(b) /\ Len(b) \in Nat
  BY <1>2 DEF Positions, File
<1>5. F[1] = Extended(e, F[n])
  BY <1>2, <1>3, <1>4, RecoverCases
<1>6. F[n] = Stopped(n)
  <2>1. ~record_at(b, n).whole
    <3>1. SUFFICES ASSUME record_at(b, n).whole PROVE FALSE
      OBVIOUS
    <3>2. record_at(b, n).next \in (n + 1)..(Len(b) + 1)
      BY <1>2, <1>4, <3>1, RecordReadType
    <3>. QED
      BY <1>4, <3>2
  <2>. QED
    BY <1>2, <1>4, <2>1, RecoverCases
<1>7. Clean(b) /\ recover(b).records = <<e>>
  <2>. DEFINE s == <<e>>
  <2>1. s \o <<>> = s
    <3>1. s \in Seq({e})
      OBVIOUS
    <3>. HIDE DEF s
    <3>. QED
      BY <3>1, ConcatEmptySeq
  <2>. HIDE DEF F, n, e
  <2>2. F[n].records = <<>> /\ F[n].end = n /\ ~F[n].corrupt
    BY <1>6, StopFields
  <2>3. /\ F[1].records = s \o F[n].records /\ F[1].end = F[n].end
        /\ F[1].corrupt = F[n].corrupt
    BY <1>5, ExtendedFields, Zenon
  <2>. HIDE DEF s
  <2>4. F[1].records = s /\ F[1].end = n /\ ~F[1].corrupt
    BY <2>1, <2>2, <2>3, Zenon
  <2>. QED
    BY <2>4 DEF Clean, recover, F, n, s
<1>8. ASSUME NEW m \in 0..(Len(b) - 1)
      PROVE  LET cut == recover(SubSeq(b, 1, m)) IN
             cut.records = <<>> /\ ~cut.corrupt
  <2>. DEFINE p == SubSeq(b, 1, m)
              q == SubSeq(b, m + 1, Len(b))
  <2>1. p \in File /\ q \in File /\ Len(p) = m
    <3>1. \A i \in 1..Len(b) : b[i] \in Nat
      BY <1>2, BytesOfFile, Zenon
    <3>2. \A i \in 1..m : b[i] \in Nat
      BY <1>4, <3>1
    <3>3. \A i \in (m + 1)..Len(b) : b[i] \in Nat
      BY <1>4, <3>1
    <3>4. 1 \in Int /\ m \in Int /\ m + 1 \in Int /\ Len(b) \in Int
      BY <1>4
    <3>5. p \in Seq(Nat) /\ Len(p) = IF 1 <= m THEN m - 1 + 1 ELSE 0
      BY <3>2, <3>4, SubSeqProperties
    <3>6. q \in Seq(Nat)
      BY <3>3, <3>4, SubSeqProperties
    <3>7. (IF 1 <= m THEN m - 1 + 1 ELSE 0) = m
      OBVIOUS
    <3>. QED
      BY <3>5, <3>6, <3>7 DEF File
  <2>2. b = p \o q
    <3>1. b \in Seq(Nat) /\ 1 \in 1..(Len(b) + 1) /\ m \in (1 - 1)..Len(b)
          /\ Len(b) \in m..Len(b)
      BY <1>2, <1>4 DEF File
    <3>2. SubSeq(b, 1, m) \o SubSeq(b, m + 1, Len(b)) = SubSeq(b, 1, Len(b))
      BY <3>1, ConcatAdjacentSubSeq
    <3>3. SubSeq(b, 1, Len(b)) = b
      BY <3>1, SubSeqFull
    <3>. QED
      BY <3>2, <3>3
  <2>. HIDE DEF p, q
  <2>3. 1 \in Positions(p)
    BY <2>1 DEF Positions
  <2>4. ~record_at(p, 1).whole
    <3>1. SUFFICES ASSUME record_at(p, 1).whole PROVE FALSE
      OBVIOUS
    <3>2. record_at(p, 1).next \in (1 + 1)..(m + 1)
      BY <2>1, <2>3, <3>1, RecordReadType
    <3>3. record_at(p \o q, 1).next = record_at(p, 1).next
      BY <2>1, <3>1, RecordOfPrefix
    <3>. QED
      BY <1>2, <1>4, <2>2, <3>2, <3>3
  <2>5. recover(p) = Stopped(1)
    BY <2>1, <2>3, <2>4, RecoverCases DEF recover
  <2>. QED
    BY <2>5, StopFields DEF p
<1>. QED
  BY <1>2, <1>7, <1>8 DEF Recovered, b

\* append_put and append_delete write a record.
LEMMA AppendedBytes ==
    ASSUME NEW key \in File, NEW value \in File
    PROVE  /\ append_put(key, value) = Written(RECORD_PUT, key, value)
           /\ append_delete(key) = Written(RECORD_DELETE, key, <<>>)
<1>. DEFINE h(d) == to_le_bytes(Len(d))
            p == <<RECORD_PUT>>
            d == <<RECORD_DELETE>>
<1>1. p \in File /\ d \in File /\ <<>> \in File
  BY DEF File, RECORD_PUT, RECORD_DELETE
<1>2. \A x \in File : h(x) \in File
  BY LengthRoundTrip, BytesOfFile
<1>3. Len(<<>>) = 0 /\ \A x \in File : x \o <<>> = x
  BY ConcatEmptySeq DEF File
<1>4. /\ append_put(key, value) = (((p \o h(key)) \o key) \o h(value)) \o value
      /\ append_delete(key) = ((d \o h(key)) \o key) \o h(<<>>)
  BY <1>3 DEF append_put, append_delete
<1>5. /\ Written(RECORD_PUT, key, value)
           = p \o ((h(key) \o key) \o (h(value) \o value))
      /\ Written(RECORD_DELETE, key, <<>>)
           = d \o ((h(key) \o key) \o (h(<<>>) \o <<>>))
  BY DEF Written, Field
<1>. HIDE DEF h, p, d
<1>6. ASSUME NEW r \in File, NEW x \in File
      PROVE  (((r \o h(key)) \o key) \o h(x)) \o x
               = r \o ((h(key) \o key) \o (h(x) \o x))
  <2>. DEFINE k == h(key)
              l == h(x)
  <2>1. k \in File /\ l \in File
    BY <1>2
  <2>. HIDE DEF k, l
  <2>2. (r \o k) \o key = r \o (k \o key)
    BY <2>1, Association
  <2>3. k \o key \in File /\ r \o (k \o key) \in File
    BY <2>1, Concatenation
  <2>4. ((r \o (k \o key)) \o l) \o x = (r \o (k \o key)) \o (l \o x)
    <3>. DEFINE y == r \o (k \o key)
    <3>1. y \in File
      BY <2>3
    <3>. HIDE DEF y
    <3>2. (y \o l) \o x = y \o (l \o x)
      BY <2>1, <3>1, Association, Zenon
    <3>. QED
      BY <3>2 DEF y
  <2>5. l \o x \in File
    BY <2>1, Concatenation
  <2>6. (r \o (k \o key)) \o (l \o x) = r \o ((k \o key) \o (l \o x))
    BY <2>3, <2>5, Association
  <2>. QED
    BY <2>2, <2>4, <2>6 DEF k, l
<1>7. /\ (d \o h(key)) \o key \in File /\ h(<<>>) \in File
      /\ ((d \o h(key)) \o key) \o h(<<>>) \in File
  BY <1>1, <1>2, Concatenation, Zenon
<1>8. (((d \o h(key)) \o key) \o h(<<>>)) \o <<>>
        = ((d \o h(key)) \o key) \o h(<<>>)
  BY <1>3, <1>7, Zenon
<1>. QED
  BY <1>1, <1>4, <1>5, <1>6, <1>8, Zenon

(***************************************************************************)
(* append_put, recovered: the record is read back with its key and its     *)
(* value, of any length that fits in four bytes, and if it was cut off     *)
(* anywhere recovery finds no record and no error.                         *)
(***************************************************************************)
THEOREM PutRecovered ==
    ASSUME NEW key \in File, NEW value \in File,
           Len(key) < Limit, Len(value) < Limit
    PROVE  Recovered(append_put(key, value), [key |-> key, val |-> value])
<1>1. Entry(RECORD_PUT, key, value) = [key |-> key, val |-> value]
  BY DEF Entry
<1>2. Recovered(Written(RECORD_PUT, key, value), Entry(RECORD_PUT, key, value))
  BY WrittenRecovered
<1>. QED
  BY <1>1, <1>2, AppendedBytes

(***************************************************************************)
(* append_delete, recovered: the same, with the empty value of a           *)
(* tombstone.                                                              *)
(***************************************************************************)
THEOREM DeleteRecovered ==
    ASSUME NEW key \in File, Len(key) < Limit
    PROVE  Recovered(append_delete(key), [key |-> key, val |-> <<>>])
<1>1. Entry(RECORD_DELETE, key, <<>>) = [key |-> key, val |-> <<>>]
  BY DEF Entry
<1>2. <<>> \in File /\ Len(<<>>) < Limit
  BY SMT DEF File, Limit
<1>3. Recovered(Written(RECORD_DELETE, key, <<>>), Entry(RECORD_DELETE, key, <<>>))
  BY <1>2, WrittenRecovered
<1>. QED
  BY <1>1, <1>2, <1>3, AppendedBytes

(***************************************************************************)
(* An empty log has no records.                                            *)
(***************************************************************************)
LEMMA EmptyLogClean ==
    <<>> \in File /\ Clean(<<>>) /\ recover(<<>>).records = <<>>
<1>. DEFINE b == <<>>
<1>1. b \in File /\ Len(b) = 0 /\ 1 \in Positions(b)
  BY DEF File, Positions
<1>. HIDE DEF b
<1>2. ~record_at(b, 1).whole
  <2>1. SUFFICES ASSUME record_at(b, 1).whole PROVE FALSE
    OBVIOUS
  <2>2. record_at(b, 1).next \in (1 + 1)..(0 + 1)
    BY <1>1, <2>1, RecordReadType
  <2>. QED
    BY <2>2
<1>3. recover(b) = Stopped(1)
  BY <1>1, <1>2, RecoverCases DEF recover
<1>4. Clean(b) /\ recover(b).records = <<>>
  BY <1>1, <1>3, StopFields DEF Clean
<1>. QED
  BY <1>1, <1>4 DEF b
=============================================================================
