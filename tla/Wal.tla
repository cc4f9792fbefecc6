-------------------------------- MODULE Wal --------------------------------
(***************************************************************************)
(* The format of the write-ahead log (scry-lsm/src/wal.rs), byte by byte:  *)
(* what an append writes, and what Wal::recover makes of any bytes it      *)
(* finds, the rest of a record that a crash cut off included.              *)
(*   [type: u8][key_len: u32 LE][key][value_len: u32 LE][value]            *)
(* A key and a value are sequences of bytes.                               *)
(***************************************************************************)
EXTENDS Integers, Sequences

RECORD_PUT == 1
RECORD_DELETE == 2

to_le_bytes(n)   == <<n % 256, (n \div 256) % 256, (n \div 65536) % 256,
                      (n \div 16777216) % 256>>
from_le_bytes(b) == b[1] + 256 * b[2] + 65536 * b[3] + 16777216 * b[4]

append_put(key, value) ==
    <<RECORD_PUT>> \o to_le_bytes(Len(key)) \o key
      \o to_le_bytes(Len(value)) \o value
append_delete(key) ==
    <<RECORD_DELETE>> \o to_le_bytes(Len(key)) \o key \o to_le_bytes(0)

\* The data behind the length at position i, and the position after it; not ok
\* if the file ends before.
ReadSome(b, i) == \* takes what is there
    LET n   == IF i + 3 <= Len(b) THEN from_le_bytes(SubSeq(b, i, i + 3)) ELSE 0
        end == IF i + 3 + n <= Len(b) THEN i + 3 + n ELSE Len(b)
    IN  [ok   |-> i + 3 <= Len(b),
         data |-> IF i + 4 <= end THEN SubSeq(b, i + 4, end) ELSE <<>>,
         next |-> end + 1]
read_length_prefixed(b, i) ==
    LET n   == IF i + 3 <= Len(b) THEN from_le_bytes(SubSeq(b, i, i + 3)) ELSE 0
        end == i + 3 + n
    IN  [ok   |-> end <= Len(b),
         data |-> IF end <= Len(b) THEN SubSeq(b, i + 4, end) ELSE <<>>,
         next |-> end + 1]

\* The record at position i: whether all of it is there, and where it ends.
record_at(b, i) ==
    LET key   == read_length_prefixed(b, i + 1)
        value == read_length_prefixed(b, key.next)
    IN  [whole |-> key.ok /\ value.ok, key |-> key.data, value |-> value.data,
         next  |-> value.next]

\* Wal::recover from a position on: the records up to the first one that is
\* incomplete, where it stopped, and whether it met a complete record of an
\* unknown type, which is the Corruption error.
recover_from(b) ==
    LET from[i \in 1..(Len(b) + 1)] ==
          LET r    == record_at(b, i)
              rest == from[r.next]
              here == [key |-> r.key,
                       val |-> IF b[i] = RECORD_PUT THEN r.value ELSE <<>>]
          IN  IF ~r.whole
              THEN [records |-> <<>>, end |-> i, corrupt |-> FALSE]
              ELSE IF b[i] \notin {RECORD_PUT, RECORD_DELETE}
              THEN [records |-> <<>>, end |-> i, corrupt |-> TRUE]
              ELSE [records |-> <<here>> \o rest.records,
                    end |-> rest.end, corrupt |-> rest.corrupt]
    IN  from
recover(b) == recover_from(b)[1]
=============================================================================
