------------------------------- MODULE MCLsm -------------------------------
(***************************************************************************)
(* Instances of Lsm for TLC: the calls of each client.                     *)
(***************************************************************************)
EXTENDS Lsm

\* The clients.
c1 == 1
c2 == 2

\* Calls.
put(k)     == [op |-> "put", keys |-> <<k>>]
delete(k)  == [op |-> "delete", keys |-> <<k>>]
get(k)     == [op |-> "get", keys |-> <<k>>]
sorted(ks) == [op |-> "ingest_sorted", keys |-> ks]
flush      == NoCall

times(n, s) == [i \in 1..n |-> s]

\* Three tables of fresh keys, which are merged into a level that is not there
\* yet, a batch that is rejected or empty, and then rewrites and deletions of
\* what the merged table holds, at most two tables of them.
PSeq == c1 :> << {put(1), sorted(<<1, 4>>)},
                 {sorted(<<2, 1>>), sorted(<<>>), delete(5), get(1)},
                 {put(2), sorted(<<2, 6>>)},
                 {put(3), sorted(<<3>>)},
                 {put(1), delete(1), delete(2)},
                 {put(1), put(2), delete(4), flush},
                 {delete(1), delete(2), flush, get(4)},
                 {get(1), get(2), get(3), get(4)} >>

\* One client writes and flushes, the other deletes.
PRace == c1 :> << {put(1)}, {put(1), put(2)}, {flush, put(1)},
                  {put(2), get(1)} >>
      @@ c2 :> << {delete(1)}, {delete(1), delete(2), get(1)} >>

\* Writes, flushes and restarts of one client.
PLog == c1 :> times(4, {put(1), put(2), delete(1), flush})

\* Two writes of one key in two tables that are merged.
PMerge == c1 :> << {put(1)}, {put(1)} >>
=============================================================================
