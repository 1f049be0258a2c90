-------------------------------- MODULE Vec --------------------------------
(***************************************************************************)
(* The operations of Rust's Vec that the layout, the screencopy queues and *)
(* the recent-windows list use, with places counted from 1.                *)
(***************************************************************************)
EXTENDS Naturals, Sequences, FiniteSets, FiniteSetsExt

\* Vec::insert: e at place i, what was there and after it one place further.
insert(s, i, e) == SubSeq(s, 1, i - 1) \o <<e>> \o SubSeq(s, i, Len(s))

\* Vec::remove: what comes after place i moves up.
remove(s, i) == SubSeq(s, 1, i - 1) \o SubSeq(s, i + 1, Len(s))

\* iter().position(): the first of the places that pass the test, 0 for None.
position(places) == IF places = {} THEN 0 ELSE Min(places)

\* How many of the positions in keep come before i.
Rank(keep, i) == Cardinality({k \in keep : k < i})

\* Vec::retain, and the loops that remove elements by index: what q has at
\* the positions in keep, in order. Each goes to its rank.
retain(q, keep) == [j \in 1 .. Cardinality(keep) |-> q[CHOOSE i \in keep : Rank(keep, i) = j - 1]]

=============================================================================
