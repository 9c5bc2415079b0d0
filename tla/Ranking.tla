------------------------------ MODULE Ranking ------------------------------
(***************************************************************************)
(* Python's slices, filtered lists and its sorted(), which is stable: what *)
(* of a list is kept stays in order, and among equals the first one is     *)
(* first. (SortSeq does not define the order of a list with equals.) A     *)
(* score or a key is a function of the positions in the list.              *)
(***************************************************************************)
EXTENDS Integers, FiniteSets, Sequences

\* The first n of a list: Python's list[:n].
Top(list, n) == SubSeq(list, 1, IF n < Len(list) THEN n ELSE Len(list))

\* Of positions with a score: those that come no later than i.
NoLater(positions, score, i) ==
    {j \in positions : score[j] > score[i] \/ (score[j] = score[i] /\ j <= i)}

\* The positions, the one with the highest score first.
Ranked(positions, score) ==
    LET rank == [i \in positions |-> Cardinality(NoLater(positions, score, i))]
    IN  [n \in 1..Cardinality(positions) |-> CHOOSE i \in positions : rank[i] = n]

Arrange(list, order) == [n \in DOMAIN order |-> list[order[n]]]

Filtered(list, positions) == Arrange(list, Ranked(positions, [i \in positions |-> 0]))

\* The first item of each key.
FirstOfEach(list, key) == Filtered(list, {i \in DOMAIN list : \A j \in DOMAIN list : j < i => key[j] # key[i]})

Sorted(list, score) == Arrange(list, Ranked(DOMAIN list, score))
=============================================================================
