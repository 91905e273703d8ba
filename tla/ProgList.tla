------------------------------ MODULE ProgList ------------------------------
(***************************************************************************)
(* What a multi-program attachment point promises the traffic that runs    *)
(* through it: a duplicate-free list of at most Limit programs that        *)
(* changes by one insertion, one replacement, one removal, or by being     *)
(* emptied, and never by anything in between.                              *)
(***************************************************************************)
EXTENDS Naturals, Sequences, SequencesExt

CONSTANTS Prog, Limit

VARIABLE list

Init == list = << >>

Fresh == Prog \ ToSet(list)

Insert == /\ Len(list) < Limit
          /\ \E p \in Fresh, i \in 1 .. Len(list) + 1 : list' = InsertAt(list, i, p)

Replace == \E p \in Fresh, i \in DOMAIN list : list' = ReplaceAt(list, i, p)

Withdraw == \E i \in DOMAIN list : list' = RemoveAt(list, i)

Clear == list' = << >>

Next == Insert \/ Replace \/ Withdraw \/ Clear

Spec == Init /\ [][Next]_list
=============================================================================
