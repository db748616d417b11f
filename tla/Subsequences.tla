------------------------------ MODULE Subsequences ------------------------------
(***************************************************************************)
(* The elements of a sequence that are in a set, in their order: what      *)
(* SelectSeq gives, told without recursion.                                *)
(***************************************************************************)
EXTENDS Naturals, Sequences, FiniteSets

\* The place of s that has n of places up to itself.
PlaceOf(places, n) == CHOOSE i \in places : Cardinality({j \in places : j <= i}) = n

PlacesIn(s, S) == {i \in DOMAIN s : s[i] \in S}

Filter(s, S) == [n \in 1..Cardinality(PlacesIn(s, S)) |-> s[PlaceOf(PlacesIn(s, S), n)]]
=============================================================================
