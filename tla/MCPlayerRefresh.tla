--------------------------- MODULE MCPlayerRefresh ---------------------------
(***************************************************************************)
(* Instances of PlayerRefresh for TLC.                                     *)
(***************************************************************************)
EXTENDS PlayerRefresh, TLC

CONSTANTS r1, r2, p1, p2, q1, q2, m1, m2, m3, m4, m5

Age == m1 :> 1 @@ m2 :> 2 @@ m3 :> 3 @@ m4 :> 4 @@ m5 :> 5
MCRecency == [m \in Matches |-> Age[m]]

(* m1 is stored and no longer readable, m2 is stored and readable, both    *)
(* for p2; m3, m4 and m5 are new, and m5 names p1 alone.                   *)
Roster ==
  m1 :> {p1, p2} @@ m2 :> {p1, p2} @@ m3 :> {p1, p2} @@ m4 :> {p1, p2} @@ m5 :> {p1}
MCParticipants == [m \in Matches |-> Roster[m] \cap Players]
MCOldLinks == {<<p2, m1>>, <<p2, m2>>}
MCUnreadable == {m1}
MCLists == {<< >>, <<m5, m4, m3>>, <<m3, m2, m1>>}

(* One new match, or an old one, when the matches are not the question.    *)
OneNewMatch == {<< >>, <<m3>>}
OneOldMatch == {<< >>, <<m2>>}
NoLinks == {}
OneOldLink == {<<p2, m2>>}

RequestSymmetry == Permutations(Requests)
=============================================================================
