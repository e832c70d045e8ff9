---------------------------- MODULE MCPlayerRead ----------------------------
(***************************************************************************)
(* Instances of PlayerRead for TLC.                                        *)
(***************************************************************************)
EXTENDS PlayerRead, TLC

CONSTANTS r1, r2, p1, p2, m1, m2, m3, ahri, zed

(* m1 and m2 began together; m3 is later and of another queue. *)
Began == m1 :> 1 @@ m2 :> 1 @@ m3 :> 2
MCStart == [m \in Matches |-> Began[m]]
Number == m1 :> 1 @@ m2 :> 2 @@ m3 :> 3
MCId == [m \in Matches |-> Number[m]]
MCParticipants == [m \in Matches |-> {p1}]
MCAlphabet == ahri :> 1 @@ zed :> 2

(* Different champions in m1 and m2, the first of them again in m3. *)
Game(champion, win, takedowns, deaths) ==
  [champion |-> champion, win |-> win, takedowns |-> takedowns, deaths |-> deaths]
MCGames == m1 :> Game(ahri, TRUE, 5, 0) @@ m2 :> Game(zed, FALSE, 7, 3)
             @@ m3 :> Game(ahri, FALSE, 2, 4)
MCPlayed == [p \in Players |-> [m \in Matches |-> MCGames[m]]]

Symmetry == Permutations(Requests) \cup Permutations(Names)
=============================================================================
