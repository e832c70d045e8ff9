----------------------------- MODULE RefreshStore -----------------------------
(***************************************************************************)
(* What the refresh endpoint promises to the readers of the database: its  *)
(* four tables change by whole refreshes.  A refresh of player p that got  *)
(* its data from Riot replaces p's profile and p's ranked entries together *)
(* and adds the matches it found, each linked to p; a refresh that failed  *)
(* marks p's row and touches nothing else.  How the detailed specification *)
(* comes by these steps is the business of PlayerRefresh, which has this   *)
(* module's Spec as a property.                                            *)
(***************************************************************************)
CONSTANTS Requests, Players, Queues, Matches, Participants, OldLinks, Earlier, None

VARIABLES players, ranked, matches, links

store == <<players, ranked, matches, links>>

Init ==
  /\ links = OldLinks
  /\ matches = {link[2] : link \in OldLinks}
  /\ players = [p \in Players |-> IF \E link \in OldLinks : link[1] = p
                                  THEN [profile |-> Earlier, status |-> "success"]
                                  ELSE None]
  /\ ranked = [p \in Players |-> [q \in Queues |-> None]]

(* r stores its profile, its entries and no others, and, for the matches   *)
(* in linked, what was missing of the match and of its link to p.          *)
RefreshSucceeds(r, p, entries, linked) ==
  /\ \E status \in {"success", "partial_success"} :
       players' = [players EXCEPT ![p] = [profile |-> r, status |-> status]]
  /\ ranked' = [ranked EXCEPT ![p] = [q \in Queues |-> IF q \in entries THEN r ELSE None]]
  /\ matches' = matches \cup linked
  /\ links' = links \cup {p} \X linked

(* r got no further than the summoner, or not even that far. *)
RefreshFails(r, p) ==
  /\ \E profile \in {r, IF players[p] = None THEN None ELSE players[p].profile} :
       players' = [players EXCEPT ![p] = [profile |-> profile, status |-> "failed"]]
  /\ UNCHANGED <<ranked, matches, links>>

Next ==
  \E r \in Requests, p \in Players :
    \/ \E entries \in SUBSET Queues :
         \E linked \in SUBSET {m \in Matches : p \in Participants[m]} :
           RefreshSucceeds(r, p, entries, linked)
    \/ RefreshFails(r, p)

Spec == Init /\ [][Next]_store
=============================================================================
