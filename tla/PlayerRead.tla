----------------------------- MODULE PlayerRead -----------------------------
(***************************************************************************)
(* The public endpoints: search, profile, matches and champions of a       *)
(* player, answered from the database while refreshes commit.  A request   *)
(* is one or two SELECTs, and at READ COMMITTED each has a snapshot of its *)
(* own, so a refresh may commit between them.  RefreshStore stands for the *)
(* refreshes, as many and as concurrent as there are: a reader sees their  *)
(* commits only.  Readers do not affect each other or the tables: one      *)
(* client, which sends its requests one after the other, stands for all.   *)
(*                                                                         *)
(* Riot IDs are compared in lower case, so a name here stands for all its  *)
(* spellings. The numbers of a match are kept as far as sums, ratios and   *)
(* orders of the champion statistics depend on them.                       *)
(***************************************************************************)
EXTENDS Integers, Sequences, FiniteSets, FiniteSetsExt, Functions

CONSTANTS
  Requests, Players, Queues, Matches, Participants, OldLinks, Earlier, None,
  Names,         \* Riot IDs, in lower case
  Champions,
  Start,         \* [Matches -> Nat], matches.game_start
  Id,            \* [Matches -> Nat], the order of match ids as text
  SoloQ,         \* the matches with queue_id 420
  Played,        \* [Players -> [Matches -> what player_matches says of it]]
  Alphabet,      \* [Champions -> Nat], the order of champion names
  Limits,        \* the values of the query parameter limit
  MaxRefreshes,  \* bound: commits per player
  MaxReads       \* bound: requests of the client

ASSUME OrderAssumption ==
  /\ Start \in [Matches -> Nat] /\ Id \in [Matches -> Nat]
  /\ Alphabet \in [Champions -> Nat]
  /\ IsInjective(Id) /\ IsInjective(Alphabet)

ASSUME PlayedAssumption ==
  /\ SoloQ \subseteq Matches
  /\ Played \in [Players -> [Matches -> [champion : Champions, win : BOOLEAN,
                                         takedowns : Nat, deaths : Nat]]]

ASSUME OldLinksAssumption ==
  /\ Participants \in [Matches -> SUBSET Players]
  /\ OldLinks \subseteq {link \in Players \X Matches : link[1] \in Participants[link[2]]}

(* api/players.py:96: limit is at least 1. *)
ASSUME FiniteAssumption ==
  /\ IsFiniteSet(Matches) /\ IsFiniteSet(Champions)
  /\ Limits \subseteq Nat \ {0}

ASSUME NoneAssumption == None \notin Names \cup Players \cup Requests \cup {Earlier}

VARIABLES
  players, ranked, matches, links,  \* the tables
  riotId,   \* players.game_name and tag_line: [Players -> Names or None]
  account,  \* the Riot ID each player has at Riot
  past,     \* history: every committed state of a player's row and entries
  call,     \* the request being served, None if there is none
  answers   \* the answers the client has got

store == <<players, ranked, matches, links>>
vars == <<players, ranked, matches, links, riotId, account, past, call, answers>>

Store == INSTANCE RefreshStore
  WITH Requests <- Requests, Players <- Players, Queues <- Queues, Matches <- Matches,
       Participants <- Participants, OldLinks <- OldLinks, Earlier <- Earlier, None <- None,
       players <- players, ranked <- ranked, matches <- matches, links <- links

----------------------------------------------------------------------------
(* Types *)

Endpoints == {"search", "profile", "matches", "champions"}
Codes == {"none", "ok", "not_found", "ambiguous", "failed"}
PlayerRows == [profile : Requests \cup {Earlier, None},
               status : {"success", "partial_success", "failed"}]
Rows == PlayerRows \cup {None}
Entries == [Queues -> Requests \cup {None}]
Stats == [champion : Champions, games : Nat, wins : Nat]

Calls == [endpoint : Endpoints, name : Names \cup {None},
          player : Players \cup {None}, limit : Limits \cup {0},
          done : 0 .. 2, code : Codes, row : Rows, entries : Entries \cup {None},
          page : Seq(Matches), stats : Seq(Stats)]

ASSUME NoRowAssumption == None \notin PlayerRows \cup Entries \cup Calls

(* What a response model has no default for. *)
Complete(c) ==
  c.code = "ok" => c.row # None /\ (c.endpoint = "profile" => c.entries # None)

(* Every variable ranges over the values its column or its local has, and  *)
(* an answer has what its response model requires.                         *)
TypeOK ==
  /\ players \in [Players -> Rows]
  /\ ranked \in [Players -> Entries]
  /\ matches \subseteq Matches
  /\ links \subseteq Players \X Matches
  /\ riotId \in [Players -> Names \cup {None}]
  /\ account \in [Players -> Names]
  /\ past \in [Players -> Seq([row : Rows, entries : Entries])]
  /\ call \in Calls \cup {None}
  /\ answers \in Seq(Calls)
  /\ \A i \in DOMAIN answers : Complete(answers[i])

----------------------------------------------------------------------------
(* The world around the reader *)

Init ==
  /\ Store!Init
  /\ account \in Injection(Players, Names)
  /\ riotId = [p \in Players |-> IF players[p] = None THEN None ELSE account[p]]
  /\ past = [p \in Players |-> <<[row |-> players[p], entries |-> ranked[p]]>>]
  /\ call = None
  /\ answers = << >>

(* A player changes the Riot ID to one that is free. *)
Rename ==
  /\ \E p \in Players, n \in Names \ Range(account) : account' = [account EXCEPT ![p] = n]
  /\ UNCHANGED <<store, riotId, past, call, answers>>

Fresh(r) ==
  \A p \in Players : \A i \in DOMAIN past[p] :
    past[p][i].row # None => past[p][i].row.profile # r

(* A refresh commits, successful or failed: the Riot ID is overwritten in  *)
(* any case.  A commit that comes late stores an older one, which leaves   *)
(* the row as if the player had been renamed after the refresh.            *)
Refresh ==
  /\ \E r \in Requests, p \in Players :
       /\ Fresh(r)
       /\ Len(past[p]) <= MaxRefreshes
       /\ \/ \E entries \in SUBSET Queues :
               \E linked \in SUBSET {m \in Matches : p \in Participants[m]} :
                 Store!RefreshSucceeds(r, p, entries, linked)
          \/ Store!RefreshFails(r, p)
       /\ riotId' = [riotId EXCEPT ![p] = account[p]]
       /\ past' = [past EXCEPT ![p] =
                     Append(@, [row |-> players'[p], entries |-> ranked'[p]])]
  /\ UNCHANGED <<account, call, answers>>

----------------------------------------------------------------------------
(* ORDER BY ... LIMIT: keys are compared from the left, all descending.    *)

Greater(k, l) ==
  \E i \in DOMAIN k : k[i] > l[i] /\ \A j \in 1 .. i - 1 : k[j] = l[j]

(* The results PostgreSQL may give: one, unless keys are equal. *)
Listings(S, limit, Key(_)) ==
  {s \in [1 .. IF Cardinality(S) < limit THEN Cardinality(S) ELSE limit -> S] :
     /\ IsInjective(s)
     /\ \A i \in DOMAIN s : \A x \in S \ {s[j] : j \in 1 .. i} :
          ~Greater(Key(x), Key(s[i]))}

(* player_matches JOIN matches, the rows of one player *)
Joined(p) == {m \in matches : <<p, m>> \in links}

(* Fault: no second key. *)
MatchKey_StartOnly(m) == <<Start[m]>>

MatchKey(m) == <<Start[m], Id[m]>>

MatchListings(p, limit) == Listings(Joined(p), limit, MatchKey)

(* Fault: the queue is not looked at. *)
Games_AnyQueue(p, c) == {m \in Joined(p) : Played[p][m].champion = c}

Games(p, c) == {m \in Joined(p) \cap SoloQ : Played[p][m].champion = c}

Wins(p, c) == Cardinality({m \in Games(p, c) : Played[p][m].win})

(* a / b to the nearest integer, halves up *)
Rounded(a, b) == (2 * a + b) \div (2 * b)

AtLeastOne(n) == IF n = 0 THEN 1 ELSE n

Total(S, Number(_)) == MapThenSumSet(Number, S)

(* In hundredths, as round(..., 2) has it. *)
WinRate(p, c) == Rounded(10000 * Wins(p, c), AtLeastOne(Cardinality(Games(p, c))))

Kda(p, c) ==
  Rounded(100 * Total(Games(p, c), LAMBDA m : Played[p][m].takedowns),
          AtLeastOne(Total(Games(p, c), LAMBDA m : Played[p][m].deaths)))

(* Games, win rate and KDA descending, the name ascending. *)
ChampionKey(p, c) ==
  <<Cardinality(Games(p, c)), WinRate(p, c), Kda(p, c), 0 - Alphabet[c]>>

ChampionListings(p, limit) ==
  Listings({c \in Champions : Games(p, c) # {}}, limit, LAMBDA c : ChampionKey(p, c))

StatsOf(p, listing) ==
  [i \in DOMAIN listing |-> [champion |-> listing[i],
                             games |-> Cardinality(Games(p, listing[i])),
                             wins |-> Wins(p, listing[i])]]

----------------------------------------------------------------------------
(* A request *)

NewCall(endpoint, name, player, limit) ==
  [endpoint |-> endpoint, name |-> name, player |-> player, limit |-> limit,
   done |-> 0, code |-> "none", row |-> None, entries |-> None,
   page |-> << >>, stats |-> << >>]

Receive ==
  /\ call = None /\ Len(answers) < MaxReads
  /\ \/ \E n \in Names : call' = NewCall("search", n, None, 0)
     \/ \E p \in Players : call' = NewCall("profile", None, p, 0)
     \/ \E e \in {"matches", "champions"}, p \in Players, limit \in Limits :
          call' = NewCall(e, None, p, limit)
  /\ UNCHANGED <<store, riotId, account, past, answers>>

(* Fault: the profile's SELECTs swapped. *)
Selects_RankedFirst ==
  [search |-> <<"by_riot_id">>, profile |-> <<"ranked", "by_puuid">>,
   matches |-> <<"by_puuid", "matches">>, champions |-> <<"by_puuid", "champions">>]

Selects ==
  [search |-> <<"by_riot_id">>, profile |-> <<"by_puuid", "ranked">>,
   matches |-> <<"by_puuid", "matches">>, champions |-> <<"by_puuid", "champions">>]

Due(s) == call # None /\ Selects[call.endpoint][call.done + 1] = s

Answer(code, c) ==
  /\ answers' = Append(answers, [c EXCEPT !.code = code])
  /\ call' = None
  /\ UNCHANGED <<store, riotId, account, past>>

(* c has the result of its SELECT; the last one is followed by the answer. *)
Proceed(c) ==
  LET next == [c EXCEPT !.done = @ + 1] IN
  IF next.done = Len(Selects[c.endpoint]) THEN Answer("ok", next)
  ELSE call' = next /\ UNCHANGED <<store, riotId, account, past, answers>>

(* The search ends with one row, none, or with MultipleResultsFound. *)
SelectByRiotId ==
  /\ Due("by_riot_id")
  /\ LET found == {p \in Players : riotId[p] = call.name} IN
     \/ \E p \in Players : found = {p} /\ Proceed([call EXCEPT !.player = p, !.row = players[p]])
     \/ found = {} /\ Answer("not_found", call)
     \/ Cardinality(found) > 1 /\ Answer("ambiguous", call)

(* Faults: no look at the row, and a row without a profile, left by a      *)
(* failed refresh, taken for none.                                         *)
Exists_Always(p) == TRUE

Exists_WithProfile(p) == players[p] # None /\ players[p].profile # None

Exists(p) == players[p] # None

SelectByPuuid ==
  /\ Due("by_puuid")
  /\ \/ Exists(call.player) /\ Proceed([call EXCEPT !.row = players[call.player]])
     \/ ~Exists(call.player) /\ Answer("not_found", call)

SelectRanked ==
  /\ Due("ranked")
  /\ Proceed([call EXCEPT !.entries = ranked[call.player]])

SelectMatches ==
  /\ Due("matches")
  /\ \E page \in MatchListings(call.player, call.limit) :
       Proceed([call EXCEPT !.page = page])

SelectChampions ==
  /\ Due("champions")
  /\ \E listing \in ChampionListings(call.player, call.limit) :
       Proceed([call EXCEPT !.stats = StatsOf(call.player, listing)])

(* The SELECT raises: HTTP 500. *)
DatabaseFails ==
  /\ call # None
  /\ Answer("failed", call)

Next ==
  \/ Rename \/ Refresh
  \/ Receive \/ DatabaseFails
  \/ SelectByRiotId \/ SelectByPuuid
  \/ SelectRanked \/ SelectMatches \/ SelectChampions

Spec == Init /\ [][Next]_vars

----------------------------------------------------------------------------
(* Properties *)

Answered(i, endpoint) == answers[i].endpoint = endpoint /\ answers[i].code = "ok"

SamePlayer(i, j) == answers[i].player = answers[j].player

(* What a client is shown of a player only moves forward: the row and the  *)
(* entries of its profiles, in the order they were shown, are committed    *)
(* states in the order of their commits. A profile may pair a row with     *)
(* entries of a later refresh, never of an earlier one.                    *)
ProfilesRunForward ==
  \A p \in Players :
    LET shown == {i \in DOMAIN answers : Answered(i, "profile") /\ answers[i].player = p}
    IN  \E row, entries \in [shown -> DOMAIN past[p]] :
          \A i \in shown :
            /\ past[p][row[i]].row = answers[i].row
            /\ past[p][entries[i]].entries = answers[i].entries
            /\ row[i] <= entries[i]
            /\ \A j \in shown : i < j => entries[i] <= row[j]

(* A match that a client was shown leaves the page only when later matches *)
(* fill it: whatever refreshes commit, none vanishes and no two matches    *)
(* that began together take turns.                                         *)
MatchLeavesOnlyForLater ==
  \A i, j \in DOMAIN answers :
    /\ i < j /\ SamePlayer(i, j) /\ answers[i].limit = answers[j].limit
    /\ Answered(i, "matches") /\ Answered(j, "matches")
    => \A m \in Range(answers[i].page) \ Range(answers[j].page) :
         /\ Len(answers[j].page) = answers[j].limit
         /\ \A n \in Range(answers[j].page) :
              Start[n] > Start[m] \/ (Start[n] = Start[m] /\ Id[n] > Id[m])

(* The two endpoints tell one story: a champion's games never exceed those *)
(* of a complete list of matches read later, and never fall behind one     *)
(* read before.                                                            *)
ChampionsAgreeWithMatches ==
  \A i, j \in DOMAIN answers :
    /\ SamePlayer(i, j) /\ Answered(i, "champions") /\ Answered(j, "matches")
    => LET p == answers[i].player
           Listed(c) == Cardinality({m \in Range(answers[j].page) \cap SoloQ :
                                       Played[p][m].champion = c})
       IN  /\ i < j /\ Len(answers[j].page) < answers[j].limit =>
                \A s \in Range(answers[i].stats) : s.games <= Listed(s.champion)
           /\ j < i /\ Len(answers[i].stats) < answers[i].limit =>
                \A c \in Champions : Listed(c) > 0 =>
                  \E s \in Range(answers[i].stats) : s.champion = c /\ s.games >= Listed(c)

(* A player whom any endpoint has shown to a client, be it by a search     *)
(* that found the row of a failed refresh, is never unknown to it later.   *)
(* A search that finds nothing denies a name, which a player may have      *)
(* given up, and no player: what denies is an endpoint asked by PUUID.     *)
FoundIsNeverLost ==
  \A i, j \in DOMAIN answers :
    i < j /\ answers[i].code = "ok" /\ SamePlayer(i, j) => answers[j].code # "not_found"

(* api/players.py:37 documents 404 and 422 as the errors of a search. Two  *)
(* rows may carry one Riot ID when a player takes a name that another gave *)
(* up and was not refreshed since: one_or_none raises, HTTP 500.           *)
SearchFindsAtMostOne ==
  \A i \in DOMAIN answers : answers[i].code # "ambiguous"
=============================================================================
