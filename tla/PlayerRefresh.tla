---------------------------- MODULE PlayerRefresh ----------------------------
(***************************************************************************)
(* POST /api/v1/admin/players/refresh: the refresh of one player, run by   *)
(* any number of concurrent requests over one PostgreSQL database at READ  *)
(* COMMITTED.  A step is what one coroutine does between two awaits: one   *)
(* call to the Riot API, one SELECT, one statement of the persisting       *)
(* transaction (one row of it for the multi-row upsert of matches, whose   *)
(* rows PostgreSQL locks one after the other), or its COMMIT.              *)
(*                                                                         *)
(* Data is reduced to what the properties tell apart.  A request's name    *)
(* stands for everything it fetched: a player row whose profile is r holds *)
(* the summoner r fetched, a ranked row r the league entry r fetched.      *)
(***************************************************************************)
EXTENDS Naturals, Sequences, FiniteSets

CONSTANTS
  Requests,      \* the refresh requests the admin API receives
  Players,       \* PUUIDs
  Queues,        \* ranked queue types
  Matches,       \* match ids
  Recency,       \* [Matches -> Nat], later matches have a larger number
  MatchLists,    \* the id lists match-v5 may answer, duplicates removed
  Participants,  \* [Matches -> SUBSET Players], who a match's payload names
  HasStart,      \* the matches whose payload has a start timestamp
  OldLinks,      \* player_matches rows stored before this history begins
  Unreadable,    \* stored payloads that RiotMatch.from_payload rejects
  Earlier,       \* the refresh that stored OldLinks
  None           \* no row, no value

Elements(ids) == {ids[i] : i \in DOMAIN ids}

OldMatches == {link[2] : link \in OldLinks}

ASSUME RecencyAssumption == Recency \in [Matches -> Nat]

(* Riot lists a player's matches from the latest to the earliest. *)
ASSUME MatchListsAssumption ==
  /\ MatchLists \subseteq Seq(Matches)
  /\ \A ids \in MatchLists : \A i, j \in DOMAIN ids :
       i < j => Recency[ids[i]] > Recency[ids[j]]

ASSUME ParticipantsAssumption == Participants \in [Matches -> SUBSET Players]

ASSUME HasStartAssumption == HasStart \subseteq Matches

(* What an earlier refresh stored passed the checks this one makes, save   *)
(* that the payload model may have become stricter since.                  *)
ASSUME OldLinksAssumption ==
  /\ OldLinks \subseteq {link \in Players \X Matches : link[1] \in Participants[link[2]]}
  /\ Unreadable \subseteq OldMatches

ASSUME NoneAssumption ==
  /\ None \notin Players \cup Requests \cup {Earlier}
  /\ Earlier \notin Requests

VARIABLES
  players,   \* table players: [Players -> row or None]
  ranked,    \* table ranked_entries: [Players -> [Queues -> writer or None]]
  matches,   \* table matches: the stored match ids
  links,     \* table player_matches: the stored (puuid, match id) pairs
  pc,        \* where each request's coroutine is
  task,      \* its local variables
  tx,        \* the statements its persisting transaction has executed
  answer     \* what its client was told

store == <<players, ranked, matches, links>>
vars == <<players, ranked, matches, links, pc, task, tx, answer>>

----------------------------------------------------------------------------
(* Types *)

FetchPoints == {"account", "summoner", "ranked", "match_ids", "match"}
DbPoints == {"plan_matches", "plan_links", "persist"}
Active == FetchPoints \cup DbPoints
Ended == {"answered", "dropped"}

Statuses == {"success", "partial_success", "failed"}
RiotErrors == {"not_found", "other"}
Answers == {"none", "ok", "not_found", "bad_gateway", "error"}

Versions == Requests \cup {Earlier, None}
PlayerRows == [profile : Versions, status : Statuses]

ASSUME NoRowAssumption == None \notin PlayerRows

Tasks == [player    : Players \cup {None},
          summoner  : BOOLEAN,
          entries   : SUBSET Queues,
          failure   : RiotErrors \cup {"none", "malformed"},
          idsFailed : BOOLEAN,
          ids       : Seq(Matches),
          existing  : SUBSET Matches,
          missing   : SUBSET Matches,
          backfill  : SUBSET Matches,
          records   : Seq(Matches),
          linked    : SUBSET Matches,
          failed    : SUBSET Matches]

Transactions == [done : 0 .. 5, locked : Nat, deleted : SUBSET Queues]

(* Every variable ranges over the values its column or its local has. *)
TypeOK ==
  /\ players \in [Players -> PlayerRows \cup {None}]
  /\ ranked \in [Players -> [Queues -> Versions]]
  /\ matches \subseteq Matches
  /\ links \subseteq Players \X Matches
  /\ pc \in [Requests -> {"idle"} \cup Active \cup Ended]
  /\ task \in [Requests -> Tasks]
  /\ tx \in [Requests -> Transactions]
  /\ answer \in [Requests -> Answers]

----------------------------------------------------------------------------
(* Initial states: the database an earlier refresh left, no request yet. *)

NewTask == [player |-> None, summoner |-> FALSE, entries |-> {},
            failure |-> "none", idsFailed |-> FALSE, ids |-> << >>,
            existing |-> {}, missing |-> {}, backfill |-> {},
            records |-> << >>, linked |-> {}, failed |-> {}]

NoTx == [done |-> 0, locked |-> 0, deleted |-> {}]

OldPlayers == {link[1] : link \in OldLinks}

Init ==
  /\ players = [p \in Players |-> IF p \in OldPlayers
                                  THEN [profile |-> Earlier, status |-> "success"]
                                  ELSE None]
  /\ ranked = [p \in Players |-> [q \in Queues |-> None]]
  /\ matches = OldMatches
  /\ links = OldLinks
  /\ pc = [r \in Requests |-> "idle"]
  /\ task = [r \in Requests |-> NewTask]
  /\ tx = [r \in Requests |-> NoTx]
  /\ answer = [r \in Requests |-> "none"]

----------------------------------------------------------------------------
(* Calls to the Riot API *)

GoTo(r, point) == pc' = [pc EXCEPT ![r] = point]

(* The handler returns or raises before it has a transaction to undo. *)
Reply(r, a) ==
  /\ GoTo(r, "answered")
  /\ answer' = [answer EXCEPT ![r] = a]

(* Fault: the upstream error is passed on as it is. *)
ErrorAnswer_Upstream(failure) == failure

ErrorAnswer(failure) == IF failure = "not_found" THEN "not_found" ELSE "bad_gateway"

Receive(r) ==
  /\ pc[r] = "idle"
  /\ GoTo(r, "account")
  /\ UNCHANGED <<store, task, tx, answer>>

AccountFound(r) ==
  /\ pc[r] = "account"
  /\ \E p \in Players : task' = [task EXCEPT ![r].player = p]
  /\ GoTo(r, "summoner")
  /\ UNCHANGED <<store, tx, answer>>

AccountFails(r) ==
  /\ pc[r] = "account"
  /\ \E f \in RiotErrors :
       /\ task' = [task EXCEPT ![r].failure = f]
       /\ Reply(r, ErrorAnswer(f))
  /\ UNCHANGED <<store, tx>>

SummonerFound(r) ==
  /\ pc[r] = "summoner"
  /\ task' = [task EXCEPT ![r].summoner = TRUE]
  /\ GoTo(r, "ranked")
  /\ UNCHANGED <<store, tx, answer>>

RankedFound(r) ==
  /\ pc[r] = "ranked"
  /\ \E entries \in SUBSET Queues : task' = [task EXCEPT ![r].entries = entries]
  /\ GoTo(r, "match_ids")
  /\ UNCHANGED <<store, tx, answer>>

(* _persist_failed_refresh is due; its error is raised again afterwards. *)
ProfileFails(r) ==
  /\ pc[r] \in {"summoner", "ranked"}
  /\ \E f \in RiotErrors : task' = [task EXCEPT ![r].failure = f]
  /\ GoTo(r, "persist")
  /\ UNCHANGED <<store, tx, answer>>

(* An empty list leaves nothing to plan: _empty_collection. *)
MatchIdsFound(r) ==
  /\ pc[r] = "match_ids"
  /\ \E ids \in MatchLists :
       /\ task' = [task EXCEPT ![r].ids = ids]
       /\ GoTo(r, IF ids = << >> THEN "persist" ELSE "plan_matches")
  /\ UNCHANGED <<store, tx, answer>>

MatchIdsFail(r) ==
  /\ pc[r] = "match_ids"
  /\ task' = [task EXCEPT ![r].idsFailed = TRUE]
  /\ GoTo(r, "persist")
  /\ UNCHANGED <<store, tx, answer>>

(* The payload parses as JSON and fails the pydantic model: the            *)
(* ValidationError is no RiotClientError, so no handler catches it.        *)
PayloadMalformed(r) ==
  /\ pc[r] \in FetchPoints
  /\ task' = [task EXCEPT ![r].failure = "malformed"]
  /\ Reply(r, "error")
  /\ UNCHANGED <<store, tx>>

----------------------------------------------------------------------------
(* PlayerMatchSyncCollector *)

CanBackfill(p, m) == m \notin Unreadable /\ p \in Participants[m]

(* Fault: a stored payload that cannot be used is skipped silently. *)
Backfilled_Silently(t) ==
  [t EXCEPT !.linked = @ \cup {m \in t.backfill : CanBackfill(t.player, m)}]

(* The stored payloads give the links that are missing, with no await. *)
Backfilled(t) ==
  [t EXCEPT !.linked = @ \cup {m \in t.backfill : CanBackfill(t.player, m)},
            !.failed = @ \cup {m \in t.backfill : ~CanBackfill(t.player, m)}]

(* The loop over missing_match_ids goes on, or ends with the backfill. *)
Continue(r, t) ==
  /\ task' = [task EXCEPT ![r] = IF t.missing = {} THEN Backfilled(t) ELSE t]
  /\ GoTo(r, IF t.missing = {} THEN "persist" ELSE "match")

PlanMatches(r) ==
  /\ pc[r] = "plan_matches"
  /\ task' = [task EXCEPT ![r].existing = Elements(task[r].ids) \cap matches]
  /\ GoTo(r, "plan_links")
  /\ UNCHANGED <<store, tx, answer>>

(* Fault: a match counts as missing as long as the player has no link.     *)
Partitioned_ByLinks(t, known) ==
  [t EXCEPT !.missing = Elements(t.ids) \ known,
            !.backfill = t.existing \ known]

Partitioned(t, known) ==
  [t EXCEPT !.missing = Elements(t.ids) \ t.existing,
            !.backfill = t.existing \ known]

PlanLinks(r) ==
  /\ pc[r] = "plan_links"
  /\ LET t == task[r]
     IN  Continue(r, Partitioned(t, {m \in Elements(t.ids) : <<t.player, m>> \in links}))
  /\ UNCHANGED <<store, tx, answer>>

(* Fault: the details are requested in no particular order. *)
IsNext_AnyOrder(t, m) == m \in t.missing

(* m comes before every other missing id in Riot's list. *)
IsNext(t, m) ==
  /\ m \in t.missing
  /\ \E i \in DOMAIN t.ids :
       /\ t.ids[i] = m
       /\ \A j \in DOMAIN t.ids : t.ids[j] \in t.missing => i <= j

WithFailure(t, m) == [t EXCEPT !.missing = @ \ {m}, !.failed = @ \cup {m}]

(* build_match_record needs a start, extract_player_participant the player. *)
Recordable(p, m) == m \in HasStart /\ p \in Participants[m]

(* Fault: the match is recorded before its participants are looked at. *)
WithMatch_RecordedFirst(t, m) ==
  IF m \in HasStart /\ t.player \notin Participants[m]
  THEN [WithFailure(t, m) EXCEPT !.records = Append(@, m)]
  ELSE IF m \in HasStart
  THEN [t EXCEPT !.missing = @ \ {m},
                 !.records = Append(@, m),
                 !.linked = @ \cup {m}]
  ELSE WithFailure(t, m)

WithMatch(t, m) ==
  IF Recordable(t.player, m)
  THEN [t EXCEPT !.missing = @ \ {m},
                 !.records = Append(@, m),
                 !.linked = @ \cup {m}]
  ELSE WithFailure(t, m)

MatchFound(r) ==
  /\ pc[r] = "match"
  /\ \E m \in Matches :
       /\ IsNext(task[r], m)
       /\ Continue(r, WithMatch(task[r], m))
  /\ UNCHANGED <<store, tx, answer>>

MatchFails(r) ==
  /\ pc[r] = "match"
  /\ \E m \in Matches :
       /\ IsNext(task[r], m)
       /\ Continue(r, WithFailure(task[r], m))
  /\ UNCHANGED <<store, tx, answer>>

----------------------------------------------------------------------------
(* The persisting transaction *)

(* Faults: children before their parents, the player's row no longer first, *)
(* no difference between a failed refresh and a successful one, and the     *)
(* outdated entries left in place.                                          *)
PersistOrder_LinksFirst(t) ==
  IF t.failure = "none"
  THEN <<"player", "ranked_upsert", "ranked_delete", "links", "matches">>
  ELSE <<"player">>

PersistOrder_PlayerLast(t) ==
  IF t.failure = "none"
  THEN <<"ranked_upsert", "ranked_delete", "matches", "links", "player">>
  ELSE <<"player">>

PersistOrder_SameForAll(t) ==
  <<"player", "ranked_upsert", "ranked_delete", "matches", "links">>

PersistOrder_NoDelete(t) ==
  IF t.failure = "none"
  THEN <<"player", "ranked_upsert", "matches", "links">>
  ELSE <<"player">>

PersistOrder(t) ==
  IF t.failure = "none"
  THEN <<"player", "ranked_upsert", "ranked_delete", "matches", "links">>
  ELSE <<"player">>

(* r has executed statement s. *)
HasDone(r, s) == \E i \in 1 .. tx[r].done : PersistOrder(task[r])[i] = s

(* s is the statement r executes next. *)
Due(r, s) ==
  /\ pc[r] = "persist"
  /\ tx[r].done < Len(PersistOrder(task[r]))
  /\ PersistOrder(task[r])[tx[r].done + 1] = s

RankedRows(p, qs) == {<<"ranked", p, q>> : q \in qs}

(* The match rows r has written so far. *)
WrittenMatches(r) == {task[r].records[i] : i \in 1 .. tx[r].locked}

(* The rows r has written and not yet committed: locked until it ends. *)
RowsHeld(r) ==
  LET t == task[r] IN
  (IF HasDone(r, "player") THEN {<<"player", t.player>>} ELSE {})
  \cup (IF HasDone(r, "ranked_upsert") THEN RankedRows(t.player, t.entries) ELSE {})
  \cup RankedRows(t.player, tx[r].deleted)
  \cup {<<"match", m>> : m \in WrittenMatches(r)}
  \cup (IF HasDone(r, "links") THEN {<<"link", t.player, m>> : m \in t.linked} ELSE {})

(* The committed entries of queues the player is no longer ranked in. *)
Outdated(r) ==
  {q \in Queues \ task[r].entries : ranked[task[r].player][q] # None}

NextMatchRow(r) ==
  IF tx[r].locked < Len(task[r].records)
  THEN {<<"match", task[r].records[tx[r].locked + 1]>>}
  ELSE {}

(* The rows the statement r is about to execute must lock. *)
RowsWanted(r) ==
  LET t == task[r] IN
  CASE Due(r, "player")        -> {<<"player", t.player>>}
    [] Due(r, "ranked_upsert") -> RankedRows(t.player, t.entries)
    [] Due(r, "ranked_delete") -> RankedRows(t.player, Outdated(r))
    [] Due(r, "matches")       -> NextMatchRow(r)
    [] Due(r, "links")         -> {<<"link", t.player, m>> : m \in t.linked}
    [] OTHER                   -> {}

WaitsFor(r, q) == q # r /\ RowsWanted(r) \cap RowsHeld(q) # {}

Granted(r) == \A q \in Requests : ~WaitsFor(r, q)

Execute(r, s, done) ==
  /\ Due(r, s)
  /\ Granted(r)
  /\ tx' = [tx EXCEPT ![r] = done]
  /\ UNCHANGED <<store, pc, task, answer>>

UpsertPlayer(r) == Execute(r, "player", [tx[r] EXCEPT !.done = @ + 1])

UpsertRanked(r) == Execute(r, "ranked_upsert", [tx[r] EXCEPT !.done = @ + 1])

DeleteRanked(r) ==
  Execute(r, "ranked_delete", [tx[r] EXCEPT !.done = @ + 1, !.deleted = Outdated(r)])

UpsertMatchRow(r) ==
  /\ tx[r].locked < Len(task[r].records)
  /\ Execute(r, "matches", [tx[r] EXCEPT !.locked = @ + 1])

UpsertMatchesEnds(r) ==
  /\ tx[r].locked = Len(task[r].records)
  /\ Execute(r, "matches", [tx[r] EXCEPT !.done = @ + 1])

UpsertLinks(r) == Execute(r, "links", [tx[r] EXCEPT !.done = @ + 1])

----------------------------------------------------------------------------
(* The end of a request *)

Outcome(t) ==
  IF t.failure # "none" THEN "failed"
  ELSE IF t.idsFailed \/ t.failed # {} THEN "partial_success"
  ELSE "success"

(* Fault: every refresh overwrites the profile columns. *)
PlayerRow_AllFields(r, old) ==
  [profile |-> IF task[r].summoner THEN r ELSE None,
   status |-> Outcome(task[r])]

(* The row after the upsert: the profile columns are overwritten only by a *)
(* refresh that fetched them.                                              *)
PlayerRow(r, old) ==
  [profile |-> IF task[r].summoner THEN r
               ELSE IF old = None THEN None ELSE old.profile,
   status |-> Outcome(task[r])]

RankedAfter(r, old) ==
  [q \in Queues |-> IF q \in tx[r].deleted THEN None
                    ELSE IF HasDone(r, "ranked_upsert") /\ q \in task[r].entries THEN r
                    ELSE old[q]]

Publish(r) ==
  LET t == task[r] IN
  /\ players' = [players EXCEPT ![t.player] = PlayerRow(r, @)]
  /\ ranked' = [ranked EXCEPT ![t.player] = RankedAfter(r, @)]
  /\ matches' = matches \cup WrittenMatches(r)
  /\ links' = links \cup (IF HasDone(r, "links") THEN {t.player} \X t.linked ELSE {})

ReadyToCommit(r) ==
  /\ pc[r] = "persist"
  /\ tx[r].done = Len(PersistOrder(task[r]))

EndTransaction(r) == tx' = [tx EXCEPT ![r] = NoTx]

(* The handler returns the result, or raises the Riot error it caught. *)
Commit(r) ==
  /\ ReadyToCommit(r)
  /\ Publish(r)
  /\ EndTransaction(r)
  /\ Reply(r, IF task[r].failure = "none" THEN "ok" ELSE ErrorAnswer(task[r].failure))
  /\ UNCHANGED task

(* The connection breaks after the server committed and before it says so. *)
CommitUnconfirmed(r) ==
  /\ ReadyToCommit(r)
  /\ Publish(r)
  /\ EndTransaction(r)
  /\ Reply(r, "error")
  /\ UNCHANGED task

(* Fault: the connection goes back to the pool without a rollback. *)
DatabaseFails_NoRollback(r) ==
  /\ pc[r] \in DbPoints
  /\ Reply(r, "error")
  /\ UNCHANGED <<store, task, tx>>

(* A statement or the COMMIT raises: rollback, HTTP 500. *)
DatabaseFails(r) ==
  /\ pc[r] \in DbPoints
  /\ EndTransaction(r)
  /\ Reply(r, "error")
  /\ UNCHANGED <<store, task>>

(* The process dies: every request in flight is lost, and PostgreSQL rolls *)
(* back the transactions of its connections.                               *)
Restart ==
  /\ \E r \in Requests : pc[r] \in Active
  /\ pc' = [r \in Requests |-> IF pc[r] \in Active THEN "dropped" ELSE pc[r]]
  /\ tx' = [r \in Requests |-> NoTx]
  /\ UNCHANGED <<store, task, answer>>

----------------------------------------------------------------------------
(* What a coroutine does by itself, as opposed to what breaks around it. *)
CallRiot(r) ==
  \/ AccountFound(r) \/ AccountFails(r)
  \/ SummonerFound(r) \/ RankedFound(r) \/ ProfileFails(r)
  \/ MatchIdsFound(r) \/ MatchIdsFail(r)
  \/ MatchFound(r) \/ MatchFails(r)
  \/ PayloadMalformed(r)

Plan(r) == PlanMatches(r) \/ PlanLinks(r)

Persist(r) ==
  \/ UpsertPlayer(r) \/ UpsertRanked(r) \/ DeleteRanked(r)
  \/ UpsertMatchRow(r) \/ UpsertMatchesEnds(r) \/ UpsertLinks(r)
  \/ Commit(r)

Step(r) == CallRiot(r) \/ Plan(r) \/ Persist(r)

(* The bounded set of requests is used up. *)
AllEnded ==
  /\ \A r \in Requests : pc[r] \in Ended
  /\ UNCHANGED vars

Next ==
  \/ \E r \in Requests :
       \/ Receive(r)
       \/ Step(r)
       \/ CommitUnconfirmed(r)
       \/ DatabaseFails(r)
  \/ Restart
  \/ AllEnded

Spec == Init /\ [][Next]_vars

----------------------------------------------------------------------------
(* Properties *)

InTransaction(r) == pc[r] = "persist" /\ tx[r].done > 0

(* A reader never sees ranked entries of one refresh beside the profile of *)
(* another: while the last refresh of a player is not a failed one, the    *)
(* stored entries are exactly those the refresh named by the profile got.  *)
(* It rests on upsert_player coming first: its row lock serialises the     *)
(* transactions of one player.                                             *)
ProfileAndRankedAgree ==
  \A p \in Players :
    players[p] # None =>
      LET w == players[p].profile IN
      players[p].status # "failed" /\ w \in Requests =>
        ranked[p] = [q \in Queues |-> IF q \in task[w].entries THEN w ELSE None]

(* Each inserted row finds its parents, committed or in its own            *)
(* transaction, although the matches of backfilled links were looked up in *)
(* a transaction rolled back long before: no IntegrityError is possible.   *)
NoForeignKeyViolation ==
  /\ \A p \in Players : players[p] = None => \A q \in Queues : ranked[p][q] = None
  /\ \A link \in links : players[link[1]] # None /\ link[2] \in matches
  /\ \A r \in Requests :
       LET t == task[r] IN
       InTransaction(r) =>
         /\ HasDone(r, "ranked_upsert") =>
              HasDone(r, "player") \/ players[t.player] # None
         /\ HasDone(r, "links") =>
              t.linked \subseteq matches \cup WrittenMatches(r)

(* No match is stored for nobody: every stored match has a link to one of  *)
(* its participants, so the aggregates over player_matches miss none.      *)
EveryMatchHasALink ==
  \A m \in matches : \E p \in Participants[m] : <<p, m>> \in links

(* A row that says "success" tells the truth: every match of the list that *)
(* refresh received is stored and linked to the player, whatever the plan  *)
(* saw and other refreshes did meanwhile.                                  *)
SuccessMeansComplete ==
  \A p \in Players :
    players[p] # None =>
      LET w == players[p].profile IN
      players[p].status = "success" /\ w \in Requests =>
        \A m \in Elements(task[w].ids) : m \in matches /\ <<p, m>> \in links

(* The counts _build_summary reports, about matches in one list.           *)
Summary(t) ==
  [received   |-> Len(t.ids),
   new        |-> Len(t.records),
   existing   |-> Cardinality(t.existing),
   upserted   |-> Cardinality(t.linked),
   backfilled |-> Cardinality(t.linked \cap t.backfill),
   failed     |-> Cardinality(t.failed) + (IF t.idsFailed THEN 1 ELSE 0)]

(* The reported counts add up: each received id is new, already stored or  *)
(* failed, a failed backfill being the only one counted twice.             *)
SummaryAddsUp ==
  \A r \in Requests :
    answer[r] = "ok" =>
      LET t == task[r]
          s == Summary(t)
      IN  /\ s.upserted = s.new + s.backfilled
          /\ s.received + Cardinality(t.failed \cap t.existing)
               + (IF t.idsFailed THEN 1 ELSE 0) = s.new + s.existing + s.failed

(* PostgreSQL never has a deadlock to break: in every set of transactions  *)
(* some member waits for no other member. Match rows are locked in the     *)
(* order of Riot's lists, which all agree.                                 *)
NoDeadlock ==
  \A S \in (SUBSET Requests) \ {{}} :
    \E r \in S : \A q \in S : ~WaitsFor(r, q)

(* A refresh that failed before it got the summoner keeps the profile that *)
(* was stored: no commit ever takes a profile away.                        *)
ProfileIsKept ==
  [][\A p \in Players :
       players[p] # None /\ players[p].profile # None =>
         players'[p] # None /\ players'[p].profile # None]_vars

(* A refresh that answers with a Riot error has left the rest of what the  *)
(* player's readers see alone.                                             *)
FailureTouchesOnlyTheRow ==
  [][(\E r \in Requests : answer[r] = "none" /\ answer'[r] \in {"not_found", "bad_gateway"})
       => UNCHANGED <<ranked, matches, links>>]_vars

(* What readers see changes by whole refreshes only.                       *)
Store == INSTANCE RefreshStore
  WITH Requests <- Requests, Players <- Players, Queues <- Queues, Matches <- Matches,
       Participants <- Participants, OldLinks <- OldLinks, Earlier <- Earlier, None <- None,
       players <- players, ranked <- ranked, matches <- matches, links <- links
ReadersSeeWholeRefreshes == Store!Spec

(* README.md:35 "requests from Riot only the missing match_ids".           *)
OnlyMissingIsFetched ==
  [][\A r \in Requests, m \in Matches :
       pc[r] = "match" /\ IsNext(task[r], m) /\ m \notin task'[r].missing
         => m \notin matches]_vars

(* api/admin_players.py:39 documents 502 as "Riot API is unavailable or    *)
(* returned an unexpected error"; a payload of an unexpected shape is      *)
(* answered 500.                                                           *)
MalformedIsBadGateway ==
  \A r \in Requests :
    pc[r] = "answered" /\ task[r].failure = "malformed" => answer[r] = "bad_gateway"
=============================================================================
