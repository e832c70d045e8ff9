-------------------------- MODULE RefreshStoreProofs --------------------------
(***************************************************************************)
(* PlayerRefresh implements RefreshStore, for any set of requests, players *)
(* queues and matches: the row lock that upsert_player takes first makes   *)
(* the writing transactions of one player follow each other, and what a    *)
(* transaction publishes is then one whole refresh.                        *)
(***************************************************************************)
EXTENDS PlayerRefreshProofs

----------------------------------------------------------------------------
(* The kinds of steps *)

Fetches(r) == CallRiot(r) \/ Plan(r)

Writes(r) == \E s, x : Execute(r, s, x) /\ Persist(r)

Commits(r) == \E a \in Answers :
  /\ a = "ok" => task[r].failure = "none"
  /\ a \in {"not_found", "bad_gateway"} => task[r].failure # "none"
  /\ ReadyToCommit(r)
  /\ Publish(r)
  /\ EndTransaction(r)
  /\ Reply(r, a)
  /\ UNCHANGED task

(* No table and no local changes; transactions may be rolled back. *)
Quiet ==
  /\ UNCHANGED <<store, task>>
  /\ \A r \in Requests :
       /\ answer'[r] \in {answer[r], "error"}
       /\ \/ pc'[r] = pc[r] /\ tx'[r] = tx[r] /\ answer'[r] = answer[r]
          \/ pc'[r] = pc[r] /\ tx'[r] = NoTx /\ answer'[r] = answer[r]
          \/ pc'[r] \in Ended /\ tx'[r] = NoTx /\ pc[r] \in Active
          \/ pc[r] = "idle" /\ pc'[r] = "account" /\ tx'[r] = tx[r]

(* A step belongs to one request, or is quiet.                             *)
LEMMA StepKinds ==
  ASSUME IInv, [Next]_vars
  PROVE  Quiet \/ \E r \in Requests : Fetches(r) \/ Writes(r) \/ Commits(r)
<1>1. /\ pc \in [Requests -> {"idle"} \cup Active \cup Ended]
      /\ tx \in [Requests -> Transactions] /\ answer \in [Requests -> Answers]
  BY DEF IInv, TypeOK
<1>2. ASSUME NEW r \in Requests, Receive(r) PROVE Quiet
  BY <1>1, <1>2 DEF Quiet, Receive, GoTo
<1>3. ASSUME NEW r \in Requests, DatabaseFails(r) PROVE Quiet
  <2>1. "answered" \in Ended /\ DbPoints \subseteq Active
    BY DEF Ended, Active
  <2> QED
    BY <1>1, <1>3, <2>1 DEF Quiet, DatabaseFails, EndTransaction, Reply, GoTo
<1>4. CASE Restart
  <2>1. "dropped" \in Ended
    BY DEF Ended
  <2> QED
    BY <1>1, <1>4, <2>1 DEF Quiet, Restart
<1>5. CASE AllEnded \/ UNCHANGED vars
  BY <1>1, <1>5 DEF Quiet, AllEnded, vars, store
<1>6. ASSUME NEW r \in Requests, Persist(r), ~Commit(r) PROVE Writes(r)
  BY <1>6 DEF Persist, Writes, UpsertPlayer, UpsertRanked, DeleteRanked, UpsertMatchRow,
              UpsertMatchesEnds, UpsertLinks
<1>7. ASSUME NEW r \in Requests, Commit(r) PROVE Commits(r)
  <2> DEFINE a == IF task[r].failure = "none" THEN "ok" ELSE ErrorAnswer(task[r].failure)
  <2>1. /\ a \in Answers
        /\ a = "ok" => task[r].failure = "none"
        /\ a \in {"not_found", "bad_gateway"} => task[r].failure # "none"
    BY DEF ErrorAnswer, Answers
  <2>2. Reply(r, a) /\ ReadyToCommit(r) /\ Publish(r) /\ EndTransaction(r) /\ UNCHANGED task
    BY <1>7 DEF Commit
  <2> HIDE DEF a
  <2> QED
    BY <2>1, <2>2 DEF Commits
<1>8. ASSUME NEW r \in Requests, CommitUnconfirmed(r) PROVE Commits(r)
  BY <1>8 DEF CommitUnconfirmed, Commits, Answers
<1> QED
  BY <1>2, <1>3, <1>4, <1>5, <1>6, <1>7, <1>8 DEF Next, Step, Fetches

(* What a step that fetches leaves alone. *)
LEMMA FetchFrame ==
  ASSUME IInv, NEW r \in Requests, Fetches(r)
  PROVE  /\ UNCHANGED <<store, tx>>
         /\ pc[r] \in Active \ {"persist"}
         /\ tx[r] = NoTx
         /\ \A q \in Requests \ {r} :
              pc'[q] = pc[q] /\ task'[q] = task[q] /\ answer'[q] = answer[q]
         /\ answer'[r] # "ok" \/ answer'[r] = answer[r]
<1>1. /\ pc \in [Requests -> {"idle"} \cup Active \cup Ended] /\ TxInv(r)
      /\ task \in [Requests -> Tasks] /\ answer \in [Requests -> Answers]
  BY DEF IInv, TypeOK
<1>2. /\ FetchPoints \subseteq Active \ {"persist"}
      /\ {"plan_matches", "plan_links"} \subseteq Active \ {"persist"}
  BY DEF FetchPoints, Active, DbPoints
<1>3. CASE AccountFound(r) \/ AccountFails(r) \/ SummonerFound(r)
  BY <1>1, <1>2, <1>3 DEF TxInv, AccountFound, AccountFails, SummonerFound, GoTo, Reply,
                          ErrorAnswer, FetchPoints
<1>4. CASE RankedFound(r) \/ ProfileFails(r) \/ MatchIdsFound(r) \/ MatchIdsFail(r)
  BY <1>1, <1>2, <1>4 DEF TxInv, RankedFound, ProfileFails, MatchIdsFound, MatchIdsFail, GoTo,
                          FetchPoints
<1>5. CASE PayloadMalformed(r)
  BY <1>1, <1>2, <1>5 DEF TxInv, PayloadMalformed, GoTo, Reply
<1>6. CASE MatchFound(r) \/ MatchFails(r)
  <2>1. PICK t : Continue(r, t)
    BY <1>6 DEF MatchFound, MatchFails
  <2> QED
    BY <1>1, <1>2, <1>6, <2>1 DEF TxInv, MatchFound, MatchFails, Continue, GoTo, FetchPoints
<1>7. CASE Plan(r)
  BY <1>1, <1>2, <1>7 DEF TxInv, Plan, PlanMatches, PlanLinks, Continue, GoTo
<1> QED
  BY <1>3, <1>4, <1>5, <1>6, <1>7 DEF Fetches, CallRiot

(* What a statement of the transaction does to tx[r]. *)
LEMMA WritesIs ==
  ASSUME IInv, NEW r \in Requests, Writes(r)
  PROVE  /\ UNCHANGED <<store, pc, task, answer>>
         /\ pc[r] = "persist" /\ Granted(r)
         /\ \A q \in Requests \ {r} : tx'[q] = tx[q]
         /\ \/ /\ tx[r].done = 0 /\ tx'[r].done = 1
               /\ tx'[r].locked = tx[r].locked /\ tx'[r].deleted = tx[r].deleted
            \/ /\ tx[r].done = 1 /\ tx'[r].done = 2
               /\ tx'[r].locked = tx[r].locked /\ tx'[r].deleted = tx[r].deleted
            \/ /\ tx[r].done = 2 /\ tx'[r].done = 3
               /\ tx'[r].locked = tx[r].locked /\ tx'[r].deleted = Outdated(r)
            \/ /\ tx[r].done = 3 /\ tx'[r].done = 3
               /\ tx'[r].locked = tx[r].locked + 1 /\ tx'[r].deleted = tx[r].deleted
            \/ /\ tx[r].done \in {3, 4} /\ tx'[r].done = tx[r].done + 1
               /\ tx'[r].locked = tx[r].locked /\ tx'[r].deleted = tx[r].deleted
<1>1. /\ tx \in [Requests -> Transactions] /\ tx[r] \in Transactions
      /\ tx[r].done \in 0 .. 5 /\ tx[r].locked \in Nat
  BY DEF IInv, TypeOK, Transactions
<1>2. ASSUME NEW s, NEW x, Execute(r, s, x)
      PROVE  /\ UNCHANGED <<store, pc, task, answer>>
             /\ pc[r] = "persist" /\ Granted(r)
             /\ \A q \in Requests \ {r} : tx'[q] = tx[q]
             /\ tx'[r] = x
  BY <1>1, <1>2 DEF Execute, Due
<1>3. CASE UpsertPlayer(r)
  <2>1. tx[r].done = 0
    BY <1>1, <1>3, DueIs DEF UpsertPlayer, Execute
  <2>2. Execute(r, "player", [tx[r] EXCEPT !.done = @ + 1])
    BY <1>3 DEF UpsertPlayer
  <2> QED
    BY <1>1, <1>2, <2>1, <2>2 DEF Transactions
<1>4. CASE UpsertRanked(r)
  <2>1. tx[r].done = 1
    BY <1>1, <1>4, DueIs DEF UpsertRanked, Execute
  <2>2. Execute(r, "ranked_upsert", [tx[r] EXCEPT !.done = @ + 1])
    BY <1>4 DEF UpsertRanked
  <2> QED
    BY <1>1, <1>2, <2>1, <2>2 DEF Transactions
<1>5. CASE DeleteRanked(r)
  <2> DEFINE z == [tx[r] EXCEPT !.done = @ + 1]
  <2>1. tx[r].done = 2
    BY <1>1, <1>5, DueIs DEF DeleteRanked, Execute
  <2>2. Execute(r, "ranked_delete", [tx[r] EXCEPT !.done = @ + 1, !.deleted = Outdated(r)])
    BY <1>5 DEF DeleteRanked
  <2>3. [tx[r] EXCEPT !.done = @ + 1, !.deleted = Outdated(r)] = [z EXCEPT !.deleted = Outdated(r)]
    BY <1>1 DEF Transactions
  <2>4. z \in [done : 0 .. 5, locked : Nat, deleted : SUBSET Queues]
        /\ z.done = 3 /\ z.locked = tx[r].locked
    BY <1>1, <2>1 DEF Transactions
  <2>5. tx'[r] = [z EXCEPT !.deleted = Outdated(r)]
    BY <1>2, <2>2, <2>3
  <2> HIDE DEF z
  <2>6. tx'[r].done = 3 /\ tx'[r].locked = tx[r].locked /\ tx'[r].deleted = Outdated(r)
    BY <2>4, <2>5
  <2> QED
    BY <1>2, <2>1, <2>2, <2>6
<1>6. CASE UpsertMatchRow(r)
  <2>1. tx[r].done = 3
    BY <1>1, <1>6, DueIs DEF UpsertMatchRow, Execute
  <2>2. Execute(r, "matches", [tx[r] EXCEPT !.locked = @ + 1])
    BY <1>6 DEF UpsertMatchRow
  <2> QED
    BY <1>1, <1>2, <2>1, <2>2 DEF Transactions
<1>7. CASE UpsertMatchesEnds(r)
  <2>1. tx[r].done = 3
    BY <1>1, <1>7, DueIs DEF UpsertMatchesEnds, Execute
  <2>2. Execute(r, "matches", [tx[r] EXCEPT !.done = @ + 1])
    BY <1>7 DEF UpsertMatchesEnds
  <2> QED
    BY <1>1, <1>2, <2>1, <2>2 DEF Transactions
<1>8. CASE UpsertLinks(r)
  <2>1. tx[r].done = 4
    BY <1>1, <1>8, DueIs DEF UpsertLinks, Execute
  <2>2. Execute(r, "links", [tx[r] EXCEPT !.done = @ + 1])
    BY <1>8 DEF UpsertLinks
  <2> QED
    BY <1>1, <1>2, <2>1, <2>2 DEF Transactions
<1>9. ~Commit(r)
  <2>1. PICK s, x : Execute(r, s, x)
    BY DEF Writes
  <2>2. Due(r, s)
    BY <2>1 DEF Execute
  <2>3. tx[r].done < Len(PersistOrder(task[r])) /\ Len(PersistOrder(task[r])) \in Nat
    BY <2>2 DEF Due, PersistOrder
  <2> QED
    BY <1>1, <2>3 DEF Commit, ReadyToCommit
<1> QED
  BY <1>3, <1>4, <1>5, <1>6, <1>7, <1>8, <1>9 DEF Writes, Persist

(* What a commit does to everything but the tables. *)
LEMMA CommitsIs ==
  ASSUME IInv, NEW r \in Requests, Commits(r)
  PROVE  /\ pc[r] = "persist" /\ pc'[r] \in Ended /\ tx'[r] = NoTx
         /\ tx[r].done = IF task[r].failure = "none" THEN 5 ELSE 1
         /\ UNCHANGED task
         /\ \A q \in Requests \ {r} :
              pc'[q] = pc[q] /\ tx'[q] = tx[q] /\ answer'[q] = answer[q]
<1>1. /\ pc \in [Requests -> {"idle"} \cup Active \cup Ended]
      /\ tx \in [Requests -> Transactions] /\ answer \in [Requests -> Answers]
  BY DEF IInv, TypeOK
<1>2. ReadyToCommit(r) /\ EndTransaction(r) /\ UNCHANGED task /\ \E a : Reply(r, a)
  BY DEF Commits
<1>3. "answered" \in Ended
  BY DEF Ended
<1> QED
  BY <1>1, <1>2, <1>3, ReadyIs DEF EndTransaction, Reply, GoTo

----------------------------------------------------------------------------
(* The inductive invariant *)

AfterSummoner == {"ranked", "match_ids", "match"} \cup DbPoints

(* Only a refresh that has the summoner gets as far as a success. *)
FetchedInv(r) ==
  pc[r] \in AfterSummoner /\ task[r].failure = "none" => task[r].summoner

(* The player's row is locked by one transaction at a time. *)
OneWriter ==
  \A q, r \in Requests :
    q # r /\ tx[q].done > 0 /\ tx[r].done > 0 => task[q].player # task[r].player

(* The entries r has deleted are still all the outdated ones there are: no *)
(* other transaction has committed entries of its player since.            *)
WrittenInv(r) ==
  /\ tx[r].done < 3 => tx[r].deleted = {} /\ tx[r].locked = 0
  /\ tx[r].done >= 3 => tx[r].deleted = Outdated(r)

(* A profile was stored by a request that has ended, and beside it are     *)
(* that request's entries unless a failed refresh came after it.           *)
RowInv ==
  \A p \in Players :
    players[p] # None /\ players[p].profile \in Requests =>
      LET w == players[p].profile IN
      /\ pc[w] \in Ended
      /\ task[w].player = p
      /\ players[p].status # "failed" =>
           ranked[p] = [q \in Queues |-> IF q \in task[w].entries THEN w ELSE None]

WritersInv ==
  /\ OneWriter
  /\ RowInv
  /\ \A r \in Requests : FetchedInv(r) /\ WrittenInv(r)

LEMMA InitWritersInv == Init => WritersInv
<1> SUFFICES ASSUME Init PROVE WritersInv
  OBVIOUS
<1>1. \A r \in Requests : pc[r] = "idle" /\ tx[r].done = 0 /\ tx[r].deleted = {} /\ tx[r].locked = 0
  BY DEF Init, NoTx
<1>2. \A p \in Players : players[p] # None => players[p].profile = Earlier
  BY DEF Init
<1>3. "idle" \notin AfterSummoner
  BY DEF AfterSummoner, DbPoints
<1> QED
  BY <1>1, <1>2, <1>3, NoneAssumption DEF WritersInv, OneWriter, RowInv, FetchedInv, WrittenInv

(* What another request's rows say depends on what a step of r keeps.      *)
LEMMA WrittenKept ==
  ASSUME NEW q \in Requests, WrittenInv(q), task'[q] = task[q],
         tx'[q] = tx[q],
         tx[q].done >= 3 => ranked'[task[q].player] = ranked[task[q].player]
  PROVE  WrittenInv(q)'
BY DEF WrittenInv, Outdated

LEMMA NoTxWritten ==
  ASSUME NEW r \in Requests, tx'[r] = NoTx
  PROVE  WrittenInv(r)'
BY DEF WrittenInv, NoTx

LEMMA QuietWriters ==
  ASSUME IInv, WritersInv, Quiet
  PROVE  WritersInv'
<1>1. /\ players' = players /\ ranked' = ranked /\ task' = task
      /\ \A r \in Requests : tx'[r] = tx[r] \/ tx'[r] = NoTx
  BY DEF Quiet, store
<1>2. NoTx.done = 0
  BY DEF NoTx
<1>3. OneWriter'
  BY <1>1, <1>2 DEF WritersInv, OneWriter
<1>4. \A r \in Requests : pc[r] \in Ended => pc'[r] \in Ended
  BY DEF Quiet, Ended
<1>5. RowInv'
  BY <1>1, <1>4 DEF WritersInv, RowInv
<1>6. ASSUME NEW r \in Requests PROVE FetchedInv(r)' /\ WrittenInv(r)'
  <2>1. pc'[r] \in AfterSummoner => pc[r] \in AfterSummoner
    BY DEF Quiet, AfterSummoner, DbPoints, Ended
  <2>2. FetchedInv(r)'
    BY <1>1, <2>1 DEF WritersInv, FetchedInv
  <2> QED
    BY <1>1, <2>2, WrittenKept, NoTxWritten DEF WritersInv
<1> QED
  BY <1>3, <1>5, <1>6 DEF WritersInv

(* r's step leaves its summoner and its failure alone, or has settled them. *)
LEMMA FetchedStep ==
  ASSUME IInv, NEW r \in Requests, FetchedInv(r), Fetches(r)
  PROVE  FetchedInv(r)'
<1>1. /\ pc \in [Requests -> {"idle"} \cup Active \cup Ended]
      /\ task \in [Requests -> Tasks] /\ task[r] \in Tasks
  BY DEF IInv, TypeOK
<1>2. {"summoner", "answered"} \cap AfterSummoner = {}
  BY DEF AfterSummoner, DbPoints
<1>3. CASE AccountFound(r)
  BY <1>1, <1>2, <1>3 DEF FetchedInv, AccountFound, GoTo
<1>4. CASE AccountFails(r) \/ PayloadMalformed(r)
  BY <1>1, <1>2, <1>4 DEF FetchedInv, AccountFails, PayloadMalformed, Reply, GoTo
<1>5. CASE SummonerFound(r)
  BY <1>1, <1>5 DEF FetchedInv, SummonerFound, Tasks
<1>6. CASE ProfileFails(r)
  <2>1. PICK f \in RiotErrors : task' = [task EXCEPT ![r].failure = f]
    BY <1>6 DEF ProfileFails
  <2>2. task'[r].failure # "none"
    BY <1>1, <2>1 DEF RiotErrors, Tasks
  <2> QED
    BY <2>2 DEF FetchedInv
<1>7. CASE RankedFound(r) \/ MatchIdsFound(r) \/ MatchIdsFail(r) \/ PlanMatches(r)
  <2>1. pc[r] \in AfterSummoner
    BY <1>7 DEF RankedFound, MatchIdsFound, MatchIdsFail, PlanMatches, AfterSummoner, DbPoints
  <2>2. task'[r].failure = task[r].failure /\ task'[r].summoner = task[r].summoner
    BY <1>1, <1>7 DEF RankedFound, MatchIdsFound, MatchIdsFail, PlanMatches, Tasks
  <2> QED
    BY <2>1, <2>2 DEF FetchedInv
<1>8. CASE PlanLinks(r) \/ MatchFound(r) \/ MatchFails(r)
  <2>1. pc[r] \in AfterSummoner
    BY <1>8 DEF PlanLinks, MatchFound, MatchFails, AfterSummoner, DbPoints
  <2>2. \E t \in Tasks : /\ Continue(r, t)
                         /\ t.failure = task[r].failure /\ t.summoner = task[r].summoner
    <3>1. \A known : /\ Partitioned(task[r], known) \in Tasks
                     /\ Partitioned(task[r], known).failure = task[r].failure
                     /\ Partitioned(task[r], known).summoner = task[r].summoner
      BY <1>1, PartitionedType DEF Partitioned, Tasks
    <3>2. \A m \in Matches : /\ WithMatch(task[r], m) \in Tasks /\ WithFailure(task[r], m) \in Tasks
                             /\ WithMatch(task[r], m).failure = task[r].failure
                             /\ WithMatch(task[r], m).summoner = task[r].summoner
                             /\ WithFailure(task[r], m).failure = task[r].failure
                             /\ WithFailure(task[r], m).summoner = task[r].summoner
      BY <1>1, WithMatchType, WithFailureType DEF WithMatch, WithFailure, Tasks
    <3> QED
      BY <1>8, <3>1, <3>2 DEF PlanLinks, MatchFound, MatchFails
  <2>3. task'[r].failure = task[r].failure /\ task'[r].summoner = task[r].summoner
    BY <1>1, <2>2 DEF Continue, Backfilled, Tasks
  <2> QED
    BY <2>1, <2>3 DEF FetchedInv
<1> QED
  BY <1>3, <1>4, <1>5, <1>6, <1>7, <1>8 DEF Fetches, CallRiot, Plan

LEMMA FetchWriters ==
  ASSUME IInv, WritersInv, NEW r \in Requests, Fetches(r)
  PROVE  WritersInv'
<1>1. /\ players' = players /\ ranked' = ranked /\ tx' = tx
      /\ pc[r] \in Active /\ tx[r] = NoTx
      /\ \A q \in Requests \ {r} : pc'[q] = pc[q] /\ task'[q] = task[q]
  BY FetchFrame DEF store
<1>2. OneWriter'
  <2>1. tx[r].done = 0
    BY <1>1 DEF NoTx
  <2> QED
    BY <1>1, <2>1 DEF WritersInv, OneWriter
<1>3. RowInv'
  <2>1. pc[r] \notin Ended
    BY <1>1 DEF Active, FetchPoints, DbPoints, Ended
  <2>2. \A w \in Requests : pc[w] \in Ended => pc'[w] \in Ended /\ task'[w] = task[w]
    BY <1>1, <2>1
  <2> SUFFICES ASSUME NEW p \in Players, players[p] # None, NEW w, w = players[p].profile,
                      w \in Requests
               PROVE  /\ pc'[w] \in Ended /\ task'[w].player = p
                      /\ players[p].status # "failed" =>
                           ranked[p] = [q \in Queues |-> IF q \in task'[w].entries THEN w ELSE None]
    BY <1>1 DEF RowInv
  <2>3. /\ pc[w] \in Ended /\ task[w].player = p
        /\ players[p].status # "failed" =>
             ranked[p] = [q \in Queues |-> IF q \in task[w].entries THEN w ELSE None]
    BY DEF WritersInv, RowInv
  <2> QED
    BY <2>2, <2>3
<1>4. FetchedInv(r)' /\ WrittenInv(r)'
  BY <1>1, FetchedStep, NoTxWritten DEF WritersInv
<1>5. \A q \in Requests \ {r} : FetchedInv(q)' /\ WrittenInv(q)'
  BY <1>1, WrittenKept DEF WritersInv, FetchedInv
<1> QED
  BY <1>2, <1>3, <1>4, <1>5 DEF WritersInv

(* The statements that are due exclude each other.                         *)
LEMMA RowsWantedIs ==
  ASSUME NEW r \in Requests, tx[r].done \in 0 .. 5
  PROVE  /\ Due(r, "player") => RowsWanted(r) = {<<"player", task[r].player>>}
         /\ Due(r, "ranked_upsert") =>
              RowsWanted(r) = RankedRows(task[r].player, task[r].entries)
         /\ Due(r, "ranked_delete") =>
              RowsWanted(r) = RankedRows(task[r].player, Outdated(r))
         /\ Due(r, "matches") => RowsWanted(r) = NextMatchRow(r)
         /\ Due(r, "links") =>
              RowsWanted(r) = {<<"link", task[r].player, m>> : m \in task[r].linked}
         /\ pc[r] # "persist" \/ tx[r].done = 5 \/ (tx[r].done > 0 /\ task[r].failure # "none")
              => RowsWanted(r) = {}
<1>1. Due(r, "player") => RowsWanted(r) = {<<"player", task[r].player>>}
  BY DueIs DEF RowsWanted
<1>2. Due(r, "ranked_upsert") =>
        RowsWanted(r) = RankedRows(task[r].player, task[r].entries)
  BY DueIs DEF RowsWanted
<1>3. Due(r, "ranked_delete") => RowsWanted(r) = RankedRows(task[r].player, Outdated(r))
  BY DueIs DEF RowsWanted
<1>4. Due(r, "matches") => RowsWanted(r) = NextMatchRow(r)
  BY DueIs DEF RowsWanted
<1>5. Due(r, "links") =>
        RowsWanted(r) = {<<"link", task[r].player, m>> : m \in task[r].linked}
  BY DueIs DEF RowsWanted
<1>6. pc[r] # "persist" \/ tx[r].done = 5 \/ (tx[r].done > 0 /\ task[r].failure # "none")
        => RowsWanted(r) = {}
  BY DueIs DEF RowsWanted
<1> QED
  BY <1>1, <1>2, <1>3, <1>4, <1>5, <1>6

(* upsert_player is granted only when nobody has written the player's row. *)
LEMMA GrantedAlone ==
  ASSUME IInv, NEW r \in Requests, Granted(r), Due(r, "player"),
         NEW q \in Requests, q # r, tx[q].done > 0
  PROVE  task[q].player # task[r].player
<1>1. tx[q].done \in 0 .. 5 /\ TxInv(q)
  BY DEF IInv, TypeOK, Transactions
<1>2. HasDone(q, "player")
  BY <1>1, HasDoneIs DEF TxInv
<1>3. <<"player", task[q].player>> \in RowsHeld(q)
  BY <1>2 DEF RowsHeld
<1>4. RowsWanted(r) = {<<"player", task[r].player>>}
  BY RowsWantedIs DEF IInv, TypeOK, Transactions
<1> QED
  BY <1>3, <1>4 DEF Granted, WaitsFor

LEMMA WriteWriters ==
  ASSUME IInv, WritersInv, NEW r \in Requests, Writes(r)
  PROVE  WritersInv'
<1>1. /\ players' = players /\ ranked' = ranked /\ pc' = pc /\ task' = task
      /\ pc[r] = "persist" /\ Granted(r)
      /\ \A q \in Requests \ {r} : tx'[q] = tx[q]
  BY WritesIs DEF store
<1>2. tx[r].done \in 0 .. 5 /\ tx[r].locked \in Nat
  BY DEF IInv, TypeOK, Transactions
<1>3. OneWriter'
  <2>1. ASSUME NEW q \in Requests, q # r, tx[q].done > 0
        PROVE  task[q].player # task[r].player
    <3>1. CASE tx[r].done > 0
      BY <2>1, <3>1 DEF WritersInv, OneWriter
    <3>2. CASE tx[r].done = 0
      <4>1. Due(r, "player")
        BY <1>1, <1>2, <3>2, DueIs
      <4> QED
        BY <1>1, <2>1, <4>1, GrantedAlone
    <3> QED
      BY <1>2, <3>1, <3>2
  <2> QED
    BY <1>1, <2>1 DEF WritersInv, OneWriter
<1>4. RowInv'
  BY <1>1 DEF WritersInv, RowInv
<1>5. WrittenInv(r)'
  <2>1. Outdated(r)' = Outdated(r)
    BY <1>1 DEF Outdated
  <2>2. WrittenInv(r)
    BY DEF WritersInv
  <2> QED
    BY <1>2, <2>1, <2>2, WritesIs DEF WrittenInv
<1>6. \A q \in Requests \ {r} : WrittenInv(q)'
  BY <1>1, WrittenKept DEF WritersInv
<1>7. \A q \in Requests : FetchedInv(q)'
  BY <1>1 DEF WritersInv, FetchedInv
<1> QED
  BY <1>3, <1>4, <1>5, <1>6, <1>7 DEF WritersInv

----------------------------------------------------------------------------
(* What a COMMIT publishes *)

(* After a failure nothing but the player's row has been written.          *)
LEMMA FailurePublishes ==
  ASSUME IInv, WritersInv, NEW r \in Requests, Commits(r), task[r].failure # "none"
  PROVE  /\ players' = [players EXCEPT ![task[r].player] = PlayerRow(r, @)]
         /\ UNCHANGED <<ranked, matches, links>>
<1> DEFINE p == task[r].player
<1>1. Publish(r) /\ ReadyToCommit(r)
  BY DEF Commits
<1>2. /\ tx[r].done = 1 /\ tx[r].done \in 0 .. 5 /\ WrittenInv(r) /\ TxInv(r)
      /\ ranked \in [Players -> [Queues -> Versions]]
  BY CommitsIs DEF IInv, TypeOK, Transactions, WritersInv
<1>3. p \in Players /\ ranked[p] \in [Queues -> Versions]
  BY <1>1, <1>2, CommittedMatches
<1>4. ~HasDone(r, "ranked_upsert") /\ ~HasDone(r, "links")
  BY <1>2, HasDoneIs DEF TxInv
<1>5. tx[r].deleted = {} /\ tx[r].locked = 0
  BY <1>2 DEF WrittenInv
<1>6. RankedAfter(r, ranked[p]) = ranked[p]
  BY <1>3, <1>4, <1>5 DEF RankedAfter
<1>7. WrittenMatches(r) = {}
  BY <1>5 DEF WrittenMatches
<1> QED
  BY <1>1, <1>2, <1>3, <1>4, <1>6, <1>7 DEF Publish

(* A success replaces the entries and adds the matches with their links.   *)
LEMMA SuccessPublishes ==
  ASSUME IInv, WritersInv, NEW r \in Requests, Commits(r), task[r].failure = "none"
  PROVE  LET p == task[r].player IN
         /\ players' = [players EXCEPT ![p] = [profile |-> r, status |-> Outcome(task[r])]]
         /\ ranked' = [ranked EXCEPT ![p] =
                         [q \in Queues |-> IF q \in task[r].entries THEN r ELSE None]]
         /\ matches' = matches \cup task[r].linked
         /\ links' = links \cup {p} \X task[r].linked
<1> DEFINE p == task[r].player
           new == [q \in Queues |-> IF q \in task[r].entries THEN r ELSE None]
<1>1. Publish(r) /\ ReadyToCommit(r)
  BY DEF Commits
<1>2. /\ tx[r].done = 5 /\ tx[r].done \in 0 .. 5 /\ WrittenInv(r) /\ TxInv(r) /\ TaskInv(r)
      /\ FetchedInv(r) /\ pc[r] = "persist"
  BY CommitsIs DEF IInv, TypeOK, Transactions, WritersInv
<1>3. HasDone(r, "ranked_upsert") /\ HasDone(r, "links")
  BY <1>2, HasDoneIs DEF TxInv
<1>4. RankedAfter(r, ranked[p]) = new
  <2>1. tx[r].deleted = {q \in Queues \ task[r].entries : ranked[p][q] # None}
    BY <1>2 DEF WrittenInv, Outdated
  <2> QED
    BY <1>3, <2>1 DEF RankedAfter
<1>5. task[r].summoner
  BY <1>2 DEF FetchedInv, AfterSummoner, DbPoints
<1>6. \A old : PlayerRow(r, old) = [profile |-> r, status |-> Outcome(task[r])]
  BY <1>5 DEF PlayerRow
<1>7. matches \cup WrittenMatches(r) = matches \cup task[r].linked
  BY <1>1, <1>2, <1>3, CommittedMatches DEF TaskInv
<1> QED
  BY <1>1, <1>3, <1>4, <1>6, <1>7 DEF Publish

LEMMA CommitWriters ==
  ASSUME IInv, WritersInv, NEW r \in Requests, Commits(r)
  PROVE  WritersInv'
<1> DEFINE p == task[r].player
<1>1. /\ pc[r] = "persist" /\ pc'[r] \in Ended /\ tx'[r] = NoTx /\ task' = task
      /\ \A q \in Requests \ {r} : pc'[q] = pc[q] /\ tx'[q] = tx[q]
  BY CommitsIs
<1>2. /\ p \in Players /\ task[r] \in Tasks
      /\ players \in [Players -> PlayerRows \cup {None}]
      /\ ranked \in [Players -> [Queues -> Versions]]
  BY CommittedMatches DEF Commits, IInv, TypeOK
<1>3. tx[r].done > 0
  BY CommitsIs
<1>4. "persist" \notin Ended /\ Ended \cap AfterSummoner = {}
  BY DEF Ended, AfterSummoner, DbPoints
<1>5. \A o \in Players \ {p} : players'[o] = players[o] /\ ranked'[o] = ranked[o]
  <2>1. CASE task[r].failure = "none"
    BY <1>2, <2>1, SuccessPublishes
  <2>2. CASE task[r].failure # "none"
    BY <1>2, <2>2, FailurePublishes
  <2> QED
    BY <2>1, <2>2
<1>6. OneWriter'
  BY <1>1 DEF WritersInv, OneWriter, NoTx
<1>7. ASSUME NEW q \in Requests PROVE FetchedInv(q)' /\ WrittenInv(q)'
  <2>1. CASE q = r
    BY <1>1, <1>4, <2>1, NoTxWritten DEF FetchedInv
  <2>2. CASE q # r
    <3>1. tx[q].done >= 3 => ranked'[task[q].player] = ranked[task[q].player]
      <4>1. tx[q].done \in 0 .. 5 /\ (tx[q].done > 0 => pc[q] = "persist") /\ TaskInv(q)
        BY DEF IInv, TypeOK, Transactions, TxInv, NoTx
      <4>2. tx[q].done >= 3 => task[q].player # p /\ task[q].player \in Players
        BY <1>3, <2>2, <4>1 DEF WritersInv, OneWriter, TaskInv, Active, DbPoints
      <4> QED
        BY <1>5, <4>2
    <3> QED
      BY <1>1, <2>2, <3>1, WrittenKept DEF WritersInv, FetchedInv
  <2> QED
    BY <2>1, <2>2
<1>8. RowInv'
  <2> SUFFICES ASSUME NEW o \in Players, players'[o] # None, NEW w, w = players'[o].profile,
                      w \in Requests
               PROVE  /\ pc'[w] \in Ended /\ task[w].player = o
                      /\ players'[o].status # "failed" =>
                           ranked'[o] = [q \in Queues |-> IF q \in task[w].entries THEN w ELSE None]
    BY <1>1 DEF RowInv
  <2>1. \A v \in Requests : pc[v] \in Ended => pc'[v] \in Ended
    BY <1>1
  <2>2. ASSUME players[o] # None, players[o].profile = w
        PROVE  /\ pc[w] \in Ended /\ task[w].player = o
               /\ players[o].status # "failed" =>
                    ranked[o] = [q \in Queues |-> IF q \in task[w].entries THEN w ELSE None]
    BY <2>2 DEF WritersInv, RowInv
  <2>3. CASE o # p
    BY <1>5, <2>1, <2>2, <2>3
  <2>4. CASE o = p /\ task[r].failure = "none"
    <3>1. players'[o] = [profile |-> r, status |-> Outcome(task[r])]
      BY <1>2, <2>4, SuccessPublishes
    <3>2. w = r
      BY <3>1
    <3>3. ranked'[o] = [q \in Queues |-> IF q \in task[r].entries THEN r ELSE None]
      BY <1>2, <2>4, SuccessPublishes
    <3> QED
      BY <1>1, <2>4, <3>2, <3>3
  <2>5. CASE o = p /\ task[r].failure # "none"
    <3>1. players'[o] = PlayerRow(r, players[o])
      BY <1>2, <2>5, FailurePublishes
    <3>2. players'[o].status = "failed"
      BY <2>5, <3>1 DEF PlayerRow, Outcome
    <3>3. w = r \/ (players[o] # None /\ players[o].profile = w)
      BY <3>1, NoneAssumption DEF PlayerRow
    <3> QED
      BY <1>1, <2>1, <2>2, <2>5, <3>2, <3>3
  <2> QED
    BY <2>3, <2>4, <2>5
<1> QED
  BY <1>6, <1>7, <1>8 DEF WritersInv

LEMMA NextWritersInv == IInv /\ WritersInv /\ [Next]_vars => WritersInv'
BY StepKinds, QuietWriters, FetchWriters, WriteWriters, CommitWriters

LEMMA WritersInvariance == Spec => [](IInv /\ WritersInv)
BY InitIInv, NextIInv, InitWritersInv, NextWritersInv, PTL DEF Spec

----------------------------------------------------------------------------
(* Theorems *)

(* The transactions that write one player's rows follow each other: the    *)
(* lock on the player's row admits one of them at a time.                  *)
THEOREM PlayersHaveOneWriter == Spec => []OneWriter
<1>1. WritersInv => OneWriter
  BY DEF WritersInv
<1> QED
  BY <1>1, WritersInvariance, PTL

(* A reader finds beside the profile of one refresh the ranked entries of  *)
(* the same refresh, unless a failed one came after it.                    *)
THEOREM ProfileAndRankedMatch == Spec => []ProfileAndRankedAgree
<1>1. WritersInv => ProfileAndRankedAgree
  BY DEF WritersInv, RowInv, ProfileAndRankedAgree
<1> QED
  BY <1>1, WritersInvariance, PTL

LEMMA NotCommitted ==
  ASSUME IInv, NEW r \in Requests, Fetches(r) \/ Writes(r)
  PROVE  UNCHANGED store
BY FetchFrame, WritesIs

(* No commit takes a profile away: a failed refresh that got no summoner   *)
(* leaves the one that was stored.                                         *)
THEOREM ProfilesAreKept == Spec => ProfileIsKept
<1>1. ASSUME IInv, WritersInv, [Next]_vars, NEW p \in Players,
             players[p] # None, players[p].profile # None
      PROVE  players'[p] # None /\ players'[p].profile # None
  <2>1. CASE players'[p] = players[p]
    BY <1>1, <2>1
  <2>2. ASSUME NEW r \in Requests, Commits(r), players'[p] # players[p]
        PROVE  players'[p] # None /\ players'[p].profile # None
    <3>1. players \in [Players -> PlayerRows \cup {None}] /\ p = task[r].player
      BY <1>1, <2>2, FailurePublishes, SuccessPublishes DEF IInv, TypeOK
    <3>2. \/ players'[p] = PlayerRow(r, players[p])
          \/ players'[p] = [profile |-> r, status |-> Outcome(task[r])]
      BY <1>1, <2>2, <3>1, FailurePublishes, SuccessPublishes
    <3>3. players'[p] \in PlayerRows /\ players'[p].profile # None
      BY <1>1, <3>1, <3>2, NoneAssumption
      DEF PlayerRow, PlayerRows, Outcome, Statuses, Versions
    <3> QED
      BY <3>3, NoRowAssumption
  <2>3. \/ UNCHANGED store
        \/ \E r \in Requests : Commits(r)
    BY <1>1, StepKinds, NotCommitted DEF Quiet
  <2> QED
    BY <2>1, <2>2, <2>3 DEF store
<1>2. IInv /\ WritersInv /\ [Next]_vars =>
        [\A p \in Players : players[p] # None /\ players[p].profile # None =>
           players'[p] # None /\ players'[p].profile # None]_vars
  BY <1>1
<1> QED
  BY <1>2, WritersInvariance, PTL DEF Spec, ProfileIsKept

(* A request that is answered with a Riot error has changed nothing that   *)
(* readers see but its player's row.                                       *)
THEOREM FailuresTouchOnlyTheRow == Spec => FailureTouchesOnlyTheRow
<1>1. ASSUME IInv, WritersInv, [Next]_vars, NEW r \in Requests,
             answer[r] = "none", answer'[r] \in {"not_found", "bad_gateway"}
      PROVE  UNCHANGED <<ranked, matches, links>>
  <2>1. CASE Quiet
    BY <2>1 DEF Quiet, store
  <2>2. ASSUME NEW q \in Requests, Fetches(q) \/ Writes(q)
        PROVE  UNCHANGED <<ranked, matches, links>>
    BY <1>1, <2>2, NotCommitted DEF store
  <2>3. ASSUME NEW q \in Requests, Commits(q)
        PROVE  UNCHANGED <<ranked, matches, links>>
    <3>1. q = r
      BY <1>1, <2>3, CommitsIs
    <3>2. PICK a : Reply(r, a) /\ (a \in {"not_found", "bad_gateway"} => task[r].failure # "none")
      BY <2>3, <3>1 DEF Commits
    <3>3. answer'[r] = a
      BY <1>1, <3>2 DEF Reply, IInv, TypeOK
    <3> QED
      BY <1>1, <2>3, <3>1, <3>2, <3>3, FailurePublishes
  <2> QED
    BY <1>1, <2>1, <2>2, <2>3, StepKinds
<1>2. IInv /\ WritersInv /\ [Next]_vars =>
        [(\E r \in Requests : answer[r] = "none" /\ answer'[r] \in {"not_found", "bad_gateway"})
           => UNCHANGED <<ranked, matches, links>>]_vars
  BY <1>1
<1> QED
  BY <1>2, WritersInvariance, PTL DEF Spec, FailureTouchesOnlyTheRow

----------------------------------------------------------------------------
(* The refinement *)

LEMMA InitStore == Init => Store!Init
BY DEF Init, Store!Init, OldMatches, OldPlayers

LEMMA SuccessIsAbstract ==
  ASSUME IInv, WritersInv, NEW r \in Requests, Commits(r), task[r].failure = "none"
  PROVE  Store!Next
<1> DEFINE p == task[r].player
           t == task[r]
<1>1. /\ p \in Players /\ t \in Tasks /\ TaskInv(r)
  BY CommittedMatches DEF Commits, IInv, TypeOK
<1>2. t.entries \in SUBSET Queues /\ t.linked \in SUBSET {m \in Matches : p \in Participants[m]}
  BY <1>1 DEF Tasks, TaskInv
<1>3. Outcome(t) \in {"success", "partial_success"}
  BY DEF Outcome
<1>4. Store!RefreshSucceeds(r, p, t.entries, t.linked)
  BY <1>3, SuccessPublishes DEF Store!RefreshSucceeds
<1> QED
  BY <1>1, <1>2, <1>4 DEF Store!Next

LEMMA FailureIsAbstract ==
  ASSUME IInv, WritersInv, NEW r \in Requests, Commits(r), task[r].failure # "none"
  PROVE  Store!Next
<1> DEFINE p == task[r].player
           old == IF players[p] = None THEN None ELSE players[p].profile
<1>1. p \in Players
  BY CommittedMatches DEF Commits
<1>2. \E profile \in {r, old} : PlayerRow(r, players[p]) = [profile |-> profile, status |-> "failed"]
  BY DEF PlayerRow, Outcome
<1>3. Store!RefreshFails(r, p)
  BY <1>2, FailurePublishes DEF Store!RefreshFails
<1> QED
  BY <1>1, <1>3 DEF Store!Next

LEMMA StoreStep == IInv /\ WritersInv /\ [Next]_vars => [Store!Next]_(Store!store)
<1> SUFFICES ASSUME IInv, WritersInv, [Next]_vars
             PROVE  Store!Next \/ UNCHANGED Store!store
  OBVIOUS
<1>1. UNCHANGED store => UNCHANGED Store!store
  BY DEF store, Store!store
<1> QED
  BY <1>1, StepKinds, NotCommitted, SuccessIsAbstract, FailureIsAbstract DEF Quiet

(* The tables change by whole refreshes: every COMMIT, confirmed or not,   *)
(* is one step of RefreshStore, and every other step is none.              *)
THEOREM Implementation == Spec => ReadersSeeWholeRefreshes
<1>1. Spec => Store!Init /\ [][Store!Next]_(Store!store)
  BY InitStore, StoreStep, WritersInvariance, PTL DEF Spec
<1> QED
  BY <1>1 DEF ReadersSeeWholeRefreshes, Store!Spec
=============================================================================
