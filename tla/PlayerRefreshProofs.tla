------------------------- MODULE PlayerRefreshProofs -------------------------
(***************************************************************************)
(* Theorems about PlayerRefresh for any set of requests, players, queues   *)
(* and matches, with proofs checked by TLAPS.                              *)
(***************************************************************************)
EXTENDS PlayerRefresh, TLAPS

----------------------------------------------------------------------------
(* Lemmas about the operators the actions are built from *)

LEMMA ElementsType ==
  ASSUME NEW S, NEW ids \in Seq(S)
  PROVE  Elements(ids) \subseteq S
BY DEF Elements

LEMMA NewTaskType == NewTask \in Tasks
BY DEF NewTask, Tasks

(* The collector's functions map locals to locals. *)
LEMMA BackfilledType ==
  ASSUME NEW t \in Tasks
  PROVE  Backfilled(t) \in Tasks
BY DEF Backfilled, Tasks

LEMMA PartitionedType ==
  ASSUME NEW t \in Tasks, NEW known
  PROVE  Partitioned(t, known) \in Tasks
BY ElementsType DEF Partitioned, Tasks

LEMMA WithFailureType ==
  ASSUME NEW t \in Tasks, NEW m \in Matches
  PROVE  WithFailure(t, m) \in Tasks
BY DEF WithFailure, Tasks

LEMMA WithMatchType ==
  ASSUME NEW t \in Tasks, NEW m \in Matches
  PROVE  WithMatch(t, m) \in Tasks
<1>1. Append(t.records, m) \in Seq(Matches)
  BY DEF Tasks
<1>2. [t EXCEPT !.missing = @ \ {m}, !.records = Append(@, m), !.linked = @ \cup {m}] \in Tasks
  BY <1>1 DEF Tasks
<1> QED
  BY <1>2, WithFailureType DEF WithMatch, Recordable

----------------------------------------------------------------------------
(* The inductive invariant *)

BeforeCollecting ==
  {"idle", "account", "summoner", "ranked", "match_ids", "plan_matches", "plan_links"}

(* What a coroutine's locals say: links are collected for the player only, *)
(* from matches that were stored when the plan was made or are recorded.   *)
TaskInv(r) ==
  LET t == task[r] IN
  /\ pc[r] \in Active \ {"account"} => t.player \in Players
  /\ pc[r] \in BeforeCollecting => t.records = << >> /\ t.linked = {} /\ t.backfill = {}
  /\ t.existing \subseteq matches
  /\ t.backfill \subseteq t.existing
  /\ Elements(t.records) \subseteq t.linked
  /\ t.linked \subseteq t.existing \cup Elements(t.records)
  /\ \A m \in t.linked : t.player \in Participants[m]

(* How far a transaction is: only a successful refresh writes matches, and *)
(* it has written all its records before it goes on to the links.          *)
TxInv(r) ==
  LET t == task[r] IN
  /\ pc[r] # "persist" => tx[r] = NoTx
  /\ tx[r].done > 1 => t.failure = "none"
  /\ tx[r].locked <= Len(t.records)
  /\ tx[r].locked > 0 => t.failure = "none"
  /\ tx[r].done > 3 => tx[r].locked = Len(t.records)

(* The committed tables are consistent with each other. *)
StoreInv ==
  /\ \A p \in Players : players[p] = None => \A q \in Queues : ranked[p][q] = None
  /\ \A link \in links : players[link[1]] # None /\ link[2] \in matches
  /\ EveryMatchHasALink

IInv ==
  /\ TypeOK
  /\ \A r \in Requests : TaskInv(r) /\ TxInv(r)
  /\ StoreInv

(* What a step of one request leaves alone of the others.                  *)
LEMMA OthersKeep ==
  ASSUME IInv, NEW q \in Requests,
         pc'[q] = pc[q], task'[q] = task[q], tx'[q] = tx[q],
         matches \subseteq matches'
  PROVE  TaskInv(q)' /\ TxInv(q)'
<1>1. TaskInv(q) /\ TxInv(q)
  BY DEF IInv
<1>2. TaskInv(q)'
  BY <1>1 DEF TaskInv
<1>3. TxInv(q)'
  BY <1>1 DEF TxInv
<1> QED
  BY <1>2, <1>3

(* The statements executed are a prefix of PersistOrder.                   *)
LEMMA HasDoneIs ==
  ASSUME NEW r \in Requests, tx[r].done \in 0 .. 5,
         tx[r].done > 1 => task[r].failure = "none"
  PROVE  /\ HasDone(r, "player") <=> tx[r].done > 0
         /\ HasDone(r, "ranked_upsert") <=> tx[r].done > 1
         /\ HasDone(r, "ranked_delete") <=> tx[r].done > 2
         /\ HasDone(r, "matches") <=> tx[r].done > 3
         /\ HasDone(r, "links") <=> tx[r].done > 4
<1>1. CASE task[r].failure = "none"
  <2>1. PersistOrder(task[r]) = <<"player", "ranked_upsert", "ranked_delete", "matches", "links">>
    BY <1>1 DEF PersistOrder
  <2> QED
    BY <2>1 DEF HasDone
<1>2. CASE task[r].failure # "none"
  <2>1. PersistOrder(task[r]) = <<"player">>
    BY <1>2 DEF PersistOrder
  <2>2. tx[r].done \in 0 .. 1
    BY <1>2
  <2> QED
    BY <2>1, <2>2 DEF HasDone
<1> QED
  BY <1>1, <1>2

LEMMA DueIs ==
  ASSUME NEW r \in Requests, tx[r].done \in 0 .. 5
  PROVE  /\ Due(r, "player") <=> pc[r] = "persist" /\ tx[r].done = 0
         /\ Due(r, "ranked_upsert") <=>
              pc[r] = "persist" /\ tx[r].done = 1 /\ task[r].failure = "none"
         /\ Due(r, "ranked_delete") <=>
              pc[r] = "persist" /\ tx[r].done = 2 /\ task[r].failure = "none"
         /\ Due(r, "matches") <=>
              pc[r] = "persist" /\ tx[r].done = 3 /\ task[r].failure = "none"
         /\ Due(r, "links") <=>
              pc[r] = "persist" /\ tx[r].done = 4 /\ task[r].failure = "none"
<1>1. CASE task[r].failure = "none"
  <2>1. PersistOrder(task[r]) = <<"player", "ranked_upsert", "ranked_delete", "matches", "links">>
    BY <1>1 DEF PersistOrder
  <2> QED
    BY <1>1, <2>1 DEF Due
<1>2. CASE task[r].failure # "none"
  <2>1. PersistOrder(task[r]) = <<"player">>
    BY <1>2 DEF PersistOrder
  <2> QED
    BY <1>2, <2>1 DEF Due
<1> QED
  BY <1>1, <1>2

LEMMA ReadyIs ==
  ASSUME NEW r \in Requests
  PROVE  ReadyToCommit(r) <=> /\ pc[r] = "persist"
                              /\ tx[r].done = IF task[r].failure = "none" THEN 5 ELSE 1
<1>1. CASE task[r].failure = "none"
  <2>1. PersistOrder(task[r]) = <<"player", "ranked_upsert", "ranked_delete", "matches", "links">>
    BY <1>1 DEF PersistOrder
  <2> QED
    BY <1>1, <2>1 DEF ReadyToCommit
<1>2. CASE task[r].failure # "none"
  <2>1. PersistOrder(task[r]) = <<"player">>
    BY <1>2 DEF PersistOrder
  <2> QED
    BY <1>2, <2>1 DEF ReadyToCommit
<1> QED
  BY <1>1, <1>2

----------------------------------------------------------------------------
(* The initial states satisfy the invariant *)

LEMMA InitIInv == Init => IInv
<1> SUFFICES ASSUME Init PROVE IInv
  OBVIOUS
<1>1. TypeOK
  <2>1. players \in [Players -> PlayerRows \cup {None}]
    BY DEF Init, PlayerRows, Versions, Statuses
  <2>2. ranked \in [Players -> [Queues -> Versions]]
    BY DEF Init, Versions
  <2>3. matches \subseteq Matches /\ links \subseteq Players \X Matches
    BY OldLinksAssumption DEF Init, OldMatches
  <2>4. task \in [Requests -> Tasks]
    BY NewTaskType DEF Init
  <2>5. tx \in [Requests -> Transactions]
    BY DEF Init, NoTx, Transactions
  <2>6. pc \in [Requests -> {"idle"} \cup Active \cup Ended] /\ answer \in [Requests -> Answers]
    BY DEF Init, Answers
  <2> QED
    BY <2>1, <2>2, <2>3, <2>4, <2>5, <2>6 DEF TypeOK
<1>2. ASSUME NEW r \in Requests PROVE TaskInv(r) /\ TxInv(r)
  <2>1. "idle" \notin Active
    BY DEF Active, FetchPoints, DbPoints
  <2>2. TaskInv(r)
    BY <2>1 DEF Init, TaskInv, NewTask, Elements
  <2>3. TxInv(r)
    BY DEF Init, TxInv, NewTask, NoTx
  <2> QED
    BY <2>2, <2>3
<1>3. StoreInv
  <2>1. EveryMatchHasALink
    BY OldLinksAssumption DEF Init, OldMatches, EveryMatchHasALink
  <2>2. \A link \in links : players[link[1]] # None /\ link[2] \in matches
    <3>1. [profile |-> Earlier, status |-> "success"] # None
      BY NoRowAssumption DEF PlayerRows, Versions, Statuses
    <3> QED
      BY <3>1, OldLinksAssumption DEF Init, OldMatches, OldPlayers
  <2>3. \A p \in Players : \A q \in Queues : ranked[p][q] = None
    BY DEF Init
  <2> QED
    BY <2>1, <2>2, <2>3 DEF StoreInv
<1> QED
  BY <1>1, <1>2, <1>3 DEF IInv

----------------------------------------------------------------------------
(* Every step preserves it *)

(* A step of r that leaves the tables alone. *)
LEMMA LocalStep ==
  ASSUME IInv, NEW r \in Requests, UNCHANGED store,
         NEW t \in Tasks, NEW point \in {"idle"} \cup Active \cup Ended,
         NEW x \in Transactions,
         task' = [task EXCEPT ![r] = t],
         pc' = [pc EXCEPT ![r] = point],
         tx' = [tx EXCEPT ![r] = x],
         answer' \in [Requests -> Answers],
         TaskInv(r)', TxInv(r)'
  PROVE  IInv'
<1>1. TypeOK'
  BY DEF IInv, TypeOK, store
<1>2. ASSUME NEW q \in Requests PROVE TaskInv(q)' /\ TxInv(q)'
  <2>1. CASE q = r
    BY <2>1
  <2>2. CASE q # r
    <3>1. pc'[q] = pc[q] /\ task'[q] = task[q] /\ tx'[q] = tx[q] /\ matches \subseteq matches'
      BY <2>2 DEF IInv, TypeOK, store
    <3> QED
      BY <3>1, OthersKeep
  <2> QED
    BY <2>1, <2>2
<1>3. StoreInv'
  BY DEF IInv, StoreInv, EveryMatchHasALink, store
<1> QED
  BY <1>1, <1>2, <1>3 DEF IInv

LEMMA ReceiveStep ==
  ASSUME IInv, NEW r \in Requests, Receive(r)
  PROVE  IInv'
<1>1. pc[r] = "idle" /\ task[r] \in Tasks /\ tx[r] \in Transactions /\ TaskInv(r) /\ TxInv(r)
  BY DEF IInv, TypeOK, Receive
<1>2. /\ task' = [task EXCEPT ![r] = task[r]]
      /\ pc' = [pc EXCEPT ![r] = "account"]
      /\ tx' = [tx EXCEPT ![r] = tx[r]]
      /\ UNCHANGED store
      /\ answer' \in [Requests -> Answers]
  BY DEF IInv, TypeOK, Receive, GoTo
<1>3. "account" \in Active
  BY DEF Active, FetchPoints
<1>4. pc'[r] = "account" /\ task'[r] = task[r] /\ tx'[r] = tx[r] /\ matches' = matches
  BY <1>2 DEF IInv, TypeOK, store
<1>5. TaskInv(r)'
  BY <1>1, <1>4 DEF TaskInv, BeforeCollecting
<1>6. TxInv(r)'
  BY <1>1, <1>4 DEF TxInv
<1> QED
  BY <1>1, <1>2, <1>3, <1>5, <1>6, LocalStep

(* A call to Riot, except for the details of a match: the step changes the *)
(* fields player, summoner, entries, failure, ids and idsFailed at most.   *)
LEMMA FetchStep ==
  ASSUME IInv, NEW r \in Requests, UNCHANGED <<store, tx>>,
         NEW t \in Tasks, NEW point \in Active \cup Ended,
         task' = [task EXCEPT ![r] = t],
         pc' = [pc EXCEPT ![r] = point],
         answer' \in [Requests -> Answers],
         pc[r] \in FetchPoints,
         point \in Active \ {"account"} => t.player \in Players,
         point # "match",
         pc[r] # "account" => t.player = task[r].player,
         pc[r] = "match" => point \in Ended,
         t.existing = task[r].existing, t.backfill = task[r].backfill,
         t.records = task[r].records, t.linked = task[r].linked
  PROVE  IInv'
<1>1. TaskInv(r) /\ TxInv(r) /\ tx[r] \in Transactions
  BY DEF IInv, TypeOK
<1>2. pc'[r] = point /\ task'[r] = t /\ tx'[r] = NoTx /\ tx[r] = NoTx /\ matches' = matches
  BY <1>1 DEF IInv, TypeOK, store, TxInv, FetchPoints
<1>3. pc[r] # "match" => t.linked = {} /\ t.records = << >> /\ t.backfill = {}
  BY <1>1 DEF TaskInv, BeforeCollecting, FetchPoints
<1>4. BeforeCollecting \cap Ended = {}
  BY DEF BeforeCollecting, Ended
<1>5. Elements(t.records) = Elements(task[r].records)
  OBVIOUS
<1>6. TaskInv(r)'
  BY <1>1, <1>2, <1>3, <1>4, <1>5 DEF TaskInv
<1>7. TxInv(r)'
  <2>1. Len(t.records) \in Nat
    BY DEF Tasks
  <2> QED
    BY <1>2, <2>1 DEF TxInv, NoTx
<1>8. tx' = [tx EXCEPT ![r] = tx[r]]
  BY DEF IInv, TypeOK
<1> QED
  BY <1>1, <1>6, <1>7, <1>8, LocalStep

LEMMA CallRiotStep ==
  ASSUME IInv, NEW r \in Requests, CallRiot(r), ~MatchFound(r), ~MatchFails(r)
  PROVE  IInv'
<1>1. /\ task[r] \in Tasks /\ TaskInv(r) /\ answer \in [Requests -> Answers]
      /\ task \in [Requests -> Tasks] /\ pc \in [Requests -> {"idle"} \cup Active \cup Ended]
  BY DEF IInv, TypeOK
<1>2. /\ {"summoner", "ranked", "match_ids", "persist", "plan_matches"} \subseteq Active
      /\ "answered" \in Ended /\ "answered" \notin Active
      /\ {"ok", "not_found", "bad_gateway", "error"} \subseteq Answers
  BY DEF Active, FetchPoints, DbPoints, Ended, Answers
<1>3. pc[r] \in FetchPoints /\ pc[r] # "account" => task[r].player \in Players
  BY <1>1 DEF TaskInv, Active
<1>4. CASE AccountFound(r)
  <2>1. PICK p \in Players : task' = [task EXCEPT ![r].player = p]
    BY <1>4 DEF AccountFound
  <2>2. [task[r] EXCEPT !.player = p] \in Tasks
    BY <1>1 DEF Tasks
  <2> QED
    BY <1>1, <1>2, <1>4, <2>1, <2>2, FetchStep DEF AccountFound, GoTo, FetchPoints, store, Tasks
<1>5. CASE AccountFails(r)
  <2>1. PICK f \in RiotErrors : task' = [task EXCEPT ![r].failure = f] /\ Reply(r, ErrorAnswer(f))
    BY <1>5 DEF AccountFails
  <2>2. [task[r] EXCEPT !.failure = f] \in Tasks
    BY <1>1 DEF Tasks
  <2>3. ErrorAnswer(f) \in Answers
    BY <1>2 DEF ErrorAnswer
  <2> QED
    BY <1>1, <1>2, <1>5, <2>1, <2>2, <2>3, FetchStep
    DEF AccountFails, Reply, GoTo, FetchPoints, store, Tasks
<1>6. CASE SummonerFound(r)
  <2>1. [task[r] EXCEPT !.summoner = TRUE] \in Tasks
    BY <1>1 DEF Tasks
  <2> QED
    BY <1>1, <1>2, <1>3, <1>6, <2>1, FetchStep
    DEF SummonerFound, GoTo, FetchPoints, store, Tasks
<1>7. CASE RankedFound(r)
  <2>1. PICK entries \in SUBSET Queues : task' = [task EXCEPT ![r].entries = entries]
    BY <1>7 DEF RankedFound
  <2>2. [task[r] EXCEPT !.entries = entries] \in Tasks
    BY <1>1 DEF Tasks
  <2> QED
    BY <1>1, <1>2, <1>3, <1>7, <2>1, <2>2, FetchStep
    DEF RankedFound, GoTo, FetchPoints, store, Tasks
<1>8. CASE ProfileFails(r)
  <2>1. PICK f \in RiotErrors : task' = [task EXCEPT ![r].failure = f]
    BY <1>8 DEF ProfileFails
  <2>2. [task[r] EXCEPT !.failure = f] \in Tasks
    BY <1>1 DEF Tasks
  <2> QED
    BY <1>1, <1>2, <1>3, <1>8, <2>1, <2>2, FetchStep
    DEF ProfileFails, GoTo, FetchPoints, store, Tasks
<1>9. CASE MatchIdsFound(r)
  <2>1. PICK ids \in MatchLists :
          /\ task' = [task EXCEPT ![r].ids = ids]
          /\ GoTo(r, IF ids = << >> THEN "persist" ELSE "plan_matches")
    BY <1>9 DEF MatchIdsFound
  <2>2. [task[r] EXCEPT !.ids = ids] \in Tasks
    BY <1>1, MatchListsAssumption DEF Tasks
  <2> QED
    BY <1>1, <1>2, <1>3, <1>9, <2>1, <2>2, FetchStep
    DEF MatchIdsFound, GoTo, FetchPoints, store, Tasks
<1>10. CASE MatchIdsFail(r)
  <2>1. [task[r] EXCEPT !.idsFailed = TRUE] \in Tasks
    BY <1>1 DEF Tasks
  <2> QED
    BY <1>1, <1>2, <1>3, <1>10, <2>1, FetchStep
    DEF MatchIdsFail, GoTo, FetchPoints, store, Tasks
<1>11. CASE PayloadMalformed(r)
  <2>1. [task[r] EXCEPT !.failure = "malformed"] \in Tasks
    BY <1>1 DEF Tasks
  <2> QED
    BY <1>1, <1>2, <1>11, <2>1, FetchStep
    DEF PayloadMalformed, Reply, GoTo, FetchPoints, store, Tasks
<1> QED
  BY <1>4, <1>5, <1>6, <1>7, <1>8, <1>9, <1>10, <1>11 DEF CallRiot

(* The step that decides how the loop over the missing matches goes on.    *)
LEMMA ContinueStep ==
  ASSUME IInv, NEW r \in Requests, NEW t \in Tasks, Continue(r, t),
         UNCHANGED <<store, tx, answer>>,
         pc[r] \in {"plan_links", "match"},
         t.player = task[r].player,
         t.existing \subseteq matches,
         t.backfill \subseteq t.existing,
         Elements(t.records) \subseteq t.linked,
         t.linked \subseteq t.existing \cup Elements(t.records),
         \A m \in t.linked : t.player \in Participants[m]
  PROVE  IInv'
<1> DEFINE u == IF t.missing = {} THEN Backfilled(t) ELSE t
           point == IF t.missing = {} THEN "persist" ELSE "match"
<1>1. /\ TaskInv(r) /\ TxInv(r) /\ tx[r] \in Transactions
      /\ task \in [Requests -> Tasks] /\ pc \in [Requests -> {"idle"} \cup Active \cup Ended]
      /\ tx \in [Requests -> Transactions] /\ answer \in [Requests -> Answers]
  BY DEF IInv, TypeOK
<1>2. u \in Tasks
  BY BackfilledType
<1>3. point \in Active /\ point \notin BeforeCollecting /\ pc[r] \in Active \ {"account"}
  BY DEF Active, FetchPoints, DbPoints, BeforeCollecting
<1>4. /\ u.player = t.player /\ u.existing = t.existing
      /\ u.backfill = t.backfill /\ u.records = t.records
      /\ t.linked \subseteq u.linked
      /\ \A m \in u.linked \ t.linked : m \in t.backfill /\ CanBackfill(t.player, m)
  BY DEF Backfilled, Tasks
<1>5. task' = [task EXCEPT ![r] = u] /\ pc' = [pc EXCEPT ![r] = point]
  BY DEF Continue, GoTo
<1>6. pc'[r] = point /\ task'[r] = u /\ tx'[r] = NoTx /\ matches' = matches
  BY <1>1, <1>5 DEF TxInv, store
<1>7. TaskInv(r)'
  <2>1. Elements(u.records) = Elements(t.records)
    BY <1>4
  <2>2. \A m \in u.linked : t.player \in Participants[m]
    BY <1>4 DEF CanBackfill
  <2>3. t.player \in Players
    BY <1>1, <1>3 DEF TaskInv
  <2>4. u.linked \subseteq t.existing \cup Elements(t.records)
    BY <1>4
  <2> QED
    BY <1>3, <1>4, <1>6, <2>1, <2>2, <2>3, <2>4 DEF TaskInv
<1>8. TxInv(r)'
  <2>1. Len(u.records) \in Nat
    BY <1>2 DEF Tasks
  <2> QED
    BY <1>6, <2>1 DEF TxInv, NoTx
<1>9. tx' = [tx EXCEPT ![r] = tx[r]]
  BY <1>1
<1> HIDE DEF u, point
<1> QED
  BY <1>1, <1>2, <1>3, <1>5, <1>7, <1>8, <1>9, LocalStep

(* What the plan and the records say holds of t when r has it as locals.   *)
LEMMA PlanStep ==
  ASSUME IInv, NEW r \in Requests, Plan(r)
  PROVE  IInv'
<1>1. /\ task[r] \in Tasks /\ TaskInv(r) /\ TxInv(r) /\ tx[r] \in Transactions
      /\ task \in [Requests -> Tasks] /\ tx \in [Requests -> Transactions]
      /\ answer \in [Requests -> Answers]
  BY DEF IInv, TypeOK
<1>2. CASE PlanMatches(r)
  <2> DEFINE t == [task[r] EXCEPT !.existing = Elements(task[r].ids) \cap matches]
  <2>1. t \in Tasks
    BY <1>1, ElementsType DEF Tasks
  <2>2. /\ task' = [task EXCEPT ![r] = t] /\ pc' = [pc EXCEPT ![r] = "plan_links"]
        /\ pc[r] = "plan_matches" /\ UNCHANGED <<store, tx, answer>>
    BY <1>2 DEF PlanMatches, GoTo
  <2>3. /\ t.player = task[r].player /\ t.existing \subseteq matches
        /\ t.records = << >> /\ t.linked = {} /\ t.backfill = {}
    BY <1>1, <2>2 DEF TaskInv, BeforeCollecting, Tasks
  <2>4. {"plan_links", "plan_matches"} \subseteq Active \ {"account"}
    BY DEF Active, DbPoints
  <2>5. pc'[r] = "plan_links" /\ task'[r] = t /\ tx'[r] = NoTx /\ matches' = matches
    BY <1>1, <2>2 DEF IInv, TypeOK, TxInv, store
  <2>6. TaskInv(r)'
    <3>1. t.player \in Players
      BY <1>1, <2>2, <2>3, <2>4 DEF TaskInv
    <3> HIDE DEF t
    <3> QED
      BY <2>3, <2>4, <2>5, <3>1 DEF TaskInv, Elements
  <2>7. TxInv(r)'
    BY <2>3, <2>5 DEF TxInv, NoTx
  <2>8. tx' = [tx EXCEPT ![r] = tx[r]]
    BY <1>1, <2>2
  <2> HIDE DEF t
  <2> QED
    BY <1>1, <2>1, <2>2, <2>4, <2>6, <2>7, <2>8, LocalStep
<1>3. CASE PlanLinks(r)
  <2> DEFINE known == {m \in Elements(task[r].ids) : <<task[r].player, m>> \in links}
             t == Partitioned(task[r], known)
  <2>1. t \in Tasks
    BY <1>1, PartitionedType
  <2>2. Continue(r, t) /\ pc[r] = "plan_links" /\ UNCHANGED <<store, tx, answer>>
    BY <1>3 DEF PlanLinks
  <2>3. /\ t.player = task[r].player /\ t.existing = task[r].existing
        /\ t.backfill \subseteq t.existing
        /\ t.records = << >> /\ t.linked = {}
    BY <1>1, <2>2 DEF Partitioned, TaskInv, BeforeCollecting, Tasks
  <2> HIDE DEF t
  <2>4. Elements(t.records) \subseteq t.linked
    BY <2>3 DEF Elements
  <2> QED
    BY <1>1, <2>1, <2>2, <2>3, <2>4, ContinueStep DEF TaskInv
<1> QED
  BY <1>2, <1>3 DEF Plan

LEMMA AppendElements ==
  ASSUME NEW S, NEW s \in Seq(S), NEW m \in S
  PROVE  Elements(Append(s, m)) = Elements(s) \cup {m}
<1>1. /\ Len(Append(s, m)) = Len(s) + 1 /\ Append(s, m)[Len(s) + 1] = m
      /\ \A i \in 1 .. Len(s) : Append(s, m)[i] = s[i]
      /\ DOMAIN s = 1 .. Len(s) /\ DOMAIN Append(s, m) = 1 .. Len(s) + 1
      /\ Len(s) \in Nat
  OBVIOUS
<1>2. 1 .. Len(s) + 1 = (1 .. Len(s)) \cup {Len(s) + 1}
  BY <1>1
<1> QED
  BY <1>1, <1>2 DEF Elements

LEMMA MatchStep ==
  ASSUME IInv, NEW r \in Requests, MatchFound(r) \/ MatchFails(r)
  PROVE  IInv'
<1>1. /\ task[r] \in Tasks /\ TaskInv(r) /\ pc[r] = "match"
      /\ UNCHANGED <<store, tx, answer>>
  BY DEF IInv, TypeOK, MatchFound, MatchFails
<1>2. PICK m \in Matches : \/ Continue(r, WithMatch(task[r], m))
                           \/ Continue(r, WithFailure(task[r], m))
  BY DEF MatchFound, MatchFails
<1>3. ASSUME Continue(r, WithFailure(task[r], m)) PROVE IInv'
  <2> DEFINE t == WithFailure(task[r], m)
  <2>1. t \in Tasks
    BY <1>1, WithFailureType
  <2>2. /\ t.player = task[r].player /\ t.existing = task[r].existing
        /\ t.backfill = task[r].backfill
        /\ t.records = task[r].records /\ t.linked = task[r].linked
    BY <1>1 DEF WithFailure, Tasks
  <2>3. Continue(r, t)
    BY <1>3
  <2> HIDE DEF t
  <2> QED
    BY <1>1, <2>1, <2>2, <2>3, ContinueStep DEF TaskInv
<1>4. CASE /\ Continue(r, WithMatch(task[r], m))
           /\ m \in HasStart /\ task[r].player \in Participants[m]
  <2> DEFINE t == WithMatch(task[r], m)
  <2>1. t \in Tasks
    BY <1>1, WithMatchType
  <2>2. /\ t.player = task[r].player /\ t.existing = task[r].existing
        /\ t.backfill = task[r].backfill
        /\ t.records = Append(task[r].records, m) /\ t.linked = task[r].linked \cup {m}
    BY <1>1, <1>4 DEF WithMatch, Recordable, Tasks
  <2>3. Elements(t.records) = Elements(task[r].records) \cup {m}
    BY <1>1, <2>2, AppendElements DEF Tasks
  <2>4. Continue(r, t)
    BY <1>4
  <2> HIDE DEF t
  <2> QED
    BY <1>1, <1>4, <2>1, <2>2, <2>3, <2>4, ContinueStep DEF TaskInv
<1> QED
  BY <1>2, <1>3, <1>4 DEF WithMatch, Recordable

(* A statement of the transaction moves done or locked on by one.          *)
LEMMA ExecuteStep ==
  ASSUME IInv, NEW r \in Requests, NEW s, NEW x \in Transactions,
         Execute(r, s, x), pc[r] = "persist",
         x.done > 1 => task[r].failure = "none",
         x.locked <= Len(task[r].records),
         x.locked > 0 => task[r].failure = "none",
         x.done > 3 => x.locked = Len(task[r].records)
  PROVE  IInv'
<1>1. /\ task[r] \in Tasks /\ TaskInv(r) /\ pc[r] \in {"idle"} \cup Active \cup Ended
      /\ task \in [Requests -> Tasks] /\ pc \in [Requests -> {"idle"} \cup Active \cup Ended]
      /\ tx \in [Requests -> Transactions] /\ answer \in [Requests -> Answers]
  BY DEF IInv, TypeOK
<1>2. /\ tx' = [tx EXCEPT ![r] = x] /\ UNCHANGED <<store, answer>>
      /\ task' = [task EXCEPT ![r] = task[r]] /\ pc' = [pc EXCEPT ![r] = pc[r]]
  BY <1>1 DEF Execute
<1>3. tx'[r] = x /\ task'[r] = task[r] /\ pc'[r] = pc[r] /\ matches' = matches
  BY <1>1, <1>2 DEF store
<1>4. TaskInv(r)'
  BY <1>1, <1>3 DEF TaskInv
<1>5. TxInv(r)'
  BY <1>3 DEF TxInv
<1> QED
  BY <1>1, <1>2, <1>4, <1>5, LocalStep

LEMMA DeletionType ==
  ASSUME NEW x \in Transactions, NEW rows \in SUBSET Queues, x.done = 2
  PROVE  LET y == [x EXCEPT !.done = @ + 1, !.deleted = rows]
         IN  y \in Transactions /\ y.done = 3 /\ y.locked = x.locked
<1> DEFINE z == [x EXCEPT !.done = @ + 1]
<1>1. z \in Transactions /\ z.done = 3 /\ z.locked = x.locked
  BY DEF Transactions
<1>2. [x EXCEPT !.done = @ + 1, !.deleted = rows] = [z EXCEPT !.deleted = rows]
  BY DEF Transactions
<1> HIDE DEF z
<1>3. [z EXCEPT !.deleted = rows].done = 3 /\ [z EXCEPT !.deleted = rows].locked = x.locked
  BY <1>1 DEF Transactions
<1>4. [z EXCEPT !.deleted = rows] \in Transactions
  BY <1>1 DEF Transactions
<1> QED
  BY <1>2, <1>3, <1>4

LEMMA StatementStep ==
  ASSUME IInv, NEW r \in Requests, Persist(r), ~Commit(r)
  PROVE  IInv'
<1>1. /\ tx[r] \in Transactions /\ task[r] \in Tasks /\ TxInv(r)
      /\ tx[r].done \in 0 .. 5 /\ tx[r].locked \in Nat /\ Len(task[r].records) \in Nat
  BY DEF IInv, TypeOK, Transactions, Tasks
<1>2. Outdated(r) \in SUBSET Queues
  BY DEF Outdated
<1>4. CASE UpsertPlayer(r)
  <2> DEFINE x == [tx[r] EXCEPT !.done = @ + 1]
  <2>1. Execute(r, "player", x) /\ pc[r] = "persist" /\ tx[r].done = 0
    BY <1>1, <1>4, DueIs DEF UpsertPlayer, Execute, Transactions
  <2>2. x \in Transactions /\ x.done = 1 /\ x.locked = tx[r].locked
    BY <1>1, <2>1 DEF Transactions
  <2>3. /\ x.done > 1 => task[r].failure = "none"
        /\ x.locked <= Len(task[r].records)
        /\ x.locked > 0 => task[r].failure = "none"
        /\ x.done > 3 => x.locked = Len(task[r].records)
    BY <1>1, <2>1, <2>2 DEF TxInv
  <2> HIDE DEF x
  <2> QED
    BY <2>1, <2>2, <2>3, ExecuteStep
<1>5. CASE UpsertRanked(r)
  <2> DEFINE x == [tx[r] EXCEPT !.done = @ + 1]
  <2>1. /\ Execute(r, "ranked_upsert", x)
        /\ pc[r] = "persist" /\ tx[r].done = 1 /\ task[r].failure = "none"
    BY <1>1, <1>5, DueIs DEF UpsertRanked, Execute, Transactions
  <2>2. x \in Transactions /\ x.done = 2 /\ x.locked = tx[r].locked
    BY <1>1, <2>1 DEF Transactions
  <2>3. /\ x.done > 1 => task[r].failure = "none"
        /\ x.locked <= Len(task[r].records)
        /\ x.locked > 0 => task[r].failure = "none"
        /\ x.done > 3 => x.locked = Len(task[r].records)
    BY <1>1, <2>1, <2>2 DEF TxInv
  <2> HIDE DEF x
  <2> QED
    BY <2>1, <2>2, <2>3, ExecuteStep
<1>6. CASE DeleteRanked(r)
  <2> DEFINE x == [tx[r] EXCEPT !.done = @ + 1, !.deleted = Outdated(r)]
  <2>1. /\ Execute(r, "ranked_delete", x)
        /\ pc[r] = "persist" /\ tx[r].done = 2 /\ task[r].failure = "none"
    BY <1>1, <1>6, DueIs DEF DeleteRanked, Execute, Transactions
  <2>2. x \in Transactions /\ x.done = 3 /\ x.locked = tx[r].locked
    BY <1>1, <1>2, <2>1, DeletionType
  <2>3. /\ x.done > 1 => task[r].failure = "none"
        /\ x.locked <= Len(task[r].records)
        /\ x.locked > 0 => task[r].failure = "none"
        /\ x.done > 3 => x.locked = Len(task[r].records)
    BY <1>1, <2>1, <2>2 DEF TxInv
  <2> HIDE DEF x
  <2> QED
    BY <2>1, <2>2, <2>3, ExecuteStep
<1>7. CASE UpsertMatchRow(r)
  <2> DEFINE x == [tx[r] EXCEPT !.locked = @ + 1]
  <2>1. /\ Execute(r, "matches", x)
        /\ tx[r].locked < Len(task[r].records)
        /\ pc[r] = "persist" /\ tx[r].done = 3 /\ task[r].failure = "none"
    BY <1>1, <1>7, DueIs DEF UpsertMatchRow, Execute, Transactions
  <2>2. x \in Transactions /\ x.done = 3 /\ x.locked = tx[r].locked + 1
    BY <1>1, <2>1 DEF Transactions
  <2>3. /\ x.done > 1 => task[r].failure = "none"
        /\ x.locked <= Len(task[r].records)
        /\ x.locked > 0 => task[r].failure = "none"
        /\ x.done > 3 => x.locked = Len(task[r].records)
    BY <1>1, <2>1, <2>2 DEF TxInv
  <2> HIDE DEF x
  <2> QED
    BY <2>1, <2>2, <2>3, ExecuteStep
<1>8. CASE UpsertMatchesEnds(r)
  <2> DEFINE x == [tx[r] EXCEPT !.done = @ + 1]
  <2>1. /\ Execute(r, "matches", x)
        /\ tx[r].locked = Len(task[r].records)
        /\ pc[r] = "persist" /\ tx[r].done = 3 /\ task[r].failure = "none"
    BY <1>1, <1>8, DueIs DEF UpsertMatchesEnds, Execute, Transactions
  <2>2. x \in Transactions /\ x.done = 4 /\ x.locked = tx[r].locked
    BY <1>1, <2>1 DEF Transactions
  <2>3. /\ x.done > 1 => task[r].failure = "none"
        /\ x.locked <= Len(task[r].records)
        /\ x.locked > 0 => task[r].failure = "none"
        /\ x.done > 3 => x.locked = Len(task[r].records)
    BY <1>1, <2>1, <2>2 DEF TxInv
  <2> HIDE DEF x
  <2> QED
    BY <2>1, <2>2, <2>3, ExecuteStep
<1>9. CASE UpsertLinks(r)
  <2> DEFINE x == [tx[r] EXCEPT !.done = @ + 1]
  <2>1. /\ Execute(r, "links", x)
        /\ pc[r] = "persist" /\ tx[r].done = 4 /\ task[r].failure = "none"
    BY <1>1, <1>9, DueIs DEF UpsertLinks, Execute, Transactions
  <2>2. x \in Transactions /\ x.done = 5 /\ x.locked = tx[r].locked
    BY <1>1, <2>1 DEF Transactions
  <2>3. /\ x.done > 1 => task[r].failure = "none"
        /\ x.locked <= Len(task[r].records)
        /\ x.locked > 0 => task[r].failure = "none"
        /\ x.done > 3 => x.locked = Len(task[r].records)
    BY <1>1, <2>1, <2>2 DEF TxInv
  <2> HIDE DEF x
  <2> QED
    BY <2>1, <2>2, <2>3, ExecuteStep
<1> QED
  BY <1>4, <1>5, <1>6, <1>7, <1>8, <1>9 DEF Persist

(* At COMMIT the matches written are records of r, each of them linked.    *)
LEMMA CommittedMatches ==
  ASSUME IInv, NEW r \in Requests, ReadyToCommit(r)
  PROVE  /\ task[r].player \in Players
         /\ WrittenMatches(r) \subseteq Elements(task[r].records)
         /\ WrittenMatches(r) # {} => HasDone(r, "links")
         /\ HasDone(r, "links") =>
              task[r].linked \subseteq matches \cup WrittenMatches(r)
<1>1. /\ tx[r].done \in 0 .. 5 /\ tx[r].locked \in Nat /\ task[r].records \in Seq(Matches)
      /\ TxInv(r) /\ TaskInv(r) /\ Len(task[r].records) \in Nat
      /\ DOMAIN task[r].records = 1 .. Len(task[r].records)
  BY DEF IInv, TypeOK, Tasks, Transactions
<1>2. pc[r] = "persist" /\ tx[r].done = IF task[r].failure = "none" THEN 5 ELSE 1
  BY ReadyIs
<1>3. task[r].player \in Players
  BY <1>1, <1>2 DEF TaskInv, Active, DbPoints
<1>4. WrittenMatches(r) \subseteq Elements(task[r].records)
  BY <1>1 DEF WrittenMatches, Elements, TxInv
<1>5. HasDone(r, "links") <=> task[r].failure = "none"
  <2>1. HasDone(r, "links") <=> tx[r].done > 4
    BY <1>1, HasDoneIs DEF TxInv
  <2> QED
    BY <1>2, <2>1
<1>6. WrittenMatches(r) # {} => task[r].failure = "none"
  BY <1>1 DEF WrittenMatches, TxInv
<1>7. task[r].failure = "none" => WrittenMatches(r) = Elements(task[r].records)
  <2>1. task[r].failure = "none" => tx[r].locked = Len(task[r].records)
    BY <1>1, <1>2 DEF TxInv
  <2> QED
    BY <1>1, <2>1 DEF WrittenMatches, Elements
<1> QED
  BY <1>1, <1>3, <1>4, <1>5, <1>6, <1>7 DEF TaskInv

LEMMA PublishStep ==
  ASSUME IInv, NEW r \in Requests, ReadyToCommit(r), Publish(r), EndTransaction(r),
         UNCHANGED task, NEW a \in Answers, Reply(r, a)
  PROVE  IInv'
<1> DEFINE p == task[r].player
<1>1. /\ task[r] \in Tasks /\ TaskInv(r) /\ p \in Players
      /\ players \in [Players -> PlayerRows \cup {None}]
      /\ ranked \in [Players -> [Queues -> Versions]]
      /\ matches \subseteq Matches /\ links \subseteq Players \X Matches
      /\ pc \in [Requests -> {"idle"} \cup Active \cup Ended]
      /\ tx \in [Requests -> Transactions] /\ answer \in [Requests -> Answers]
  BY CommittedMatches DEF IInv, TypeOK
<1>2. \A old \in PlayerRows \cup {None} : PlayerRow(r, old) \in PlayerRows
  BY DEF PlayerRow, PlayerRows, Outcome, Statuses, Versions
<1>3. \A old \in [Queues -> Versions] : RankedAfter(r, old) \in [Queues -> Versions]
  BY DEF RankedAfter, Versions
<1>4. /\ players' = [players EXCEPT ![p] = PlayerRow(r, players[p])]
      /\ ranked' = [ranked EXCEPT ![p] = RankedAfter(r, ranked[p])]
      /\ matches' = matches \cup WrittenMatches(r)
      /\ links' = links \cup (IF HasDone(r, "links") THEN {p} \X task[r].linked ELSE {})
  BY DEF Publish
<1>5. WrittenMatches(r) \subseteq Matches /\ task[r].linked \subseteq Matches
  BY <1>1, CommittedMatches, ElementsType DEF Tasks
<1>6. NoTx \in Transactions /\ "answered" \in Ended
  BY DEF NoTx, Transactions, Ended
<1>7. TypeOK'
  BY <1>1, <1>2, <1>3, <1>4, <1>5, <1>6 DEF IInv, TypeOK, EndTransaction, Reply, GoTo
<1>8. ASSUME NEW q \in Requests PROVE TaskInv(q)' /\ TxInv(q)'
  <2>1. CASE q # r
    BY <1>1, <1>4, <2>1, OthersKeep DEF EndTransaction, Reply, GoTo
  <2>2. CASE q = r
    <3>1. /\ pc'[r] = "answered" /\ task'[r] = task[r] /\ tx'[r] = NoTx
          /\ matches \subseteq matches'
      BY <1>1, <1>4 DEF EndTransaction, Reply, GoTo
    <3>2. "answered" \notin Active /\ "answered" \notin BeforeCollecting
      BY DEF Active, FetchPoints, DbPoints, BeforeCollecting
    <3>3. TaskInv(r)'
      BY <1>1, <3>1, <3>2 DEF TaskInv
    <3>4. Len(task[r].records) \in Nat
      BY <1>1 DEF Tasks
    <3>5. TxInv(r)'
      BY <3>1, <3>4 DEF TxInv, NoTx
    <3> QED
      BY <2>2, <3>3, <3>5
  <2> QED
    BY <2>1, <2>2
<1>9. StoreInv'
  <2>1. StoreInv
    BY DEF IInv
  <2>2. players'[p] # None /\ \A o \in Players \ {p} : players'[o] = players[o] /\ ranked'[o] = ranked[o]
    BY <1>1, <1>2, <1>4, NoRowAssumption
  <2>3. \A o \in Players : players'[o] = None => \A q \in Queues : ranked'[o][q] = None
    BY <2>1, <2>2 DEF StoreInv
  <2>4. \A link \in links' : players'[link[1]] # None /\ link[2] \in matches'
    <3> SUFFICES ASSUME NEW link \in links' PROVE players'[link[1]] # None /\ link[2] \in matches'
      OBVIOUS
    <3>1. CASE link \in links
      BY <1>1, <1>4, <2>1, <2>2, <3>1 DEF StoreInv
    <3>2. CASE link \notin links
      <4>1. HasDone(r, "links") /\ link \in {p} \X task[r].linked
        BY <1>4, <3>2
      <4> QED
        BY <1>4, <2>2, <4>1, CommittedMatches
    <3> QED
      BY <3>1, <3>2
  <2>5. EveryMatchHasALink'
    <3> SUFFICES ASSUME NEW m \in matches'
                 PROVE  \E o \in Participants[m] : <<o, m>> \in links'
      BY DEF EveryMatchHasALink
    <3>1. CASE m \in matches
      BY <1>4, <2>1, <3>1 DEF StoreInv, EveryMatchHasALink
    <3>2. CASE m \in WrittenMatches(r)
      <4>1. HasDone(r, "links") /\ m \in task[r].linked /\ p \in Participants[m]
        BY <1>1, <3>2, CommittedMatches DEF TaskInv
      <4>2. <<p, m>> \in links'
        BY <1>4, <4>1
      <4> QED
        BY <4>1, <4>2
    <3> QED
      BY <1>4, <3>1, <3>2
  <2> QED
    BY <2>3, <2>4, <2>5 DEF StoreInv
<1> QED
  BY <1>7, <1>8, <1>9 DEF IInv

LEMMA RollbackStep ==
  ASSUME IInv, NEW r \in Requests, DatabaseFails(r)
  PROVE  IInv'
<1>1. /\ task[r] \in Tasks /\ TaskInv(r) /\ TxInv(r)
      /\ task \in [Requests -> Tasks] /\ pc \in [Requests -> {"idle"} \cup Active \cup Ended]
      /\ tx \in [Requests -> Transactions] /\ answer \in [Requests -> Answers]
  BY DEF IInv, TypeOK
<1>2. /\ pc' = [pc EXCEPT ![r] = "answered"] /\ tx' = [tx EXCEPT ![r] = NoTx]
      /\ answer' \in [Requests -> Answers] /\ UNCHANGED store
      /\ task' = [task EXCEPT ![r] = task[r]]
  BY <1>1 DEF DatabaseFails, EndTransaction, Reply, GoTo, Answers
<1>3. NoTx \in Transactions /\ "answered" \in Ended
  BY DEF NoTx, Transactions, Ended
<1>4. "answered" \notin Active /\ "answered" \notin BeforeCollecting
  BY DEF Active, FetchPoints, DbPoints, BeforeCollecting
<1>5. pc'[r] = "answered" /\ task'[r] = task[r] /\ tx'[r] = NoTx /\ matches' = matches
  BY <1>1, <1>2 DEF store
<1>6. TaskInv(r)'
  BY <1>1, <1>4, <1>5 DEF TaskInv
<1>7. TxInv(r)'
  <2>1. Len(task[r].records) \in Nat
    BY <1>1 DEF Tasks
  <2> QED
    BY <1>5, <2>1 DEF TxInv, NoTx
<1> QED
  BY <1>1, <1>2, <1>3, <1>6, <1>7, LocalStep

LEMMA RestartStep ==
  ASSUME IInv, Restart
  PROVE  IInv'
<1>1. TypeOK'
  BY DEF IInv, TypeOK, Restart, store, NoTx, Transactions, Ended
<1>2. ASSUME NEW r \in Requests PROVE TaskInv(r)' /\ TxInv(r)'
  <2>1. /\ task[r] \in Tasks /\ TaskInv(r) /\ tx'[r] = NoTx /\ task'[r] = task[r]
        /\ pc'[r] = IF pc[r] \in Active THEN "dropped" ELSE pc[r]
        /\ matches' = matches
    BY DEF IInv, TypeOK, Restart, store
  <2>2. "dropped" \notin Active /\ "dropped" \notin BeforeCollecting
    BY DEF Active, FetchPoints, DbPoints, BeforeCollecting
  <2>3. TaskInv(r)'
    BY <2>1, <2>2 DEF TaskInv
  <2>4. Len(task[r].records) \in Nat
    BY <2>1 DEF Tasks
  <2>5. TxInv(r)'
    BY <2>1, <2>4 DEF TxInv, NoTx
  <2> QED
    BY <2>3, <2>5
<1>3. StoreInv'
  BY DEF IInv, StoreInv, EveryMatchHasALink, Restart, store
<1> QED
  BY <1>1, <1>2, <1>3 DEF IInv

LEMMA StutterStep ==
  ASSUME IInv, UNCHANGED vars
  PROVE  IInv'
<1>1. /\ players' = players /\ ranked' = ranked /\ matches' = matches /\ links' = links
      /\ pc' = pc /\ task' = task /\ tx' = tx /\ answer' = answer
  BY DEF vars
<1>2. TypeOK' /\ StoreInv'
  BY <1>1 DEF IInv, TypeOK, StoreInv, EveryMatchHasALink
<1> QED
  BY <1>1, <1>2, OthersKeep DEF IInv

LEMMA NextIInv == IInv /\ [Next]_vars => IInv'
<1> SUFFICES ASSUME IInv, [Next]_vars PROVE IInv'
  OBVIOUS
<1>1. ASSUME NEW r \in Requests, Step(r) PROVE IInv'
  <2>1. CASE MatchFound(r) \/ MatchFails(r)
    BY <2>1, MatchStep
  <2>2. CASE CallRiot(r) /\ ~MatchFound(r) /\ ~MatchFails(r)
    BY <2>2, CallRiotStep
  <2>3. CASE Plan(r)
    BY <2>3, PlanStep
  <2>4. CASE Persist(r) /\ ~Commit(r)
    BY <2>4, StatementStep
  <2>5. CASE Commit(r)
    <3>1. (IF task[r].failure = "none" THEN "ok" ELSE ErrorAnswer(task[r].failure)) \in Answers
      BY DEF Answers, ErrorAnswer
    <3> QED
      BY <2>5, <3>1, PublishStep DEF Commit
  <2> QED
    BY <1>1, <2>1, <2>2, <2>3, <2>4, <2>5 DEF Step
<1>2. ASSUME NEW r \in Requests, CommitUnconfirmed(r) PROVE IInv'
  <2>1. "error" \in Answers
    BY DEF Answers
  <2> QED
    BY <1>2, <2>1, PublishStep DEF CommitUnconfirmed
<1>3. CASE UNCHANGED vars \/ AllEnded
  BY <1>3, StutterStep DEF AllEnded
<1> QED
  BY <1>1, <1>2, <1>3, ReceiveStep, RollbackStep, RestartStep DEF Next

----------------------------------------------------------------------------
(* Theorems *)

(* The invariant holds in every reachable state, whatever the constants.   *)
THEOREM Invariance == Spec => []IInv
BY InitIInv, NextIInv, PTL DEF Spec

(* Every column and every local keeps its type.                            *)
THEOREM TypeCorrect == Spec => []TypeOK
<1>1. IInv => TypeOK
  BY DEF IInv
<1> QED
  BY <1>1, Invariance, PTL

(* No match is ever stored without a link to one of its participants, in   *)
(* any number of concurrent refreshes, failures and restarts.              *)
THEOREM MatchesAreLinked == Spec => []EveryMatchHasALink
<1>1. IInv => EveryMatchHasALink
  BY DEF IInv, StoreInv
<1> QED
  BY <1>1, Invariance, PTL

LEMMA ForeignKeys == IInv => NoForeignKeyViolation
<1> SUFFICES ASSUME IInv PROVE NoForeignKeyViolation
  OBVIOUS
<1>1. ASSUME NEW r \in Requests, InTransaction(r)
      PROVE  /\ HasDone(r, "ranked_upsert") =>
                  HasDone(r, "player") \/ players[task[r].player] # None
             /\ HasDone(r, "links") => task[r].linked \subseteq matches \cup WrittenMatches(r)
  <2>1. /\ tx[r].done \in 0 .. 5 /\ TxInv(r) /\ TaskInv(r)
        /\ task[r].records \in Seq(Matches)
        /\ DOMAIN task[r].records = 1 .. Len(task[r].records)
    BY DEF IInv, TypeOK, Transactions, Tasks
  <2>2. /\ HasDone(r, "player") <=> tx[r].done > 0
        /\ HasDone(r, "ranked_upsert") <=> tx[r].done > 1
        /\ HasDone(r, "links") <=> tx[r].done > 4
    BY <2>1, HasDoneIs DEF TxInv
  <2>3. tx[r].done > 4 => WrittenMatches(r) = Elements(task[r].records)
    BY <2>1 DEF TxInv, WrittenMatches, Elements
  <2> QED
    BY <2>1, <2>2, <2>3 DEF TaskInv
<1> QED
  BY <1>1 DEF IInv, StoreInv, NoForeignKeyViolation

(* PostgreSQL never has a foreign key to complain about.                   *)
THEOREM ForeignKeysHold == Spec => []NoForeignKeyViolation
BY ForeignKeys, Invariance, PTL
=============================================================================
