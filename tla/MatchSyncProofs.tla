---------------------------- MODULE MatchSyncProofs ----------------------------
(***************************************************************************)
(* What PlayerRefresh collects, for any lists Riot may answer: the ids of  *)
(* a list are accounted for, each once and from the latest to the          *)
(* earliest, so that a success is complete, the reported counts add up,    *)
(* and the transactions lock the rows of matches in one order.             *)
(***************************************************************************)
EXTENDS RefreshStoreProofs, FiniteSetTheorems

----------------------------------------------------------------------------
(* The inductive invariant *)

(* Every id of the list is in at most one of existing, missing, records    *)
(* and, unless a backfill failed, failed.                                  *)
Parts(t) ==
  /\ t.ids \in MatchLists \cup {<< >>}
  /\ t.backfill \subseteq t.existing
  /\ t.existing \subseteq Elements(t.ids)
  /\ t.missing \subseteq Elements(t.ids) \ t.existing
  /\ Elements(t.records) \subseteq Elements(t.ids) \ (t.existing \cup t.missing)
  /\ t.failed \subseteq Elements(t.ids) \ (t.missing \cup Elements(t.records))
  /\ t.linked \subseteq Elements(t.records) \cup t.backfill

(* Records come from the latest to the earliest, before all that is missing. *)
Sorted(t) ==
  /\ \A i, j \in DOMAIN t.records : i < j => Recency[t.records[i]] > Recency[t.records[j]]
  /\ \A m \in Elements(t.records), n \in t.missing : Recency[m] > Recency[n]

Lists(t) == Parts(t) /\ Sorted(t)

(* No id of the list has been forgotten. *)
Planned(t) ==
  Elements(t.ids) \subseteq t.existing \cup t.missing \cup Elements(t.records) \cup t.failed

(* The loop and the backfill are through. *)
Through(t) == t.missing = {} /\ t.backfill \subseteq t.linked \cup t.failed

Collected(r) == pc[r] = "persist" \/ answer[r] = "ok"

(* What each point of the coroutine knows of its lists.                    *)
StageInv(r) ==
  LET t == task[r] IN
  /\ pc[r] \in BeforeCollecting \ {"plan_matches", "plan_links"} => t.ids = << >>
  /\ pc[r] \in BeforeCollecting \ {"plan_links"} => t.existing = {}
  /\ pc[r] \in BeforeCollecting => t.missing = {} /\ t.failed = {}
  /\ pc[r] = "match" \/ Collected(r) => Planned(t)
  /\ pc[r] \in {"match", "persist"} => \A m \in t.existing \ t.backfill : <<t.player, m>> \in links
  /\ Collected(r) => Through(t)
  /\ answer[r] = "ok" => pc[r] \in Ended

SyncInv ==
  /\ \A r \in Requests : Lists(task[r]) /\ StageInv(r)
  /\ SuccessMeansComplete

LEMMA NoElements == Elements(<< >>) = {}
BY DEF Elements

LEMMA InitSyncInv == Init => SyncInv
<1> SUFFICES ASSUME Init PROVE SyncInv
  OBVIOUS
<1>1. ASSUME NEW r \in Requests PROVE Lists(task[r]) /\ StageInv(r)
  <2>1. task[r] = NewTask /\ pc[r] = "idle" /\ answer[r] = "none"
    BY DEF Init
  <2>2. Lists(NewTask)
    BY NoElements DEF NewTask, Lists, Parts, Sorted
  <2>3. StageInv(r)
    BY <2>1 DEF StageInv, Collected, NewTask
  <2> QED
    BY <2>1, <2>2, <2>3
<1>2. \A p \in Players : players[p] # None => players[p].profile = Earlier
  BY DEF Init
<1> QED
  BY <1>1, <1>2, NoneAssumption DEF SyncInv, SuccessMeansComplete

----------------------------------------------------------------------------
(* The collector's functions keep the lists *)

LEMMA PartitionedLists ==
  ASSUME NEW t \in Tasks, NEW known, Lists(t), t.records = << >>, t.linked = {}, t.failed = {}
  PROVE  Lists(Partitioned(t, known)) /\ Planned(Partitioned(t, known))
<1> DEFINE u == Partitioned(t, known)
<1>1. /\ u.ids = t.ids /\ u.existing = t.existing /\ u.records = << >>
      /\ u.linked = {} /\ u.failed = {}
      /\ u.missing = Elements(t.ids) \ t.existing
      /\ u.backfill = t.existing \ known
  BY DEF Partitioned, Tasks
<1> HIDE DEF u
<1>2. Parts(u) /\ Planned(u)
  BY <1>1, NoElements DEF Lists, Parts, Planned
<1>3. Sorted(u)
  BY <1>1, NoElements DEF Sorted
<1> QED
  BY <1>2, <1>3 DEF Lists, u

LEMMA FailureLists ==
  ASSUME NEW t \in Tasks, NEW m \in t.missing, Lists(t), Planned(t)
  PROVE  Lists(WithFailure(t, m)) /\ Planned(WithFailure(t, m))
<1> DEFINE u == WithFailure(t, m)
<1>1. /\ u.ids = t.ids /\ u.existing = t.existing /\ u.records = t.records
      /\ u.linked = t.linked /\ u.backfill = t.backfill
      /\ u.missing = t.missing \ {m} /\ u.failed = t.failed \cup {m}
  BY DEF WithFailure, Tasks
<1> HIDE DEF u
<1>2. Parts(u) /\ Planned(u)
  BY <1>1 DEF Lists, Parts, Planned
<1>3. Sorted(u)
  BY <1>1 DEF Lists, Sorted
<1> QED
  BY <1>2, <1>3 DEF Lists, u

(* The next match is the latest of the missing ones.                       *)
LEMMA NextIsLatest ==
  ASSUME NEW t \in Tasks, NEW m, IsNext(t, m), Lists(t), NEW n \in t.missing, n # m
  PROVE  Recency[m] > Recency[n]
<1>1. PICK i \in DOMAIN t.ids :
        t.ids[i] = m /\ \A j \in DOMAIN t.ids : t.ids[j] \in t.missing => i <= j
  BY DEF IsNext
<1>2. PICK j \in DOMAIN t.ids : t.ids[j] = n
  BY DEF Lists, Parts, Elements
<1>3. t.ids \in MatchLists
  BY <1>1 DEF Lists, Parts
<1>4. DOMAIN t.ids \subseteq Nat
  BY DEF Tasks
<1>5. i < j
  BY <1>1, <1>2, <1>4
<1> QED
  BY <1>1, <1>2, <1>3, <1>5, MatchListsAssumption

LEMMA FoundLists ==
  ASSUME NEW t \in Tasks, NEW m \in Matches, IsNext(t, m), Lists(t), Planned(t)
  PROVE  Lists(WithMatch(t, m)) /\ Planned(WithMatch(t, m))
<1>1. CASE Recordable(t.player, m)
  <2> DEFINE u == WithMatch(t, m)
  <2>1. /\ u.ids = t.ids /\ u.existing = t.existing /\ u.records = Append(t.records, m)
        /\ u.linked = t.linked \cup {m} /\ u.backfill = t.backfill
        /\ u.missing = t.missing \ {m} /\ u.failed = t.failed
    BY <1>1 DEF WithMatch, Tasks
  <2>2. Elements(u.records) = Elements(t.records) \cup {m}
    BY <2>1, AppendElements DEF Tasks
  <2>3. m \in t.missing
    BY DEF IsNext
  <2> HIDE DEF u
  <2>4. \A n \in Elements(u.records), o \in u.missing : Recency[n] > Recency[o]
    BY <2>1, <2>2, NextIsLatest DEF Lists, Sorted
  <2>5. \A i, j \in DOMAIN u.records : i < j => Recency[u.records[i]] > Recency[u.records[j]]
    <3> SUFFICES ASSUME NEW i \in DOMAIN u.records, NEW j \in DOMAIN u.records, i < j
                 PROVE  Recency[u.records[i]] > Recency[u.records[j]]
      OBVIOUS
    <3>1. /\ t.records \in Seq(Matches) /\ Len(t.records) \in Nat
          /\ DOMAIN t.records = 1 .. Len(t.records)
          /\ DOMAIN u.records = 1 .. Len(t.records) + 1
          /\ u.records[Len(t.records) + 1] = m
          /\ \A k \in 1 .. Len(t.records) : u.records[k] = t.records[k]
      BY <2>1 DEF Tasks
    <3>2. i \in DOMAIN t.records
      BY <3>1
    <3>3. CASE j \in DOMAIN t.records
      BY <3>1, <3>2, <3>3 DEF Lists, Sorted
    <3>4. CASE j = Len(t.records) + 1
      <4>1. t.records[i] \in Elements(t.records)
        BY <3>2 DEF Elements
      <4> QED
        BY <2>3, <3>1, <3>2, <3>4, <4>1 DEF Lists, Sorted
    <3> QED
      BY <3>1, <3>3, <3>4
  <2>6. Sorted(u)
    BY <2>4, <2>5 DEF Sorted
  <2>7. Parts(u) /\ Planned(u)
    BY <2>1, <2>2, <2>3 DEF Lists, Parts, Planned
  <2> QED
    BY <2>6, <2>7 DEF Lists, u
<1>2. CASE ~Recordable(t.player, m)
  BY <1>2, FailureLists DEF WithMatch, IsNext
<1> QED
  BY <1>1, <1>2

LEMMA BackfilledLists ==
  ASSUME NEW t \in Tasks, Lists(t), Planned(t), t.missing = {}
  PROVE  LET u == Backfilled(t) IN Lists(u) /\ Planned(u) /\ Through(u)
<1> DEFINE u == Backfilled(t)
           good == {m \in t.backfill : CanBackfill(t.player, m)}
           bad == {m \in t.backfill : ~CanBackfill(t.player, m)}
<1>1. /\ u.ids = t.ids /\ u.existing = t.existing /\ u.records = t.records
      /\ u.linked = t.linked \cup good /\ u.backfill = t.backfill
      /\ u.missing = {} /\ u.failed = t.failed \cup bad
  BY DEF Backfilled, Tasks
<1>2. good \subseteq t.backfill /\ bad \subseteq t.backfill /\ t.backfill \subseteq good \cup bad
  OBVIOUS
<1> HIDE DEF u, good, bad
<1>3. Parts(u) /\ Planned(u) /\ Through(u)
  BY <1>1, <1>2 DEF Lists, Parts, Planned, Through
<1>4. Sorted(u)
  BY <1>1 DEF Lists, Sorted
<1> QED
  BY <1>3, <1>4 DEF Lists, u

LEMMA ContinueLists ==
  ASSUME NEW r \in Requests, NEW t \in Tasks, Lists(t), Planned(t), Continue(r, t),
         task \in [Requests -> Tasks], pc \in [Requests -> {"idle"} \cup Active \cup Ended]
  PROVE  /\ Lists(task'[r]) /\ Planned(task'[r])
         /\ pc'[r] = "match" \/ (pc'[r] = "persist" /\ Through(task'[r]))
         /\ task'[r].player = t.player /\ task'[r].existing = t.existing
         /\ task'[r].backfill = t.backfill
<1>1. CASE t.missing = {}
  <2>1. task'[r] = Backfilled(t) /\ pc'[r] = "persist"
    BY <1>1 DEF Continue, GoTo
  <2>2. /\ Backfilled(t).player = t.player /\ Backfilled(t).existing = t.existing
        /\ Backfilled(t).backfill = t.backfill
    BY DEF Backfilled, Tasks
  <2> QED
    BY <1>1, <2>1, <2>2, BackfilledLists
<1>2. CASE t.missing # {}
  BY <1>2 DEF Continue, GoTo
<1> QED
  BY <1>1, <1>2

----------------------------------------------------------------------------
(* Every step preserves it *)

(* What a step of another request, or a commit, leaves alone.              *)
LEMMA StageKept ==
  ASSUME NEW q \in Requests, Lists(task[q]), StageInv(q), task'[q] = task[q],
         links \subseteq links', pc'[q] = pc[q], answer'[q] = answer[q]
  PROVE  Lists(task'[q]) /\ StageInv(q)'
<1>1. Collected(q)' <=> Collected(q)
  BY DEF Collected
<1> QED
  BY <1>1 DEF StageInv

(* While a request is under way no row has its profile.                    *)
LEMMA CompleteKept ==
  ASSUME WritersInv, SuccessMeansComplete, players' = players, matches' = matches,
         links' = links,
         \A w \in Requests : pc[w] \in Ended => task'[w] = task[w]
  PROVE  SuccessMeansComplete'
<1> SUFFICES ASSUME NEW p \in Players, players[p] # None, NEW w, w = players[p].profile,
                    players[p].status = "success", w \in Requests,
                    NEW m \in Elements(task'[w].ids)
             PROVE  m \in matches /\ <<p, m>> \in links
  BY DEF SuccessMeansComplete
<1>1. pc[w] \in Ended
  BY DEF WritersInv, RowInv
<1> QED
  BY <1>1 DEF SuccessMeansComplete

LEMMA QuietSync ==
  ASSUME IInv, WritersInv, SyncInv, Quiet
  PROVE  SyncInv'
<1>1. task' = task /\ UNCHANGED store
  BY DEF Quiet
<1>2. SuccessMeansComplete'
  BY <1>1, CompleteKept DEF SyncInv, store
<1>3. ASSUME NEW r \in Requests PROVE Lists(task'[r]) /\ StageInv(r)'
  <2>1. Lists(task[r]) /\ StageInv(r) /\ links' = links
    BY <1>1 DEF SyncInv, store
  <2>2. Ended \cap (BeforeCollecting \cup {"match", "persist"} \cup Active) = {}
    BY DEF Ended, BeforeCollecting, Active, FetchPoints, DbPoints
  <2>3. answer'[r] = "ok" => answer[r] = "ok"
    BY DEF Quiet
  <2>4. CASE pc'[r] = pc[r]
    BY <1>1, <2>1, <2>3, <2>4 DEF StageInv, Collected
  <2>5. CASE pc'[r] \in Ended
    BY <1>1, <2>1, <2>2, <2>3, <2>5 DEF StageInv, Collected
  <2>6. CASE pc[r] = "idle" /\ pc'[r] = "account"
    <3>1. answer[r] # "ok"
      BY <2>1, <2>6 DEF StageInv, Ended
    <3> QED
      BY <1>1, <2>1, <2>2, <2>3, <2>6, <3>1 DEF StageInv, Collected, BeforeCollecting
  <2> QED
    BY <2>4, <2>5, <2>6 DEF Quiet
<1> QED
  BY <1>2, <1>3 DEF SyncInv

LEMMA WriteSync ==
  ASSUME IInv, WritersInv, SyncInv, NEW r \in Requests, Writes(r)
  PROVE  SyncInv'
<1>1. UNCHANGED <<store, pc, task, answer>>
  BY WritesIs
<1>2. SuccessMeansComplete'
  BY <1>1, CompleteKept DEF SyncInv, store
<1>3. \A q \in Requests : Lists(task'[q]) /\ StageInv(q)'
  BY <1>1, StageKept DEF SyncInv, store
<1> QED
  BY <1>2, <1>3 DEF SyncInv

(* Before the plan there is nothing but the list itself. *)
LEMMA EarlySync ==
  ASSUME IInv, NEW r \in Requests, Lists(task[r]), StageInv(r),
         pc[r] \in {"account", "summoner", "ranked", "match_ids"}, CallRiot(r)
  PROVE  Lists(task'[r]) /\ StageInv(r)'
<1> DEFINE t == task[r]
           u == task'[r]
<1>1. /\ task \in [Requests -> Tasks] /\ t \in Tasks
      /\ pc \in [Requests -> {"idle"} \cup Active \cup Ended]
  BY DEF IInv, TypeOK
<1>2. /\ t.ids = << >> /\ t.existing = {} /\ t.missing = {} /\ t.failed = {}
      /\ t.records = << >> /\ t.linked = {} /\ t.backfill = {}
  BY DEF StageInv, BeforeCollecting, IInv, TaskInv
<1>3. /\ u.existing = {} /\ u.missing = {} /\ u.failed = {}
      /\ u.records = << >> /\ u.linked = {} /\ u.backfill = {}
      /\ u.ids \in MatchLists \cup {<< >>}
      /\ pc'[r] # "plan_matches" => u.ids = << >>
      /\ pc'[r] \notin {"plan_links", "match"}
  <2>1. \/ MatchIdsFound(r)
        \/ /\ u.ids = t.ids /\ u.existing = t.existing /\ u.missing = t.missing
           /\ u.failed = t.failed /\ u.records = t.records /\ u.linked = t.linked
           /\ u.backfill = t.backfill
           /\ pc'[r] \notin {"plan_matches", "plan_links", "match"}
    <3>1. CASE AccountFound(r)
      BY <1>1, <3>1 DEF AccountFound, GoTo, Tasks
    <3>2. CASE AccountFails(r)
      BY <1>1, <3>2 DEF AccountFails, Reply, GoTo, Tasks
    <3>3. CASE SummonerFound(r)
      BY <1>1, <3>3 DEF SummonerFound, GoTo, Tasks
    <3>4. CASE RankedFound(r)
      BY <1>1, <3>4 DEF RankedFound, GoTo, Tasks
    <3>5. CASE ProfileFails(r)
      BY <1>1, <3>5 DEF ProfileFails, GoTo, Tasks
    <3>6. CASE MatchIdsFail(r)
      BY <1>1, <3>6 DEF MatchIdsFail, GoTo, Tasks
    <3>7. CASE PayloadMalformed(r)
      BY <1>1, <3>7 DEF PayloadMalformed, Reply, GoTo, Tasks
    <3> QED
      BY <3>1, <3>2, <3>3, <3>4, <3>5, <3>6, <3>7 DEF CallRiot, MatchFound, MatchFails
  <2>2. CASE MatchIdsFound(r)
    <3>1. PICK ids \in MatchLists :
            /\ task' = [task EXCEPT ![r].ids = ids]
            /\ pc'[r] = IF ids = << >> THEN "persist" ELSE "plan_matches"
      BY <1>1, <2>2 DEF MatchIdsFound, GoTo
    <3>2. u = [t EXCEPT !.ids = ids]
      BY <1>1, <3>1
    <3> QED
      BY <1>1, <1>2, <3>1, <3>2 DEF Tasks
  <2> QED
    BY <1>2, <2>1, <2>2
<1>4. Lists(u)
  <2> HIDE DEF u
  <2>1. Parts(u)
    BY <1>3, NoElements DEF Parts
  <2>2. Sorted(u)
    BY <1>3, NoElements DEF Sorted
  <2> QED
    BY <2>1, <2>2 DEF Lists
<1>5. answer'[r] # "ok"
  <2>1. pc[r] \notin Ended
    BY DEF Ended
  <2>2. answer[r] # "ok"
    BY <2>1 DEF StageInv
  <2> QED
    BY <2>2, FetchFrame DEF Fetches
<1>6. StageInv(r)'
  <2>1. Collected(r)' <=> pc'[r] = "persist"
    BY <1>5 DEF Collected
  <2>2. pc'[r] = "persist" => Planned(u) /\ Through(u)
    BY <1>3, NoElements DEF Planned, Through
  <2> QED
    BY <1>3, <1>5, <2>1, <2>2 DEF StageInv
<1> QED
  BY <1>4, <1>6

(* The plan and the loop over the missing ids. *)
LEMMA CollectSync ==
  ASSUME IInv, NEW r \in Requests, Lists(task[r]), StageInv(r),
         Plan(r) \/ MatchFound(r) \/ MatchFails(r)
  PROVE  Lists(task'[r]) /\ StageInv(r)'
<1> DEFINE t == task[r]
           u == task'[r]
<1>1. /\ task \in [Requests -> Tasks] /\ t \in Tasks
      /\ pc \in [Requests -> {"idle"} \cup Active \cup Ended]
      /\ links' = links
  BY FetchFrame DEF IInv, TypeOK, Fetches, CallRiot, store
<1>2. answer'[r] # "ok"
  <2>1. pc[r] \notin Ended
    BY DEF Plan, PlanMatches, PlanLinks, MatchFound, MatchFails, Ended
  <2>2. answer[r] # "ok"
    BY <2>1 DEF StageInv
  <2> QED
    BY <2>2, FetchFrame DEF Fetches, CallRiot
<1>3. CASE PlanMatches(r)
  <2>1. /\ u.existing = Elements(t.ids) \cap matches /\ u.ids = t.ids
        /\ u.missing = t.missing /\ u.failed = t.failed /\ u.records = t.records
        /\ u.linked = t.linked /\ u.backfill = t.backfill
        /\ pc[r] = "plan_matches" /\ pc'[r] = "plan_links"
    BY <1>1, <1>3 DEF PlanMatches, GoTo, Tasks
  <2>2. t.missing = {} /\ t.failed = {} /\ t.records = << >> /\ t.linked = {} /\ t.backfill = {}
    BY <2>1 DEF StageInv, BeforeCollecting, IInv, TaskInv
  <2>3. t.ids \in MatchLists \cup {<< >>}
    BY DEF Lists, Parts
  <2>4. Lists(u)
    <3> HIDE DEF t, u
    <3>1. Parts(u)
      BY <2>1, <2>2, <2>3, NoElements DEF Parts
    <3>2. Sorted(u)
      BY <2>1, <2>2, NoElements DEF Sorted
    <3> QED
      BY <3>1, <3>2 DEF Lists
  <2>5. StageInv(r)'
    BY <1>2, <2>1, <2>2 DEF StageInv, Collected
  <2> QED
    BY <2>4, <2>5
<1>4. ASSUME NEW v \in Tasks, Lists(v), Planned(v), Continue(r, v),
             v.player = t.player,
             \A m \in v.existing \ v.backfill : <<t.player, m>> \in links
      PROVE  Lists(u) /\ StageInv(r)'
  <2>1. /\ Lists(u) /\ Planned(u)
        /\ pc'[r] = "match" \/ (pc'[r] = "persist" /\ Through(u))
        /\ u.player = v.player /\ u.existing = v.existing /\ u.backfill = v.backfill
    BY <1>1, <1>4, ContinueLists
  <2>2. pc'[r] \notin BeforeCollecting
    BY <2>1 DEF BeforeCollecting
  <2> HIDE DEF t, u
  <2>3. StageInv(r)'
    BY <1>1, <1>2, <1>4, <2>1, <2>2 DEF StageInv, Collected, u
  <2> QED
    BY <2>1, <2>3
<1>5. CASE PlanLinks(r)
  <2> DEFINE known == {m \in Elements(t.ids) : <<t.player, m>> \in links}
             v == Partitioned(t, known)
  <2>1. Continue(r, v) /\ pc[r] = "plan_links"
    BY <1>5 DEF PlanLinks
  <2>2. t.failed = {} /\ t.records = << >> /\ t.linked = {}
    BY <2>1 DEF StageInv, BeforeCollecting, IInv, TaskInv
  <2>3. v \in Tasks /\ Lists(v) /\ Planned(v)
    BY <1>1, <2>2, PartitionedType, PartitionedLists
  <2>4. v.player = t.player /\ v.existing = t.existing /\ v.backfill = t.existing \ known
    BY <1>1 DEF Partitioned, Tasks
  <2>5. \A m \in v.existing \ v.backfill : <<t.player, m>> \in links
    BY <2>4
  <2> HIDE DEF v
  <2> QED
    BY <1>4, <2>1, <2>3, <2>4, <2>5
<1>6. CASE MatchFound(r) \/ MatchFails(r)
  <2>1. pc[r] = "match"
    BY <1>6 DEF MatchFound, MatchFails
  <2>2. Planned(t) /\ \A m \in t.existing \ t.backfill : <<t.player, m>> \in links
    BY <2>1 DEF StageInv
  <2>3. PICK m \in Matches : /\ IsNext(t, m)
                             /\ Continue(r, WithMatch(t, m)) \/ Continue(r, WithFailure(t, m))
    BY <1>6 DEF MatchFound, MatchFails
  <2>4. m \in t.missing
    BY <2>3 DEF IsNext
  <2>5. CASE Continue(r, WithMatch(t, m))
    <3> DEFINE v == WithMatch(t, m)
    <3>1. v \in Tasks /\ Lists(v) /\ Planned(v)
      BY <1>1, <2>2, <2>3, WithMatchType, FoundLists
    <3>2. v.player = t.player /\ v.existing = t.existing /\ v.backfill = t.backfill
      BY <1>1 DEF WithMatch, WithFailure, Tasks
    <3>3. Continue(r, v)
      BY <2>5
    <3> HIDE DEF v
    <3> QED
      BY <1>4, <2>2, <3>1, <3>2, <3>3
  <2>6. CASE Continue(r, WithFailure(t, m))
    <3> DEFINE v == WithFailure(t, m)
    <3>1. v \in Tasks /\ Lists(v) /\ Planned(v)
      BY <1>1, <2>2, <2>4, WithFailureType, FailureLists
    <3>2. v.player = t.player /\ v.existing = t.existing /\ v.backfill = t.backfill
      BY <1>1 DEF WithFailure, Tasks
    <3>3. Continue(r, v)
      BY <2>6
    <3> HIDE DEF v
    <3> QED
      BY <1>4, <2>2, <3>1, <3>2, <3>3
  <2> QED
    BY <2>3, <2>5, <2>6
<1> QED
  BY <1>3, <1>5, <1>6 DEF Plan

LEMMA FetchSync ==
  ASSUME IInv, WritersInv, SyncInv, NEW r \in Requests, Fetches(r)
  PROVE  SyncInv'
<1>1. /\ UNCHANGED store /\ pc[r] \in Active \ {"persist"}
      /\ \A q \in Requests \ {r} :
           pc'[q] = pc[q] /\ task'[q] = task[q] /\ answer'[q] = answer[q]
  BY FetchFrame
<1>2. pc[r] \notin Ended
  BY <1>1 DEF Active, FetchPoints, DbPoints, Ended
<1>3. SuccessMeansComplete'
  BY <1>1, <1>2, CompleteKept DEF SyncInv, store
<1>4. \A q \in Requests \ {r} : Lists(task'[q]) /\ StageInv(q)'
  BY <1>1, StageKept DEF SyncInv, store
<1>5. Lists(task'[r]) /\ StageInv(r)'
  <2>1. Lists(task[r]) /\ StageInv(r)
    BY DEF SyncInv
  <2>2. CASE Plan(r) \/ MatchFound(r) \/ MatchFails(r)
    BY <2>1, <2>2, CollectSync
  <2>3. CASE CallRiot(r) /\ pc[r] \in {"account", "summoner", "ranked", "match_ids"}
    BY <2>1, <2>3, EarlySync
  <2>4. CASE PayloadMalformed(r) /\ pc[r] = "match"
    <3>1. /\ task \in [Requests -> Tasks] /\ pc \in [Requests -> {"idle"} \cup Active \cup Ended]
          /\ answer \in [Requests -> Answers]
      BY DEF IInv, TypeOK
    <3>2. /\ pc'[r] = "answered" /\ answer'[r] = "error"
          /\ task'[r] = [task[r] EXCEPT !.failure = "malformed"]
      BY <2>4, <3>1 DEF PayloadMalformed, Reply, GoTo
    <3>3. /\ task'[r].ids = task[r].ids /\ task'[r].existing = task[r].existing
          /\ task'[r].missing = task[r].missing /\ task'[r].failed = task[r].failed
          /\ task'[r].records = task[r].records /\ task'[r].linked = task[r].linked
          /\ task'[r].backfill = task[r].backfill
      BY <3>1, <3>2 DEF Tasks
    <3>4. Parts(task'[r])
      BY <2>1, <3>3 DEF Lists, Parts
    <3>5. Sorted(task'[r])
      BY <2>1, <3>3 DEF Lists, Sorted
    <3>6. StageInv(r)'
      BY <3>2 DEF StageInv, Collected, BeforeCollecting, Ended
    <3> QED
      BY <3>4, <3>5, <3>6 DEF Lists
  <2> QED
    BY <2>2, <2>3, <2>4 DEF Fetches, CallRiot, AccountFound, AccountFails, SummonerFound,
       RankedFound, ProfileFails, MatchIdsFound, MatchIdsFail, PayloadMalformed, FetchPoints
<1> QED
  BY <1>3, <1>4, <1>5 DEF SyncInv

LEMMA CommitSync ==
  ASSUME IInv, WritersInv, SyncInv, NEW r \in Requests, Commits(r)
  PROVE  SyncInv'
<1> DEFINE p == task[r].player
           t == task[r]
<1>1. /\ pc[r] = "persist" /\ pc'[r] \in Ended /\ task' = task
      /\ \A q \in Requests \ {r} : pc'[q] = pc[q] /\ answer'[q] = answer[q]
  BY CommitsIs
<1>2. /\ p \in Players /\ t \in Tasks /\ TaskInv(r) /\ Lists(t) /\ StageInv(r)
      /\ players \in [Players -> PlayerRows \cup {None}]
  BY CommittedMatches DEF Commits, IInv, TypeOK, SyncInv
<1>3. matches \subseteq matches' /\ links \subseteq links'
  <2>1. CASE t.failure = "none"
    BY <2>1, SuccessPublishes
  <2>2. CASE t.failure # "none"
    BY <2>2, FailurePublishes
  <2> QED
    BY <2>1, <2>2
<1>4. \A q \in Requests \ {r} : Lists(task'[q]) /\ StageInv(q)'
  BY <1>1, <1>3, StageKept DEF SyncInv
<1>5. Lists(task'[r]) /\ StageInv(r)'
  <2>1. Ended \cap (BeforeCollecting \cup {"match", "persist"}) = {}
    BY DEF Ended, BeforeCollecting
  <2> QED
    BY <1>1, <1>2, <2>1 DEF StageInv, Collected
<1>6. SuccessMeansComplete'
  <2> SUFFICES ASSUME NEW o \in Players, players'[o] # None, NEW w, w = players'[o].profile,
                      players'[o].status = "success", w \in Requests,
                      NEW m \in Elements(task[w].ids)
               PROVE  m \in matches' /\ <<o, m>> \in links'
    BY <1>1 DEF SuccessMeansComplete
  <2>1. CASE players'[o] = players[o]
    <3>1. m \in matches /\ <<o, m>> \in links
      BY <2>1 DEF SyncInv, SuccessMeansComplete
    <3> QED
      BY <1>3, <3>1
  <2>2. CASE players'[o] # players[o] /\ t.failure # "none"
    <3>1. players'[o] = PlayerRow(r, players[o])
      BY <1>2, <2>2, FailurePublishes
    <3> QED
      BY <2>2, <3>1 DEF PlayerRow, Outcome
  <2>3. CASE players'[o] # players[o] /\ t.failure = "none"
    <3>1. /\ players' = [players EXCEPT ![p] = [profile |-> r, status |-> Outcome(t)]]
          /\ matches' = matches \cup t.linked
          /\ links' = links \cup {p} \X t.linked
      BY <2>3, SuccessPublishes
    <3>2. o = p /\ w = r /\ Outcome(t) = "success"
      BY <1>2, <2>3, <3>1
    <3>3. t.failed = {}
      BY <3>2 DEF Outcome
    <3>4. Planned(t) /\ Through(t)
      BY <1>1, <1>2 DEF StageInv, Collected
    <3>5. m \in t.existing \cup Elements(t.records)
      BY <3>2, <3>3, <3>4 DEF Planned, Through
    <3>6. CASE m \in t.linked
      BY <3>1, <3>2, <3>6
    <3>7. CASE m \notin t.linked
      <4>1. m \in t.existing /\ m \notin t.backfill
        BY <1>2, <3>3, <3>4, <3>5, <3>7 DEF TaskInv, Through
      <4>2. m \in matches /\ <<p, m>> \in links
        BY <1>1, <1>2, <4>1 DEF TaskInv, StageInv
      <4> QED
        BY <1>3, <3>2, <4>2
    <3> QED
      BY <3>6, <3>7
  <2> QED
    BY <2>1, <2>2, <2>3
<1> QED
  BY <1>4, <1>5, <1>6 DEF SyncInv

LEMMA NextSyncInv == IInv /\ WritersInv /\ SyncInv /\ [Next]_vars => SyncInv'
BY StepKinds, QuietSync, FetchSync, WriteSync, CommitSync

LEMMA SyncInvariance == Spec => [](IInv /\ WritersInv /\ SyncInv)
BY InitSyncInv, NextSyncInv, WritersInvariance, PTL DEF Spec

----------------------------------------------------------------------------
(* Theorems *)

(* A row that says "success" tells the truth, whatever other refreshes,    *)
(* failures and restarts came between the plan and the commit.             *)
THEOREM SuccessIsComplete == Spec => []SuccessMeansComplete
<1>1. SyncInv => SuccessMeansComplete
  BY DEF SyncInv
<1> QED
  BY <1>1, SyncInvariance, PTL

(* Every non-empty set of numbers has a least element. *)
LEMMA LeastNumber ==
  ASSUME NEW N \in SUBSET Nat, N # {}
  PROVE  \E n \in N : \A k \in N : n <= k
<1>1. PICK n \in N : \A k \in N : <<k, n>> \notin OpToRel(<, Nat)
  BY NatLessThanWellFounded, WFMin
<1>2. \A k \in N : ~(k < n)
  BY <1>1 DEF OpToRel
<1> QED
  BY <1>2

(* The rows a transaction holds, and that it holds none before it starts.  *)
LEMMA RowsHeldAre ==
  ASSUME IInv, WritersInv, NEW q \in Requests, NEW row \in RowsHeld(q)
  PROVE  /\ tx[q].done > 0
         /\ \/ row = <<"player", task[q].player>>
            \/ \E x : row = <<"ranked", task[q].player, x>>
            \/ \E m \in WrittenMatches(q) : row = <<"match", m>>
            \/ \E m : row = <<"link", task[q].player, m>>
<1>1. /\ tx[q].done \in 0 .. 5 /\ tx[q].locked \in Nat /\ TxInv(q) /\ WrittenInv(q)
  BY DEF IInv, TypeOK, Transactions, WritersInv
<1>2. \/ HasDone(q, "player") /\ row = <<"player", task[q].player>>
      \/ HasDone(q, "ranked_upsert") /\ row \in RankedRows(task[q].player, task[q].entries)
      \/ row \in RankedRows(task[q].player, tx[q].deleted)
      \/ \E m \in WrittenMatches(q) : row = <<"match", m>>
      \/ HasDone(q, "links") /\ \E m : row = <<"link", task[q].player, m>>
  BY DEF RowsHeld
<1>3. HasDone(q, "player") \/ HasDone(q, "ranked_upsert") \/ HasDone(q, "links") => tx[q].done > 0
  BY <1>1, HasDoneIs DEF TxInv
<1>4. tx[q].done = 0 => tx[q].deleted = {} /\ WrittenMatches(q) = {}
  BY <1>1 DEF WrittenInv, WrittenMatches
<1>5. tx[q].done > 0
  BY <1>1, <1>2, <1>3, <1>4 DEF RankedRows
<1> QED
  BY <1>2, <1>5 DEF RankedRows

(* A transaction waits for the player's row or, once it has that, for the  *)
(* next of its matches; whoever it waits for has the row of its player.    *)
LEMMA WaitsForIs ==
  ASSUME IInv, WritersInv, NEW r \in Requests, NEW q \in Requests, WaitsFor(r, q)
  PROVE  /\ tx[q].done > 0
         /\ tx[r].done > 0 =>
              /\ tx[r].done = 3 /\ tx[r].locked < Len(task[r].records)
              /\ task[r].records[tx[r].locked + 1] \in WrittenMatches(q)
<1>1. tx[r].done \in 0 .. 5 /\ q # r
  BY DEF IInv, TypeOK, Transactions, WaitsFor
<1>2. PICK row : row \in RowsWanted(r) /\ row \in RowsHeld(q)
  BY DEF WaitsFor
<1>3. /\ tx[q].done > 0
      /\ \/ row = <<"player", task[q].player>>
         \/ \E x : row = <<"ranked", task[q].player, x>>
         \/ \E m \in WrittenMatches(q) : row = <<"match", m>>
         \/ \E m : row = <<"link", task[q].player, m>>
  BY <1>2, RowsHeldAre
<1>4. ASSUME tx[r].done > 0
      PROVE  /\ tx[r].done = 3 /\ tx[r].locked < Len(task[r].records)
             /\ task[r].records[tx[r].locked + 1] \in WrittenMatches(q)
  <2>1. task[q].player # task[r].player
    BY <1>1, <1>3, <1>4 DEF WritersInv, OneWriter
  <2>2. CASE Due(r, "ranked_upsert") \/ Due(r, "ranked_delete")
    <3>1. \E x : row = <<"ranked", task[r].player, x>>
      BY <1>1, <1>2, <2>2, RowsWantedIs DEF RankedRows
    <3> QED
      BY <1>3, <2>1, <3>1
  <2>3. CASE Due(r, "links")
    <3>1. \E m : row = <<"link", task[r].player, m>>
      BY <1>1, <1>2, <2>3, RowsWantedIs
    <3> QED
      BY <1>3, <2>1, <3>1
  <2>4. CASE Due(r, "matches")
    <3>1. row \in NextMatchRow(r)
      BY <1>1, <1>2, <2>4, RowsWantedIs
    <3>2. /\ tx[r].locked < Len(task[r].records)
          /\ row = <<"match", task[r].records[tx[r].locked + 1]>>
      BY <3>1 DEF NextMatchRow
    <3>3. tx[r].done = 3
      BY <1>1, <2>4, DueIs
    <3> QED
      BY <1>3, <3>2, <3>3
  <2> QED
    BY <1>1, <1>2, <1>4, <2>2, <2>3, <2>4, RowsWantedIs, DueIs
<1> QED
  BY <1>3, <1>4

(* Among transactions that all wait for a match, the one whose next match  *)
(* is the earliest waits for none of the others: they hold later ones.     *)
LEMMA SomeoneProceeds ==
  ASSUME IInv, WritersInv, SyncInv, NEW S \in SUBSET Requests, S # {}
  PROVE  \E r \in S : \A q \in S : ~WaitsFor(r, q)
<1> DEFINE Wants(r) == task[r].records[tx[r].locked + 1]
           Blocked(r) == tx[r].done = 3 /\ tx[r].locked < Len(task[r].records)
<1>1. \A r \in S : /\ tx[r].done = 0 \/ tx[r].done > 0
                   /\ tx[r].locked \in Nat /\ task[r].records \in Seq(Matches)
  <2> SUFFICES ASSUME NEW r \in S
               PROVE  /\ tx[r].done = 0 \/ tx[r].done > 0
                      /\ tx[r].locked \in Nat /\ task[r].records \in Seq(Matches)
    OBVIOUS
  <2>1. r \in Requests /\ tx[r] \in Transactions /\ task[r] \in Tasks
    BY DEF IInv, TypeOK
  <2> QED
    BY <2>1 DEF Transactions, Tasks
<1>2. CASE \A q \in S : tx[q].done = 0
  BY <1>2, WaitsForIs
<1>3. CASE \E r \in S : tx[r].done > 0 /\ ~Blocked(r)
  BY <1>3, WaitsForIs
<1>4. CASE /\ \E r \in S : tx[r].done > 0
           /\ \A r \in S : tx[r].done > 0 => Blocked(r)
  <2> DEFINE N == {Recency[Wants(r)] : r \in {q \in S : tx[q].done > 0}}
  <2>1. \A r \in S : tx[r].done > 0 => Wants(r) \in Matches
    BY <1>1, <1>4
  <2>2. N \in SUBSET Nat /\ N # {}
    BY <1>4, <2>1, RecencyAssumption
  <2>3. PICK n \in N : \A k \in N : n <= k
    BY <2>2, LeastNumber
  <2>4. PICK r \in S : tx[r].done > 0 /\ Recency[Wants(r)] = n
    OBVIOUS
  <2>5. ASSUME NEW q \in S, WaitsFor(r, q) PROVE FALSE
    <3>1. tx[q].done > 0 /\ Wants(r) \in WrittenMatches(q)
      BY <2>4, <2>5, WaitsForIs
    <3>2. tx[q].locked < Len(task[q].records) /\ n <= Recency[Wants(q)]
      BY <1>4, <2>3, <3>1
    <3>3. PICK i \in 1 .. tx[q].locked : Wants(r) = task[q].records[i]
      BY <3>1 DEF WrittenMatches
    <3>4. Sorted(task[q])
      BY DEF SyncInv, Lists
    <3>5. /\ i \in DOMAIN task[q].records /\ tx[q].locked + 1 \in DOMAIN task[q].records
          /\ i < tx[q].locked + 1
      BY <1>1, <3>2
    <3>6. Recency[task[q].records[i]] > Recency[Wants(q)]
      BY <3>4, <3>5 DEF Sorted
    <3>7. Recency[Wants(q)] \in Nat /\ n \in Nat
      BY <2>1, <2>2, <3>1, RecencyAssumption
    <3> QED
      BY <2>4, <3>2, <3>3, <3>6, <3>7
  <2> QED
    BY <2>5
<1> QED
  BY <1>1, <1>2, <1>3, <1>4

(* PostgreSQL never has a deadlock to break, however many refreshes write  *)
(* at the same time.                                                       *)
THEOREM TransactionsDoNotDeadlock == Spec => []NoDeadlock
<1>1. IInv /\ WritersInv /\ SyncInv => NoDeadlock
  BY SomeoneProceeds DEF NoDeadlock
<1> QED
  BY <1>1, SyncInvariance, PTL

(* A list from the latest to the earliest names no match twice.            *)
LEMMA ListCardinality ==
  ASSUME NEW s \in Seq(Matches),
         \A i, j \in DOMAIN s : i < j => Recency[s[i]] > Recency[s[j]]
  PROVE  IsFiniteSet(Elements(s)) /\ Cardinality(Elements(s)) = Len(s)
<1>1. /\ Len(s) \in Nat /\ DOMAIN s = 1 .. Len(s)
      /\ \A i \in 1 .. Len(s) : s[i] \in Matches
  OBVIOUS
<1>2. s \in [1 .. Len(s) -> Elements(s)]
  BY <1>1 DEF Elements
<1>3. \A i, j \in 1 .. Len(s) : s[i] = s[j] => i = j
  <2> SUFFICES ASSUME NEW i \in 1 .. Len(s), NEW j \in 1 .. Len(s), s[i] = s[j], i < j
               PROVE  FALSE
    BY <1>1
  <2>1. Recency[s[i]] > Recency[s[j]] /\ Recency[s[i]] \in Nat
    BY <1>1, RecencyAssumption
  <2> QED
    BY <2>1
<1>4. s \in Bijection(1 .. Len(s), Elements(s))
  BY <1>1, <1>2, <1>3 DEF Bijection, Injection, Surjection, IsInjective, Elements
<1>5. ExistsBijection(1 .. Len(s), Elements(s))
  BY <1>4 DEF ExistsBijection
<1>6. IsFiniteSet(Elements(s))
  BY <1>1, <1>5, FS_NatBijection
<1> QED
  BY <1>1, <1>5, <1>6, FS_CountingElements

LEMMA SummaryHolds ==
  ASSUME IInv, SyncInv
  PROVE  SummaryAddsUp
<1> SUFFICES ASSUME NEW r \in Requests, answer[r] = "ok", NEW t, t = task[r]
             PROVE  LET s == Summary(t) IN
                    /\ s.upserted = s.new + s.backfilled
                    /\ s.received + Cardinality(t.failed \cap t.existing)
                         + (IF t.idsFailed THEN 1 ELSE 0) = s.new + s.existing + s.failed
  BY DEF SummaryAddsUp
<1>1. /\ t \in Tasks /\ Lists(t) /\ Planned(t) /\ Through(t)
      /\ Elements(t.records) \subseteq t.linked
  BY DEF IInv, TypeOK, TaskInv, SyncInv, StageInv, Collected
<1>2. t.ids \in Seq(Matches) /\ t.records \in Seq(Matches)
  BY <1>1 DEF Tasks
<1>3. /\ IsFiniteSet(Elements(t.ids))
      /\ Cardinality(Elements(t.ids)) = Len(t.ids)
  <2>1. \A i, j \in DOMAIN t.ids : i < j => Recency[t.ids[i]] > Recency[t.ids[j]]
    BY <1>1, MatchListsAssumption DEF Lists, Parts
  <2> QED
    BY <1>2, <2>1, ListCardinality
<1>4. Cardinality(Elements(t.records)) = Len(t.records)
  BY <1>1, <1>2, ListCardinality DEF Lists, Sorted
<1> DEFINE E == Elements(t.ids)
           R == Elements(t.records)
           X == t.existing
           F == t.failed
           B == t.backfill
           L == t.linked
           marker == IF t.idsFailed THEN 1 ELSE 0
<1>5. /\ IsFiniteSet(E) /\ X \subseteq E /\ R \subseteq E \ X /\ F \subseteq E \ R
      /\ E \subseteq X \cup R \cup F /\ B \subseteq X /\ R \subseteq L /\ L \subseteq R \cup B
  BY <1>1, <1>3 DEF Lists, Parts, Planned, Through
<1>6. /\ Summary(t).received = Cardinality(E) /\ Summary(t).new = Cardinality(R)
      /\ Summary(t).existing = Cardinality(X) /\ Summary(t).upserted = Cardinality(L)
      /\ Summary(t).backfilled = Cardinality(L \cap B)
      /\ Summary(t).failed = Cardinality(F) + marker
  BY <1>3, <1>4 DEF Summary
<1>7. marker \in Nat
  OBVIOUS
<1> HIDE DEF E, R, X, F, B, L, marker
<1>8. /\ Cardinality(L) = Cardinality(R) + Cardinality(L \cap B)
      /\ Cardinality(E) + Cardinality(F \cap X)
           = Cardinality(R) + Cardinality(X) + Cardinality(F)
      /\ {Cardinality(E), Cardinality(R), Cardinality(X), Cardinality(F), Cardinality(L),
          Cardinality(L \cap B), Cardinality(F \cap X)} \subseteq Nat
  <2>1. \A T \in SUBSET E : IsFiniteSet(T) /\ Cardinality(T) \in Nat
    BY <1>5, FS_Subset, FS_CardinalityType
  <2>2. /\ X \in SUBSET E /\ R \in SUBSET E /\ F \in SUBSET E /\ L \in SUBSET E
        /\ L \cap B \in SUBSET E /\ F \cap X \in SUBSET E /\ X \cup F \in SUBSET E
    <3>1. F \subseteq E /\ L \subseteq E
      BY <1>5
    <3> QED
      BY <1>5, <3>1
  <2>3. Cardinality(L) = Cardinality(R) + Cardinality(L \cap B)
    <3>1. L = R \cup (L \cap B) /\ R \cap (L \cap B) = {}
      BY <1>5
    <3>2. Cardinality(R \cup (L \cap B))
            = Cardinality(R) + Cardinality(L \cap B) - Cardinality(R \cap (L \cap B))
      BY <2>1, <2>2, FS_Union
    <3>3. Cardinality(R \cap (L \cap B)) = 0
      BY <3>1, FS_EmptySet
    <3>4. Cardinality(R) \in Nat /\ Cardinality(L \cap B) \in Nat
      BY <2>1, <2>2
    <3>5. Cardinality(R \cup (L \cap B)) = Cardinality(R) + Cardinality(L \cap B)
      BY <3>2, <3>3, <3>4
    <3> QED
      BY <3>1, <3>5
  <2>4. Cardinality(E) + Cardinality(F \cap X)
          = Cardinality(R) + Cardinality(X) + Cardinality(F)
    <3>1. E = (X \cup F) \cup R /\ (X \cup F) \cap R = {} /\ X \cap F = F \cap X
      BY <1>5
    <3>2. Cardinality((X \cup F) \cup R)
            = Cardinality(X \cup F) + Cardinality(R) - Cardinality((X \cup F) \cap R)
      BY <2>1, <2>2, FS_Union
    <3>3. Cardinality(X \cup F) = Cardinality(X) + Cardinality(F) - Cardinality(X \cap F)
      BY <2>1, <2>2, FS_Union
    <3>4. Cardinality(E) = Cardinality(X \cup F) + Cardinality(R)
      BY <2>1, <2>2, <3>1, <3>2, FS_EmptySet
    <3>5. Cardinality(X \cup F) = Cardinality(X) + Cardinality(F) - Cardinality(F \cap X)
      BY <3>1, <3>3
    <3> QED
      BY <2>1, <2>2, <3>4, <3>5
  <2>5. E \in SUBSET E
    OBVIOUS
  <2> QED
    BY <2>1, <2>2, <2>3, <2>4, <2>5
<1>9. /\ Summary(t).upserted = Summary(t).new + Summary(t).backfilled
      /\ Summary(t).received + Cardinality(F \cap X) + marker
           = Summary(t).new + Summary(t).existing + Summary(t).failed
  BY <1>6, <1>7, <1>8
<1> QED
  BY <1>9 DEF F, X, marker

(* The counts reported to the client add up: each received id is new,      *)
(* already stored or failed, a failed backfill alone being counted twice.  *)
THEOREM CountsReported == Spec => []SummaryAddsUp
<1>1. IInv /\ WritersInv /\ SyncInv => SummaryAddsUp
  BY SummaryHolds
<1> QED
  BY <1>1, SyncInvariance, PTL
=============================================================================
