------------------------- MODULE PooledServiceProofs -------------------------
(***************************************************************************)
(* Theorems about PooledService for any requests, readers and any limit of *)
(* the pool, with proofs checked by TLAPS.  The pool only ever delays a    *)
(* refresh, so every theorem about PlayerRefresh holds of the service.     *)
(***************************************************************************)
EXTENDS PooledService, MatchSyncProofs, FiniteSetTheorems

----------------------------------------------------------------------------
(* The service's steps are steps of its refreshes, or leave them alone *)

LEMMA ServiceStep == [PoolNext]_service => [Next]_vars
<1> SUFFICES ASSUME [PoolNext]_service PROVE [Next]_vars
  OBVIOUS
<1>1. ASSUME NEW r \in Requests, RefreshReceived(r) \/ AskRiot(r) \/ Statement(r)
                                   \/ CommitLost(r) \/ RefreshFails(r)
      PROVE  Next
  BY <1>1 DEF RefreshReceived, AskRiot, Statement, CommitLost, RefreshFails, Next, Step
<1>2. ASSUME NEW c \in Clients, CheckOut(c) \/ Wait(c)
      PROVE  UNCHANGED vars
  BY <1>2 DEF CheckOut, Wait
<1>3. ASSUME NEW c \in Readers,
             \/ ReadReceived(c) \/ PlayerSelected(c) \/ PlayerUnknown(c)
             \/ RestSelected(c) \/ Replied(c) \/ ReadFails(c) \/ PoolTimeout(c)
      PROVE  UNCHANGED vars
  BY <1>3 DEF ReadReceived, PlayerSelected, PlayerUnknown, RestSelected, Replied,
              ReadFails, PoolTimeout
<1>4. CASE ServiceRestart
  BY <1>4 DEF ServiceRestart, Next
<1>5. CASE AllAnswered \/ UNCHANGED service
  BY <1>5 DEF AllAnswered, service, vars
<1> QED
  BY <1>1, <1>2, <1>3, <1>4, <1>5 DEF PoolNext, RefreshProceeds, ReadProceeds, Clients

(* Sharing the pool changes nothing of what the refreshes do.              *)
THEOREM RefreshesAreKept == PoolSpec => Spec
<1>1. PoolInit => Init
  BY DEF PoolInit
<1> QED
  BY <1>1, ServiceStep, PTL DEF PoolSpec, Spec

(* So no connection, given back or waited for, makes a foreign key fail.   *)
THEOREM PooledForeignKeysHold == PoolSpec => []NoForeignKeyViolation
BY RefreshesAreKept, ForeignKeysHold, PTL

(* Reads over the same pool see the refreshes that RefreshStore promises.  *)
THEOREM PooledStoreIsKept == PoolSpec => Store!Spec
BY RefreshesAreKept, Implementation, PTL DEF ReadersSeeWholeRefreshes

(* Transactions that take their connection from the pool wait for rows in  *)
(* no circle; nor for connections, by LocksKeepConnections.                *)
THEOREM PooledTransactionsDoNotDeadlock == PoolSpec => []NoDeadlock
BY RefreshesAreKept, TransactionsDoNotDeadlock, PTL

----------------------------------------------------------------------------
(* The inductive invariant *)

PoolInv ==
  /\ PoolTypeOK
  /\ IsFiniteSet(Holders)
  /\ Cardinality(Holders) <= PoolLimit
  /\ NoConnectionIsLost
  /\ \A r \in Requests : tx[r] # NoTx => conn[r] = "held"

LEMMA InitPoolInv == PoolInit => PoolInv
<1> SUFFICES ASSUME PoolInit PROVE PoolInv
  OBVIOUS
<1>1. Holders = {}
  BY DEF PoolInit, Holders
<1>2. IsFiniteSet(Holders) /\ Cardinality(Holders) <= PoolLimit
  BY <1>1, FS_EmptySet, PoolLimitAssumption
<1>3. PoolTypeOK /\ NoConnectionIsLost
  BY DEF PoolInit, PoolTypeOK, NoConnectionIsLost, Clients
<1>4. \A r \in Requests : tx[r] = NoTx
  BY DEF PoolInit, Init
<1> QED
  BY <1>2, <1>3, <1>4 DEF PoolInv

(* Giving connections back never overdraws the pool. *)
LEMMA HoldersShrink ==
  ASSUME PoolInv, \A c \in Clients : conn'[c] = "held" => conn[c] = "held"
  PROVE  IsFiniteSet(Holders)' /\ (Cardinality(Holders) <= PoolLimit)'
<1>1. Holders' \subseteq Holders
  BY DEF Holders
<1>2. IsFiniteSet(Holders') /\ Cardinality(Holders') <= Cardinality(Holders)
  BY <1>1, FS_Subset DEF PoolInv
<1>3. Cardinality(Holders') \in Nat /\ Cardinality(Holders) \in Nat
  BY <1>2, FS_CardinalityType DEF PoolInv
<1> QED
  BY <1>2, <1>3, PoolLimitAssumption DEF PoolInv

(* A step of the refresh r that says what it does with r's transaction.    *)
LEMMA PooledStep ==
  ASSUME PoolInv, NEW r \in Requests, Pooled(r),
         \A q \in Requests \ {r} : pc'[q] = pc[q] /\ tx'[q] = tx[q],
         conn[r] # "none" => pc'[r] \in DbPoints \cup {"match"} \cup Ended,
         tx'[r] # NoTx => conn[r] = "held" /\ pc[r] = "persist" /\ pc'[r] = "persist"
  PROVE  PoolInv'
<1>1. /\ conn \in [Clients -> {"none", "waiting", "held"}] /\ r \in Clients /\ r \notin Readers
      /\ Requests \subseteq Clients
  BY ReadersAssumption DEF PoolInv, PoolTypeOK, Clients
<1>2. /\ conn' \in [Clients -> {"none", "waiting", "held"}] /\ read' = read
      /\ \A c \in Clients \ {r} : conn'[c] = conn[c]
      /\ conn'[r] = IF GivesBack(r) THEN "none" ELSE conn[r]
  BY <1>1 DEF Pooled
<1>3. PoolTypeOK'
  BY <1>2 DEF PoolInv, PoolTypeOK
<1>4. IsFiniteSet(Holders)' /\ (Cardinality(Holders) <= PoolLimit)'
  BY <1>2, HoldersShrink
<1>5. NoConnectionIsLost'
  <2>1. conn'[r] # "none" => pc'[r] \in DbPoints \cup {"match"}
    BY <1>2 DEF GivesBack
  <2> QED
    BY <1>1, <1>2, <2>1 DEF PoolInv, NoConnectionIsLost, Clients
<1>6. ASSUME NEW q \in Requests, tx'[q] # NoTx PROVE conn'[q] = "held"
  <2>1. CASE q = r
    <3>1. "persist" \notin Ended
      BY DEF Ended
    <3> QED
      BY <1>2, <1>6, <2>1, <3>1 DEF GivesBack
  <2>2. CASE q # r
    BY <1>1, <1>2, <1>6, <2>2 DEF PoolInv
  <2> QED
    BY <2>1, <2>2
<1> QED
  BY <1>3, <1>4, <1>5, <1>6 DEF PoolInv

LEMMA AskRiotStep ==
  ASSUME IInv, PoolInv, NEW r \in Requests, AskRiot(r)
  PROVE  PoolInv'
<1>1. /\ pc \in [Requests -> {"idle"} \cup Active \cup Ended]
      /\ tx' = tx /\ Pooled(r) /\ pc[r] \in FetchPoints
  BY DEF IInv, TypeOK, AskRiot, CallRiot, AccountFound, AccountFails, SummonerFound,
         RankedFound, ProfileFails, MatchIdsFound, MatchIdsFail, MatchFound, MatchFails,
         PayloadMalformed, FetchPoints
<1>2. tx[r] = NoTx
  BY <1>1 DEF IInv, TxInv, FetchPoints
<1>3. PICK point : pc' = [pc EXCEPT ![r] = point]
                   /\ (pc[r] = "match" => point \in {"persist", "match", "answered"})
  BY DEF AskRiot, CallRiot, AccountFound, AccountFails, SummonerFound, RankedFound,
         ProfileFails, MatchIdsFound, MatchIdsFail, MatchFound, MatchFails,
         PayloadMalformed, Continue, Reply, GoTo
<1>4. conn[r] # "none" => pc[r] = "match"
  BY <1>1 DEF PoolInv, NoConnectionIsLost, FetchPoints, DbPoints
<1>5. conn[r] # "none" => pc'[r] \in DbPoints \cup {"match"} \cup Ended
  BY <1>1, <1>3, <1>4 DEF DbPoints, Ended
<1> QED
  BY <1>1, <1>2, <1>3, <1>5, PooledStep

LEMMA StatementPoolStep ==
  ASSUME IInv, PoolInv, NEW r \in Requests, Statement(r) \/ CommitLost(r) \/ RefreshFails(r)
  PROVE  PoolInv'
<1>1. /\ pc \in [Requests -> {"idle"} \cup Active \cup Ended] /\ tx \in [Requests -> Transactions]
      /\ Pooled(r) /\ TxInv(r)
  BY DEF IInv, TypeOK, Statement, CommitLost, RefreshFails
<1>2. CASE Statement(r) /\ Plan(r)
  <2>1. PICK point \in {"plan_links", "persist", "match"} : pc' = [pc EXCEPT ![r] = point]
    BY <1>2 DEF Plan, PlanMatches, PlanLinks, Continue, GoTo
  <2>2. tx' = tx /\ tx[r] = NoTx
    BY <1>1, <1>2 DEF Plan, PlanMatches, PlanLinks, TxInv
  <2> QED
    BY <1>1, <2>1, <2>2, PooledStep DEF DbPoints
<1>3. CASE Statement(r) /\ Persist(r) /\ ~Commit(r)
  <2>1. PICK x : tx' = [tx EXCEPT ![r] = x] /\ pc' = pc /\ pc[r] = "persist"
    BY <1>3 DEF Persist, UpsertPlayer, UpsertRanked, DeleteRanked, UpsertMatchRow,
                UpsertMatchesEnds, UpsertLinks, Execute, Due
  <2>2. conn[r] = "held"
    BY <1>3 DEF Statement
  <2> QED
    BY <1>1, <2>1, <2>2, PooledStep DEF DbPoints
<1>4. CASE Commit(r) \/ CommitLost(r) \/ RefreshFails(r)
  <2>1. pc' = [pc EXCEPT ![r] = "answered"] /\ tx' = [tx EXCEPT ![r] = NoTx]
    BY <1>4 DEF Commit, CommitLost, CommitUnconfirmed, RefreshFails, DatabaseFails,
                EndTransaction, Reply, GoTo
  <2> QED
    BY <1>1, <2>1, PooledStep DEF Ended
<1> QED
  BY <1>2, <1>3, <1>4 DEF Statement

LEMMA ReceivedPoolStep ==
  ASSUME IInv, PoolInv, NEW r \in Requests, RefreshReceived(r)
  PROVE  PoolInv'
<1>1. /\ pc \in [Requests -> {"idle"} \cup Active \cup Ended] /\ TxInv(r)
      /\ Pooled(r) /\ pc[r] = "idle" /\ pc' = [pc EXCEPT ![r] = "account"] /\ tx' = tx
  BY DEF IInv, TypeOK, RefreshReceived, Receive, GoTo
<1>2. conn[r] = "none"
  BY <1>1 DEF PoolInv, NoConnectionIsLost, DbPoints
<1>3. tx[r] = NoTx
  BY <1>1 DEF TxInv
<1> QED
  BY <1>1, <1>2, <1>3, PooledStep

LEMMA CheckOutStep ==
  ASSUME PoolInv, NEW c \in Clients, CheckOut(c) \/ Wait(c)
  PROVE  PoolInv'
<1>1. /\ conn \in [Clients -> {"none", "waiting", "held"}] /\ NeedsConnection(c)
      /\ UNCHANGED <<read, pc, tx>>
  BY DEF PoolInv, PoolTypeOK, CheckOut, Wait, vars
<1>2. PICK hold \in {"waiting", "held"} : conn' = [conn EXCEPT ![c] = hold]
                                          /\ (hold = "held" <=> CheckOut(c))
  BY DEF CheckOut, Wait
<1>3. PoolTypeOK'
  BY <1>1, <1>2 DEF PoolInv, PoolTypeOK
<1>4. NoConnectionIsLost'
  <2>1. \A d \in Clients \ {c} : conn'[d] = conn[d]
    BY <1>1, <1>2
  <2>2. /\ c \in Requests => pc[c] \in DbPoints
        /\ c \in Readers => read[c] \in ReadActive
    BY <1>1, ReadersAssumption DEF NeedsConnection, ReadActive
  <2> QED
    BY <1>1, <2>1, <2>2 DEF PoolInv, NoConnectionIsLost, Clients
<1>5. \A r \in Requests : tx'[r] # NoTx => conn'[r] = "held"
  BY <1>1, <1>2 DEF PoolInv, CheckOut, Wait, Clients
<1>6. IsFiniteSet(Holders)' /\ (Cardinality(Holders) <= PoolLimit)'
  <2>1. CASE Wait(c)
    <3>1. \A d \in Clients : conn'[d] = "held" => conn[d] = "held"
      BY <1>1, <2>1 DEF Wait
    <3> QED
      BY <3>1, HoldersShrink
  <2>2. CASE CheckOut(c)
    <3>1. Holders' = Holders \cup {c} /\ c \notin Holders
      BY <1>1, <2>2 DEF Holders, CheckOut
    <3>2. IsFiniteSet(Holders') /\ Cardinality(Holders') = Cardinality(Holders) + 1
      BY <3>1, FS_AddElement DEF PoolInv
    <3>3. Cardinality(Holders) \in Nat /\ Cardinality(Holders) < PoolLimit
      BY <2>2, FS_CardinalityType DEF PoolInv, CheckOut, PoolHasRoom
    <3> QED
      BY <3>2, <3>3, PoolLimitAssumption
  <2> QED
    BY <2>1, <2>2
<1> QED
  BY <1>3, <1>4, <1>5, <1>6 DEF PoolInv

LEMMA ReadStep ==
  ASSUME PoolInv, NEW c \in Readers,
         \/ ReadReceived(c) \/ PlayerSelected(c) \/ PlayerUnknown(c)
         \/ RestSelected(c) \/ Replied(c) \/ ReadFails(c) \/ PoolTimeout(c)
  PROVE  PoolInv'
<1>1. /\ conn \in [Clients -> {"none", "waiting", "held"}]
      /\ read \in [Readers -> {"idle"} \cup ReadActive \cup ReadEnded]
      /\ c \in Clients /\ c \notin Requests /\ Requests \subseteq Clients
  BY ReadersAssumption DEF PoolInv, PoolTypeOK, Clients
<1>2. PICK point \in ReadActive \cup ReadEnded :
        /\ read' = [read EXCEPT ![c] = point] /\ UNCHANGED <<pc, tx>>
        /\ \/ conn' = [conn EXCEPT ![c] = "none"]
           \/ conn' = conn /\ point \in ReadActive
  BY DEF ReadReceived, PlayerSelected, PlayerUnknown, RestSelected, Replied, ReadFails,
         PoolTimeout, ReadTo, GivenBack, vars, ReadActive, Selects, ReadEnded
<1>3. PoolTypeOK'
  BY <1>1, <1>2 DEF PoolTypeOK
<1>4. /\ \A d \in Clients : conn'[d] = "held" => conn[d] = "held"
      /\ \A r \in Requests : conn'[r] = conn[r]
  BY <1>1, <1>2
<1>5. IsFiniteSet(Holders)' /\ (Cardinality(Holders) <= PoolLimit)'
  BY <1>4, HoldersShrink
<1>6. NoConnectionIsLost'
  BY <1>1, <1>2, <1>4 DEF PoolInv, NoConnectionIsLost, Clients
<1> QED
  BY <1>2, <1>3, <1>4, <1>5, <1>6 DEF PoolInv

LEMMA RestartPoolStep ==
  ASSUME IInv, PoolInv, ServiceRestart
  PROVE  PoolInv'
<1>1. \A c \in Clients : conn'[c] = "none"
  BY DEF ServiceRestart
<1>2. PoolTypeOK'
  BY DEF PoolInv, PoolTypeOK, ServiceRestart, ReadEnded
<1>3. NoConnectionIsLost'
  BY <1>1 DEF NoConnectionIsLost, Clients
<1>4. IsFiniteSet(Holders)' /\ (Cardinality(Holders) <= PoolLimit)'
  BY <1>1, HoldersShrink
<1>5. \A r \in Requests : tx'[r] = NoTx
  <2>1. CASE Restart
    BY <2>1 DEF Restart
  <2>2. CASE (\A r \in Requests : pc[r] \notin Active) /\ UNCHANGED vars
    <3>1. \A r \in Requests : pc[r] # "persist"
      BY <2>2 DEF Active, DbPoints
    <3> QED
      BY <2>2, <3>1 DEF IInv, TxInv, vars
  <2> QED
    BY <2>1, <2>2 DEF ServiceRestart
<1> QED
  BY <1>2, <1>3, <1>4, <1>5 DEF PoolInv

LEMMA NextPoolInv == IInv /\ PoolInv /\ [PoolNext]_service => PoolInv'
<1> SUFFICES ASSUME IInv, PoolInv, [PoolNext]_service PROVE PoolInv'
  OBVIOUS
<1>1. CASE AllAnswered \/ UNCHANGED service
  BY <1>1 DEF AllAnswered, service, PoolInv, PoolTypeOK, Holders, NoConnectionIsLost
<1>2. Requests \subseteq Clients /\ Readers \subseteq Clients
  BY DEF Clients
<1> QED
  BY <1>1, <1>2, AskRiotStep, StatementPoolStep, ReceivedPoolStep, CheckOutStep, ReadStep,
     RestartPoolStep DEF PoolNext, RefreshProceeds, ReadProceeds

----------------------------------------------------------------------------
(* Theorems *)

THEOREM PoolInvariance == PoolSpec => []PoolInv
<1>1. PoolSpec => []IInv
  BY RefreshesAreKept, Invariance, PTL
<1> QED
  BY <1>1, InitPoolInv, NextPoolInv, PTL DEF PoolSpec

(* Every connection and every read is at a point it knows. *)
THEOREM PoolTypeCorrect == PoolSpec => []PoolTypeOK
<1>1. PoolInv => PoolTypeOK
  BY DEF PoolInv
<1> QED
  BY <1>1, PoolInvariance, PTL

(* No connection outlives the request that took it. *)
THEOREM ConnectionsAreReturned == PoolSpec => []NoConnectionIsLost
<1>1. PoolInv => NoConnectionIsLost
  BY DEF PoolInv
<1> QED
  BY <1>1, PoolInvariance, PTL

(* Without a transaction there is no lock. *)
LEMMA NoLockWithoutTransaction ==
  ASSUME NEW r \in Requests, tx[r] = NoTx
  PROVE  RowsHeld(r) = {}
<1>1. \A s : ~HasDone(r, s)
  BY DEF HasDone, NoTx
<1>2. WrittenMatches(r) = {} /\ RankedRows(task[r].player, tx[r].deleted) = {}
  BY DEF WrittenMatches, RankedRows, NoTx
<1> QED
  BY <1>1, <1>2 DEF RowsHeld

(* Whatever the limit, no holder of a row lock ever waits for the pool.    *)
THEOREM LocksKeepConnections == PoolSpec => []LocksHaveConnections
<1>1. PoolInv => LocksHaveConnections
  BY NoLockWithoutTransaction DEF PoolInv, LocksHaveConnections
<1> QED
  BY <1>1, PoolInvariance, PTL
=============================================================================
