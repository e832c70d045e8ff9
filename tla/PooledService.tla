---------------------------- MODULE PooledService ----------------------------
(***************************************************************************)
(* app/db/session.py: refreshes and reads share the connections of one     *)
(* engine.  A session takes a connection from the pool with the first      *)
(* statement of a transaction and gives it back when the transaction ends, *)
(* so a refresh holds one from its plan through all its match requests to  *)
(* Riot, gives it back at the rollback of _reset_session_transaction, and  *)
(* needs one again to persist.  Who finds the pool empty waits, holding    *)
(* none, and may give up; a connection that comes back goes to whoever is  *)
(* first to ask, waiting or not.                                           *)
(*                                                                         *)
(* The refreshes are those of PlayerRefresh, step by step.  Of a read only *)
(* what concerns the pool is here, its answers are the business of         *)
(* PlayerRead.                                                             *)
(***************************************************************************)
EXTENDS PlayerRefresh

CONSTANTS
  Readers,    \* the requests the read endpoints receive
  PoolLimit   \* pool_size + max_overflow of the engine

ASSUME ReadersAssumption == Readers \cap Requests = {}
ASSUME PoolLimitAssumption == PoolLimit \in Nat \ {0}

VARIABLES
  conn,   \* what each request has of the pool
  read    \* where each read's coroutine is

service == <<players, ranked, matches, links, pc, task, tx, answer, conn, read>>

Clients == Requests \cup Readers

Selects == {"first", "second"}
ReadActive == Selects \cup {"replying"}
ReadEnded == {"answered", "failed", "timed_out", "dropped"}

PoolTypeOK ==
  /\ conn \in [Clients -> {"none", "waiting", "held"}]
  /\ read \in [Readers -> {"idle"} \cup ReadActive \cup ReadEnded]

PoolInit ==
  /\ Init
  /\ conn = [c \in Clients |-> "none"]
  /\ read = [c \in Readers |-> "idle"]

----------------------------------------------------------------------------
(* The pool *)

Holders == {c \in Clients : conn[c] = "held"}

PoolHasRoom == Cardinality(Holders) < PoolLimit

(* c is about to execute a statement. *)
NeedsConnection(c) ==
  \/ c \in Requests /\ pc[c] \in DbPoints
  \/ c \in Readers /\ read[c] \in Selects

CheckOut(c) ==
  /\ NeedsConnection(c)
  /\ conn[c] # "held"
  /\ PoolHasRoom
  /\ conn' = [conn EXCEPT ![c] = "held"]
  /\ UNCHANGED <<vars, read>>

Wait(c) ==
  /\ NeedsConnection(c)
  /\ conn[c] = "none"
  /\ ~PoolHasRoom
  /\ conn' = [conn EXCEPT ![c] = "waiting"]
  /\ UNCHANGED <<vars, read>>

----------------------------------------------------------------------------
(* Refreshes *)

(* Faults: a request that ends in an error keeps its connection, and a     *)
(* connection goes back after every statement.                             *)
GivesBack_OnSuccess(r) ==
  \/ pc'[r] \in Ended /\ answer'[r] = "ok"
  \/ pc'[r] = "persist" /\ pc[r] # "persist"

GivesBack_EachStatement(r) ==
  pc'[r] \in Ended \/ pc'[r] = "persist"

(* The transaction ends with the request, or with the rollback that comes  *)
(* before the persisting transaction.                                      *)
GivesBack(r) ==
  \/ pc'[r] \in Ended
  \/ pc'[r] = "persist" /\ pc[r] # "persist"

(* What a step of r does to its hold on the pool. *)
Pooled(r) ==
  /\ conn' = IF GivesBack(r) THEN [conn EXCEPT ![r] = "none"] ELSE conn
  /\ UNCHANGED read

RefreshReceived(r) == Receive(r) /\ Pooled(r)

AskRiot(r) == CallRiot(r) /\ Pooled(r)

Statement(r) ==
  /\ conn[r] = "held"
  /\ Plan(r) \/ Persist(r)
  /\ Pooled(r)

CommitLost(r) ==
  /\ conn[r] = "held"
  /\ CommitUnconfirmed(r)
  /\ Pooled(r)

(* No connection can be made, the wait for one times out, or a statement   *)
(* or the COMMIT fails: the refresh ends with HTTP 500 in each case.       *)
RefreshFails(r) == DatabaseFails(r) /\ Pooled(r)

----------------------------------------------------------------------------
(* Reads *)

ReadTo(c, point) == read' = [read EXCEPT ![c] = point]

GivenBack(c) == conn' = [conn EXCEPT ![c] = "none"]

ReadReceived(c) ==
  /\ read[c] = "idle"
  /\ ReadTo(c, "first")
  /\ UNCHANGED <<vars, conn>>

(* The player is selected, and what belongs to it comes next unless the    *)
(* search asked.                                                           *)
PlayerSelected(c) ==
  /\ read[c] = "first"
  /\ conn[c] = "held"
  /\ \E point \in {"second", "replying"} : ReadTo(c, point)
  /\ UNCHANGED <<vars, conn>>

(* Fault: the session of a read that found nothing is left open. *)
PlayerUnknown_Open(c) ==
  /\ read[c] = "first"
  /\ conn[c] = "held"
  /\ ReadTo(c, "answered")
  /\ UNCHANGED <<vars, conn>>

(* There is none: the HTTPException closes the session on its way.         *)
PlayerUnknown(c) ==
  /\ read[c] = "first"
  /\ conn[c] = "held"
  /\ ReadTo(c, "answered")
  /\ GivenBack(c)
  /\ UNCHANGED vars

RestSelected(c) ==
  /\ read[c] = "second"
  /\ conn[c] = "held"
  /\ ReadTo(c, "replying")
  /\ UNCHANGED <<vars, conn>>

(* get_session closes the session when the response has been sent. *)
Replied(c) ==
  /\ read[c] = "replying"
  /\ ReadTo(c, "answered")
  /\ GivenBack(c)
  /\ UNCHANGED vars

ReadFails(c) ==
  /\ read[c] \in Selects
  /\ ReadTo(c, "failed")
  /\ GivenBack(c)
  /\ UNCHANGED vars

(* The pool's TimeoutError: HTTP 500. *)
PoolTimeout(c) ==
  /\ read[c] \in Selects
  /\ conn[c] = "waiting"
  /\ ReadTo(c, "timed_out")
  /\ GivenBack(c)
  /\ UNCHANGED vars

----------------------------------------------------------------------------
(* The process dies with all its requests. *)
ServiceRestart ==
  /\ \/ Restart
     \/ /\ \A r \in Requests : pc[r] \notin Active
        /\ \E c \in Readers : read[c] \in ReadActive
        /\ UNCHANGED vars
  /\ conn' = [c \in Clients |-> "none"]
  /\ read' = [c \in Readers |-> IF read[c] \in ReadActive THEN "dropped" ELSE read[c]]

(* What a request does by itself while it waits for nobody but the pool    *)
(* and the database.                                                       *)
RefreshProceeds(r) == CheckOut(r) \/ Statement(r)

ReadProceeds(c) ==
  CheckOut(c) \/ PlayerSelected(c) \/ PlayerUnknown(c) \/ RestSelected(c) \/ Replied(c)

AllAnswered ==
  /\ \A r \in Requests : pc[r] \in Ended
  /\ \A c \in Readers : read[c] \in ReadEnded
  /\ UNCHANGED service

PoolNext ==
  \/ \E r \in Requests :
       \/ RefreshReceived(r) \/ AskRiot(r) \/ RefreshProceeds(r)
       \/ Wait(r) \/ CommitLost(r) \/ RefreshFails(r)
  \/ \E c \in Readers :
       \/ ReadReceived(c) \/ ReadProceeds(c)
       \/ Wait(c) \/ PoolTimeout(c) \/ ReadFails(c)
  \/ ServiceRestart
  \/ AllAnswered

PoolSpec == PoolInit /\ [][PoolNext]_service

(* The event loop and PostgreSQL run what is ready; Riot may never answer. *)
LocalFairSpec ==
  /\ PoolSpec
  /\ \A r \in Requests : WF_service(RefreshProceeds(r))
  /\ \A c \in Readers : WF_service(ReadProceeds(c))

(* Every call to Riot ends (httpx timeouts, a bounded number of attempts). *)
RiotAnswers == \A r \in Requests : WF_service(AskRiot(r))

----------------------------------------------------------------------------
(* Row locks and connections are never waited for in a circle: who holds a *)
(* row lock has the connection its next statement needs, and who waits for *)
(* a connection holds neither.                                             *)
LocksHaveConnections ==
  /\ Cardinality(Holders) <= PoolLimit
  /\ \A r \in Requests : RowsHeld(r) # {} => conn[r] = "held"

(* No connection is lost: whoever has one, or a place among those who      *)
(* wait, is at a point of its coroutine where a transaction is open or a   *)
(* statement is due.                                                       *)
NoConnectionIsLost ==
  /\ \A r \in Requests : conn[r] # "none" => pc[r] \in DbPoints \cup {"match"}
  /\ \A c \in Readers : conn[c] # "none" => read[c] \in ReadActive

(* As long as Riot's calls end, every request is answered or dies with the *)
(* process: no connection is lost, and nobody waits for one for ever.      *)
EveryRequestIsAnswered ==
  RiotAnswers =>
    /\ \A r \in Requests : pc[r] \in Active ~> pc[r] \in Ended
    /\ \A c \in Readers : read[c] \in ReadActive ~> read[c] \in ReadEnded

(* Every connection is held by a refresh that awaits a match from Riot. *)
AllAwaitRiot ==
  ~PoolHasRoom /\ \A c \in Holders : c \in Requests /\ pc[c] = "match"

(* Whatever Riot does, a read can be kept waiting by one thing alone: all  *)
(* the connections in the hands of refreshes that await a match.           *)
ReadsWaitForRiotAlone ==
  \A c \in Readers : []<>(read[c] \notin ReadActive) \/ <>[]AllAwaitRiot

(* README.md:38 says of the read endpoints that, because they serve a      *)
(* snapshot of the local database and do not call Riot, problems of the    *)
(* external API do not break user requests; a read fails when the          *)
(* refreshes that await Riot hold every connection.                        *)
ReadsSurviveRiotTrouble ==
  [][\A c \in Readers :
       read[c] # "timed_out" /\ read'[c] = "timed_out" => ~AllAwaitRiot]_service
=============================================================================
