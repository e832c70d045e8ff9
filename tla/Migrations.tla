----------------------------- MODULE Migrations -----------------------------
(***************************************************************************)
(* The database schema: the five Alembic revisions of src/alembic/versions *)
(* with their upgrades and downgrades, the transaction src/alembic/env.py  *)
(* runs them in, and the container that migrates before it serves          *)
(* (src/docker-compose.yml:34).  What the revisions leave is compared with *)
(* the schema the ORM models of src/app/models expect, and the KDA they    *)
(* write into old rows with the one the service writes into new ones.      *)
(*                                                                         *)
(* A schema is a set of elements <<table, name, kind>>.  Column types and  *)
(* server defaults are left out, and so are primary keys and the columns   *)
(* of an index or a key, which have names only.  Nullability is kept,      *)
(* because revision 0005 changes it.  Of the data, only player_matches is. *)
(***************************************************************************)
EXTENDS Integers, Sequences, FiniteSets

CONSTANTS Links,        \* rows player_matches may have
          Scores,       \* [points, deaths]; points stands for kills + assists
          ServiceUnits, \* [Scores -> Nat]: what the service, and
          RevisionUnits,\* the revision, divide a hundredth into
          MaxFaults     \* bound on the crashes and lost connections

MaxKda == 999999        \* what numeric(6, 2) holds, in hundredths
MaxPoints == 9999       \* more than a game has

\* A quotient is carried to some decimal before it is rounded to hundredths: the
\* service's to 28 significant digits, the revision's to 16 at least.  So a
\* hundredth is divided into a power of ten of units, an even number, and into
\* more than a game has deaths.
ASSUME MigrationsAssumption ==
    /\ Scores \subseteq [points : 0..MaxPoints, deaths : Nat]
    /\ \A units \in {ServiceUnits, RevisionUnits} :
         /\ units \in [Scores -> Nat \ {0}]
         /\ \A s \in Scores : units[s] % 2 = 0 /\ units[s] > s.deaths
    /\ MaxFaults \in Nat

VARIABLES db,           \* what is committed
          work,         \* the running migration's transaction
          api,          \* the api container
          faults        \* number of faults so far

vars == <<db, work, api, faults>>

Null == -1              \* SQL's NULL in the kda column
Idle == [running |-> FALSE]
AtLeastOne(n) == IF n = 0 THEN 1 ELSE n

------------------------------------------------------------------------------
\* The KDA, in hundredths.

HalfUp(n, d) == (2 * n + d) \div (2 * d)
HalfEven(n, d) == LET low == n \div d
                      rest == 2 * (n % d)
                  IN  IF rest > d \/ (rest = d /\ low % 2 = 1) THEN low + 1 ELSE low

\* The service divides Decimals, whose context rounds half to even, and
\* quantizes to two places with ROUND_HALF_UP.
ServiceKda(s) ==
    HalfUp(HalfEven(100 * s.points * ServiceUnits[s], AtLeastOne(s.deaths)), ServiceUnits[s])

\* A mutant of BackfilledKda: with ROUND of a float8, which rounds half to even.
BackfilledKda_Float(s) ==
    HalfEven(HalfUp(100 * s.points * RevisionUnits[s], AtLeastOne(s.deaths)), RevisionUnits[s])

\* Revision 0005 divides numerics, which round half away from zero, and then
\* uses ROUND(_, 2), which does too.
BackfilledKda(s) ==
    HalfUp(HalfUp(100 * s.points * RevisionUnits[s], AtLeastOne(s.deaths)), RevisionUnits[s])

WithKda(rows, kda) ==
    [l \in DOMAIN rows |-> [score |-> rows[l].score, kda |-> kda[rows[l].score]]]

------------------------------------------------------------------------------
\* Schema elements and the statements that change them.

Required(t, names) == {<<t, n, "not null">> : n \in names}
Optional(t, names) == {<<t, n, "null">> : n \in names}
Indexed(t, names) == {<<t, n, "index">> : n \in names}
Unique(t, name) == <<t, name, "unique">>
References(t, parents) == {<<t, p, "foreign key">> : p \in parents}

OfTable(t, schema) == {e \in schema : e[1] = t}
HasTable(t, schema) == OfTable(t, schema) # {}
Column(name, schema) == {e \in schema : e[2] = name /\ e[3] \in {"null", "not null"}}

CreateTable(t, elements) == [op |-> "create table", on |-> t, what |-> elements]
CreateIndexes(t, names) == [op |-> "create", on |-> t, what |-> Indexed(t, names)]
AddColumn(t, name) == [op |-> "create", on |-> t, what |-> Optional(t, {name})]
DropIndexes(t, names) == [op |-> "drop", on |-> t, what |-> Indexed(t, names)]
DropTable(t) == [op |-> "drop table", on |-> t, what |-> {}]
DropColumn(t, name) == [op |-> "drop", on |-> t, what |-> Required(t, {name})]
SetNotNull(t, name) == [op |-> "set not null", on |-> t, what |-> Required(t, {name})]
FillKda == [op |-> "fill kda", on |-> "player_matches", what |-> {}]

\* What PostgreSQL demands of a statement.
CanRun(s, d) ==
    CASE s.op = "create table" ->
           /\ ~HasTable(s.on, d.schema)
           /\ \A e \in s.what : e[3] = "foreign key" => HasTable(e[2], d.schema)
      [] s.op = "create" -> HasTable(s.on, d.schema) /\ s.what \cap d.schema = {}
      [] s.op = "drop" -> s.what \subseteq d.schema
      [] s.op = "drop table" ->
           /\ HasTable(s.on, d.schema)
           /\ \A e \in d.schema \ OfTable(s.on, d.schema) :
                  ~(e[2] = s.on /\ e[3] = "foreign key")
      [] s.op = "fill kda" ->
           /\ Column("kda", d.schema) # {}
           /\ \A l \in DOMAIN d.rows : BackfilledKda(d.rows[l].score) <= MaxKda
      [] s.op = "set not null" ->
           /\ Column("kda", d.schema) # {}
           /\ \A l \in DOMAIN d.rows : d.rows[l].kda # Null

\* The database after statement s.
After(s, d) ==
    CASE s.op \in {"create table", "create"} -> [d EXCEPT !.schema = @ \cup s.what]
      [] s.op = "drop" ->
           [d EXCEPT !.schema = @ \ s.what,
                     !.rows = IF s = DropColumn("player_matches", "kda")
                              THEN WithKda(@, [score \in Scores |-> Null]) ELSE @]
      [] s.op = "drop table" ->
           [d EXCEPT !.schema = @ \ OfTable(s.on, @),
                     !.rows = IF s.on = "player_matches" THEN <<>> ELSE @]
      [] s.op = "fill kda" ->
           [d EXCEPT !.rows = WithKda(@, [score \in Scores |-> BackfilledKda(score)])]
      [] s.op = "set not null" ->
           [d EXCEPT !.schema = (@ \ Column("kda", @)) \cup s.what]

------------------------------------------------------------------------------
\* The revisions.  Indexes created or dropped one after the other are one
\* statement here: no other statement comes between them.

CreatePlayers == <<
    CreateTable("players",
        Required("players", {"puuid", "game_name", "tag_line", "platform",
                             "created_at", "updated_at"})
        \cup Optional("players", {"profile_icon_id", "summoner_level", "last_refreshed_at",
                                  "refresh_status", "refresh_error"})),
    CreateIndexes("players", {"ix_players_riot_id_platform"}) >>
DropPlayers == << DropIndexes("players", {"ix_players_riot_id_platform"}),
                  DropTable("players") >>

CreateMatches == <<
    CreateTable("matches",
        Required("matches", {"match_id", "platform", "queue_id", "game_start",
                             "duration_seconds", "raw_json", "created_at"})
        \cup Optional("matches", {"patch"})),
    CreateIndexes("matches", {"ix_matches_queue_id_game_start"}) >>
DropMatches == << DropIndexes("matches", {"ix_matches_queue_id_game_start"}),
                  DropTable("matches") >>

CreateRankedEntries == <<
    CreateTable("ranked_entries",
        Required("ranked_entries", {"id", "player_puuid", "queue_type", "league_points",
                                    "wins", "losses", "created_at", "updated_at"})
        \cup Optional("ranked_entries", {"tier", "rank"})
        \cup References("ranked_entries", {"players"})
        \cup {Unique("ranked_entries", "uq_ranked_entries_player_queue")}) >>
DropRankedEntries == << DropTable("ranked_entries") >>

LinkIndexes == {"ix_player_matches_match_id", "ix_player_matches_player_champion",
                "ix_player_matches_player_puuid"}
CreatePlayerMatches == <<
    CreateTable("player_matches",
        Required("player_matches",
            {"id", "player_puuid", "match_id", "champion_id", "champion_name", "win",
             "kills", "deaths", "assists", "gold_earned", "total_minions_killed",
             "neutral_minions_killed", "vision_score", "total_damage_dealt_to_champions",
             "summoner_spell_1_id", "summoner_spell_2_id", "item0", "item1", "item2",
             "item3", "item4", "item5", "item6", "created_at"})
        \cup Optional("player_matches", {"team_position"})
        \cup References("player_matches", {"matches", "players"})
        \cup {Unique("player_matches", "uq_player_matches_player_match")}),
    CreateIndexes("player_matches", LinkIndexes) >>
DropPlayerMatches == << DropIndexes("player_matches", LinkIndexes),
                        DropTable("player_matches") >>

\* A mutant of AddKda: the column is required before it is filled.
AddKda_RequiredFirst == << AddColumn("player_matches", "kda"),
                           SetNotNull("player_matches", "kda"), FillKda >>
AddKda == << AddColumn("player_matches", "kda"), FillKda,
             SetNotNull("player_matches", "kda") >>
DropKda == << DropColumn("player_matches", "kda") >>

Upgrade == << CreatePlayers, CreateMatches, CreateRankedEntries, CreatePlayerMatches, AddKda >>
Downgrade == << DropPlayers, DropMatches, DropRankedEntries, DropPlayerMatches, DropKda >>
Latest == Len(Upgrade)
Versions == 0..Latest

\* What the ORM models declare.
PlayerModel ==
    Required("players", {"puuid", "game_name", "tag_line", "platform", "created_at",
                         "updated_at"})
    \cup Optional("players", {"profile_icon_id", "summoner_level", "last_refreshed_at",
                              "refresh_status", "refresh_error"})
    \cup Indexed("players", {"ix_players_riot_id_platform"})
MatchModel ==
    Required("matches", {"match_id", "platform", "queue_id", "game_start",
                         "duration_seconds", "raw_json", "created_at"})
    \cup Optional("matches", {"patch"})
    \cup Indexed("matches", {"ix_matches_queue_id_game_start"})
RankedEntryModel ==
    Required("ranked_entries", {"id", "player_puuid", "queue_type", "league_points",
                                "wins", "losses", "created_at", "updated_at"})
    \cup Optional("ranked_entries", {"tier", "rank"})
    \cup References("ranked_entries", {"players"})
    \cup {Unique("ranked_entries", "uq_ranked_entries_player_queue")}
PlayerMatchModel ==
    Required("player_matches",
        {"id", "player_puuid", "match_id", "champion_id", "champion_name", "win", "kills",
         "deaths", "assists", "kda", "gold_earned", "total_minions_killed",
         "neutral_minions_killed", "vision_score", "total_damage_dealt_to_champions",
         "summoner_spell_1_id", "summoner_spell_2_id", "item0", "item1", "item2", "item3",
         "item4", "item5", "item6", "created_at"})
    \cup Optional("player_matches", {"team_position"})
    \cup Indexed("player_matches", LinkIndexes)
    \cup References("player_matches", {"matches", "players"})
    \cup {Unique("player_matches", "uq_player_matches_player_match")}
ModelSchema == PlayerModel \cup MatchModel \cup RankedEntryModel \cup PlayerMatchModel

\* What the upgrades up to v say of themselves: the elements created, of which
\* the kda column ends NOT NULL.
SchemaAt(v) ==
    LET made == UNION {UNION {Upgrade[i][k].what : k \in DOMAIN Upgrade[i]} : i \in 1..v}
    IN  {e \in made : e # <<"player_matches", "kda", "null">>}

------------------------------------------------------------------------------
\* What an earlier release left: the kda of version 5 is the service's.
Rows(v) == UNION {[D -> {[score |-> s, kda |-> IF v = Latest THEN ServiceKda(s) ELSE Null] :
                            s \in Scores}] : D \in IF v < 4 THEN {{}} ELSE SUBSET Links}
Databases == UNION {[version : {v}, schema : {SchemaAt(v)}, rows : Rows(v)] : v \in Versions}

Init ==
    /\ db \in Databases
    /\ work = Idle
    /\ api = "down"
    /\ faults = 0

\* alembic upgrade and alembic downgrade read the stored version first.
Start(target) ==
    work' = [running |-> TRUE, target |-> target, done |-> 0, data |-> db]

\* docker compose up: sh -c "alembic upgrade head && uvicorn ...".
StartContainer ==
    /\ api \in {"down", "failed"} /\ ~work.running
    /\ api' = "migrating"
    /\ Start(Latest)
    /\ UNCHANGED <<db, faults>>

\* An operator goes back to an earlier revision while the service is stopped.
\* That it is stopped is the operator's discipline: nothing in the repository
\* keeps a downgrade from running beside a serving container.
OperatorDowngrades ==
    /\ api = "down" /\ ~work.running
    /\ \E v \in 0..(db.version - 1) : Start(v)
    /\ UNCHANGED <<db, api, faults>>

GoesUp == work.data.version < work.target
Script == IF GoesUp THEN Upgrade[work.data.version + 1] ELSE Downgrade[work.data.version]
Migrating == work.running /\ work.data.version # work.target
NextStatement == Script[work.done + 1]

\* One statement of the revision.  After the last, Alembic stores the version.
Statement ==
    /\ Migrating /\ CanRun(NextStatement, work.data)
    /\ LET d == After(NextStatement, work.data)
       IN  work' = IF work.done + 1 < Len(Script)
                   THEN [work EXCEPT !.data = d, !.done = @ + 1]
                   ELSE [work EXCEPT !.data = [d EXCEPT !.version = IF GoesUp THEN @ + 1 ELSE @ - 1],
                                     !.done = 0]
    /\ UNCHANGED <<db, api, faults>>

\* Leaving context.begin_transaction() commits all revisions together; the
\* shell then starts uvicorn.
Commit ==
    /\ work.running /\ ~Migrating
    /\ db' = work.data
    /\ work' = Idle
    /\ api' = IF api = "migrating" THEN "serving" ELSE api
    /\ UNCHANGED faults

\* A mutant of RolledBack: every statement commits by itself.
RolledBack_Autocommit ==
    db' = (IF work.running THEN work.data ELSE db) /\ work' = Idle

\* The transaction of a migration that ends early is rolled back.
RolledBack == db' = db /\ work' = Idle

\* The statement the migration is at is one that PostgreSQL rejects.
Rejected == Migrating /\ ~CanRun(NextStatement, work.data)

\* A mutant of MigrationFails: the shell goes on (";" for "&&").
MigrationFails_ServesAnyway ==
    /\ work.running /\ (~Rejected => faults < MaxFaults)
    /\ faults' = IF Rejected THEN faults ELSE faults + 1
    /\ RolledBack
    /\ api' = IF api = "migrating" THEN "serving" ELSE api

\* The migration's statement is rejected, or its connection is lost: alembic
\* exits with an error, and the shell does not start uvicorn.
MigrationFails ==
    /\ work.running /\ (~Rejected => faults < MaxFaults)
    /\ faults' = IF Rejected THEN faults ELSE faults + 1
    /\ RolledBack
    /\ api' = IF api = "migrating" THEN "failed" ELSE api

\* The connection is lost after PostgreSQL has committed.
CommitUnconfirmed ==
    /\ work.running /\ ~Migrating /\ faults < MaxFaults
    /\ faults' = faults + 1
    /\ db' = work.data
    /\ work' = Idle
    /\ api' = IF api = "migrating" THEN "failed" ELSE api

\* The machine or the container goes down, or the operator's command does.
Crash ==
    /\ work.running \/ api = "serving"
    /\ faults < MaxFaults
    /\ faults' = faults + 1
    /\ RolledBack
    /\ api' = "down"

\* docker compose stop.
StopContainer ==
    /\ api = "serving"
    /\ api' = "down"
    /\ UNCHANGED <<db, work, faults>>

\* The serving container stores a match of a player
\* (build_player_match_record); an upsert of a stored one rewrites its row.
StoreRow(l, s) ==
    /\ api = "serving"
    /\ db' = [db EXCEPT !.rows =
           [k \in DOMAIN @ \cup {l} |-> IF k = l THEN [score |-> s, kda |-> ServiceKda(s)]
                                        ELSE @[k]]]
    /\ UNCHANGED <<work, api, faults>>

Next ==
    \/ StartContainer \/ OperatorDowngrades
    \/ Statement \/ Commit \/ MigrationFails \/ CommitUnconfirmed
    \/ Crash \/ StopContainer
    \/ \E l \in Links, s \in Scores : StoreRow(l, s)

Spec == Init /\ [][Next]_vars

------------------------------------------------------------------------------
\* Properties.

\* No statement of a revision is ever rejected, whatever version the database
\* is at, whatever rows it holds and wherever an earlier run was cut off: the
\* scripts create before they refer, fill before they require, and undo in the
\* reverse order.
NoStatementFails == ~Rejected

\* The stored version tells the truth: the schema is the one this version's
\* upgrades make, only a database that has player_matches has rows, and only at
\* the head have rows a KDA.  Downgrades undo exactly what upgrades did, and an
\* interrupted migration leaves nothing behind (env.py:41).
VersionTellsSchema ==
    /\ db.schema = SchemaAt(db.version)
    /\ DOMAIN db.rows # {} => db.version >= 4
    /\ \A l \in DOMAIN db.rows : (db.rows[l].kda # Null) <=> (db.version = Latest)

\* While the service serves, the tables have the columns its models declare, with
\* their nullability, the foreign and unique keys and the indexes, and nothing
\* else of these (docker-compose.yml:35).
ServesItsModels == api = "serving" => db.schema = ModelSchema

\* Every stored KDA is the one the service would compute, also when a revision
\* filled it in and although the two divide and round differently.
KdaIsTheServices ==
    db.version = Latest => \A l \in DOMAIN db.rows :
        db.rows[l].kda = ServiceKda(db.rows[l].score)

============================================================================
