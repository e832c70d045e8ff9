-------------------------- MODULE MigrationsProofs --------------------------
(***************************************************************************)
(* Theorems about Migrations for any rows, scores, crashes and downgrades, *)
(* with proofs checked by TLAPS.                                           *)
(***************************************************************************)
EXTENDS Migrations, TLAPS

------------------------------------------------------------------------------
\* The KDA

\* Division, as the multiples it lies between.
LEMMA Division ==
    ASSUME NEW n \in Nat, NEW d \in Nat \ {0}
    PROVE  /\ n \div d \in Nat /\ n % d \in 0 .. d - 1
           /\ n = d * (n \div d) + (n % d)
OBVIOUS

LEMMA QuotientIs ==
    ASSUME NEW n \in Nat, NEW d \in Nat \ {0}, NEW k \in Nat, d * k <= n, n < d * k + d
    PROVE  n \div d = k
OBVIOUS

\* Both roundings yield a nearest integer of n / d.
Nearest(q, n, d) == 2 * n - d <= 2 * (d * q) /\ 2 * (d * q) <= 2 * n + d

LEMMA HalfUpIsNearest ==
    ASSUME NEW n \in Nat, NEW d \in Nat \ {0}
    PROVE  HalfUp(n, d) \in Nat /\ Nearest(HalfUp(n, d), n, d)
<1> DEFINE q == (2 * n + d) \div (2 * d)
<1>1. /\ q \in Nat /\ (2 * n + d) % (2 * d) \in 0 .. 2 * d - 1
      /\ 2 * n + d = (2 * d) * q + ((2 * n + d) % (2 * d))
  <2>1. 2 * n + d \in Nat /\ 2 * d \in Nat \ {0}
    OBVIOUS
  <2> QED
    BY <2>1, Division
<1> HIDE DEF q
<1>2. d * q \in Nat /\ (2 * d) * q = 2 * (d * q)
  BY <1>1
<1>3. 2 * n - d <= 2 * (d * q) /\ 2 * (d * q) <= 2 * n + d
  BY <1>1, <1>2
<1> QED
  BY <1>1, <1>3 DEF q, HalfUp, Nearest

LEMMA HalfEvenIsNearest ==
    ASSUME NEW n \in Nat, NEW d \in Nat \ {0}
    PROVE  HalfEven(n, d) \in Nat /\ Nearest(HalfEven(n, d), n, d)
<1> DEFINE low == n \div d
           rest == n % d
<1>1. low \in Nat /\ rest \in 0 .. d - 1 /\ n = d * low + rest
  BY Division
<1>2. HalfEven(n, d) = IF 2 * rest > d \/ (2 * rest = d /\ low % 2 = 1) THEN low + 1 ELSE low
  BY DEF HalfEven
<1> HIDE DEF low, rest
<1>3. d * low \in Nat /\ d * (low + 1) = d * low + d
  BY <1>1
<1>4. CASE 2 * rest >= d /\ HalfEven(n, d) = low + 1
  BY <1>1, <1>3, <1>4 DEF Nearest
<1>5. CASE 2 * rest <= d /\ HalfEven(n, d) = low
  BY <1>1, <1>3, <1>5 DEF Nearest
<1> QED
  BY <1>1, <1>2, <1>4, <1>5

LEMMA Scaled ==
    ASSUME NEW a \in Int, NEW b \in Int, NEW c \in Nat \ {0}
    PROVE  a * c <= b * c <=> a <= b
OBVIOUS

\* Rounding to a fine grid first does not change what rounding to the coarse
\* one gives: n / d is a half of a unit or at least 1 / 2d away from it.
LEMMA RoundedTwice ==
    ASSUME NEW n \in Nat, NEW d \in Nat \ {0}, NEW units \in Nat \ {0},
           units % 2 = 0, units > d, NEW q \in Nat, Nearest(q, n * units, d)
    PROVE  HalfUp(q, units) = HalfUp(n, d)
<1> DEFINE k == HalfUp(n, d)
<1>1. k \in Nat /\ 2 * (d * k) <= 2 * n + d /\ 2 * n + d + 1 <= 2 * (d * k) + 2 * d
  <2>1. 2 * n + d \in Nat /\ 2 * d \in Nat \ {0}
    OBVIOUS
  <2>2. /\ k \in Nat /\ (2 * n + d) % (2 * d) \in 0 .. 2 * d - 1
        /\ 2 * n + d = (2 * d) * k + ((2 * n + d) % (2 * d))
    BY <2>1, Division DEF HalfUp
  <2> HIDE DEF k
  <2>3. (2 * d) * k = 2 * (d * k) /\ d * k \in Nat
    BY <2>2
  <2> QED
    BY <2>2, <2>3
<1> HIDE DEF k
<1> DEFINE dk == d * k  dq == d * q  nu == n * units  du == d * units  dku == dk * units
           ku == k * units
<1>2. /\ dk \in Nat /\ dq \in Nat /\ nu \in Nat /\ du \in Nat /\ dku \in Nat /\ ku \in Nat
  BY <1>1
<1>3. 2 * nu - d <= 2 * dq /\ 2 * dq <= 2 * nu + d
  BY DEF Nearest
<1>4. 2 * dku <= 2 * nu + du
  <2>1. (2 * dk) * units <= (2 * n + d) * units
    BY <1>1, <1>2, Scaled
  <2> QED
    BY <1>2, <2>1
<1>5. 2 * nu + du + units <= 2 * dku + 2 * du
  <2>1. (2 * n + d + 1) * units <= (2 * dk + 2 * d) * units
    BY <1>1, <1>2, Scaled
  <2> QED
    BY <1>2, <2>1
<1>6. dku = ku * d
  BY <1>1
<1>7. 2 * ku <= 2 * q + 1 + units
  <2>1. 2 * dku <= 2 * dq + d + du
    BY <1>2, <1>3, <1>4
  <2>2. (2 * ku) * d <= (2 * q + 1 + units) * d
    BY <1>2, <1>6, <2>1
  <2> QED
    BY <1>2, <2>2, Scaled
<1>8. 2 * ku <= 2 * q + units
  BY <1>2, <1>7
<1>9. 2 * q + units < 2 * ku + 2 * units
  <2>1. 2 * dq + du < 2 * dku + 2 * du
    BY <1>2, <1>3, <1>5
  <2>2. ~((2 * ku + 2 * units) * d <= (2 * q + units) * d)
    BY <1>2, <1>6, <2>1
  <2> QED
    BY <1>2, <2>2, Scaled
<1>10. (2 * units) * k = 2 * ku
  BY <1>1
<1> HIDE DEF ku
<1>11. HalfUp(q, units) = (2 * q + units) \div (2 * units)
  BY DEF HalfUp
<1>12. (2 * q + units) \div (2 * units) = k
  <2>1. 2 * q + units \in Nat /\ 2 * units \in Nat \ {0}
    OBVIOUS
  <2>2. /\ (2 * units) * k <= 2 * q + units
        /\ 2 * q + units < (2 * units) * k + 2 * units
    BY <1>2, <1>8, <1>9, <1>10
  <2> QED
    BY <1>1, <2>1, <2>2, QuotientIs
<1> QED
  BY <1>11, <1>12 DEF k

\* The service and the revision arrive at one number, the quotient rounded half
\* up, though they round their quotients differently and at different places.
LEMMA OneKda ==
    ASSUME NEW s \in Scores
    PROVE  /\ ServiceKda(s) = HalfUp(100 * s.points, AtLeastOne(s.deaths))
           /\ BackfilledKda(s) = ServiceKda(s)
           /\ ServiceKda(s) \in Nat
<1> DEFINE n == 100 * s.points
           d == AtLeastOne(s.deaths)
<1>1. n \in Nat /\ d \in Nat \ {0}
  <2>1. MaxPoints \in Nat
    BY SMT DEF MaxPoints
  <2>2. s.points \in 0..MaxPoints /\ s.deaths \in Nat
    BY MigrationsAssumption
  <2>3. s.points \in Nat
    BY <2>1, <2>2
  <2> QED
    BY <2>2, <2>3 DEF AtLeastOne
<1>2. ASSUME NEW units \in {ServiceUnits, RevisionUnits}
      PROVE  units[s] \in Nat \ {0} /\ units[s] % 2 = 0 /\ units[s] > d
  <2>1. /\ units[s] \in Nat \ {0} /\ units[s] % 2 = 0 /\ units[s] > s.deaths
        /\ s.deaths \in Nat
    BY MigrationsAssumption
  <2> QED
    BY <2>1 DEF AtLeastOne
<1>3. /\ ServiceKda(s) = HalfUp(HalfEven(n * ServiceUnits[s], d), ServiceUnits[s])
      /\ BackfilledKda(s) = HalfUp(HalfUp(n * RevisionUnits[s], d), RevisionUnits[s])
  BY DEF ServiceKda, BackfilledKda
<1> HIDE DEF n, d
<1>4. ASSUME NEW units \in {ServiceUnits, RevisionUnits}
      PROVE  /\ HalfUp(HalfEven(n * units[s], d), units[s]) = HalfUp(n, d)
             /\ HalfUp(HalfUp(n * units[s], d), units[s]) = HalfUp(n, d)
  <2> DEFINE u == units[s]
             up == HalfUp(n * u, d)
             even == HalfEven(n * u, d)
  <2>1. u \in Nat \ {0} /\ u % 2 = 0 /\ u > d
    BY <1>2
  <2> HIDE DEF u
  <2>2. n * u \in Nat
    BY <1>1, <2>1
  <2>3. up \in Nat /\ Nearest(up, n * u, d)
    BY <1>1, <2>2, HalfUpIsNearest
  <2>4. even \in Nat /\ Nearest(even, n * u, d)
    BY <1>1, <2>2, HalfEvenIsNearest
  <2> HIDE DEF up, even
  <2>5. HalfUp(up, u) = HalfUp(n, d)
    BY <1>1, <2>1, <2>3, RoundedTwice
  <2>6. HalfUp(even, u) = HalfUp(n, d)
    BY <1>1, <2>1, <2>4, RoundedTwice
  <2> QED
    BY <2>5, <2>6 DEF up, even, u
<1> QED
  BY <1>1, <1>3, <1>4, HalfUpIsNearest DEF n, d

\* The column is wide enough for it.
LEMMA KdaFits ==
    ASSUME NEW s \in Scores
    PROVE  BackfilledKda(s) <= MaxKda
<1> DEFINE n == 100 * s.points
           d == AtLeastOne(s.deaths)
           q == HalfUp(n, d)
<1>1. n \in Nat /\ n <= 100 * MaxPoints /\ d \in Nat \ {0} /\ MaxPoints \in Nat
  <2>1. MaxPoints \in Nat
    BY SMT DEF MaxPoints
  <2>2. s.points \in 0..MaxPoints /\ s.deaths \in Nat
    BY MigrationsAssumption
  <2>3. s.points \in Nat /\ 100 * s.points <= 100 * MaxPoints
    BY <2>1, <2>2
  <2> QED
    BY <2>1, <2>2, <2>3 DEF AtLeastOne
<1>2. BackfilledKda(s) = q
  BY OneKda
<1> HIDE DEF n, d
<1>3. q \in Nat /\ 2 * (d * q) <= 2 * n + d
  BY <1>1, HalfUpIsNearest DEF Nearest
<1> HIDE DEF q
<1>4. q <= n
  <2> SUFFICES ASSUME q >= n + 1 PROVE FALSE
    BY <1>1, <1>3
  <2>1. d * (n + 1) <= d * q
    BY <1>1, <1>3
  <2>2. d * (n + 1) = d * n + d /\ n <= d * n /\ d * n \in Nat
    BY <1>1
  <2> QED
    BY <1>1, <1>3, <2>1, <2>2
<1>5. 100 * MaxPoints <= MaxKda /\ MaxKda \in Nat
  BY SMT DEF MaxPoints, MaxKda
<1> QED
  BY <1>1, <1>2, <1>3, <1>4, <1>5

------------------------------------------------------------------------------
\* The scripts

\* The table that revision v creates, and what it creates of it first and next.
Table(v) == Upgrade[v][1].on
Columns(v) == Upgrade[v][1].what
Indexes(v) == IF v = 3 THEN {} ELSE Upgrade[v][2].what

KdaOptional == <<"player_matches", "kda", "null">>
KdaRequired == <<"player_matches", "kda", "not null">>

\* Statements, by their fields.
LEMMA StatementIs ==
    ASSUME NEW t, NEW what
    PROVE  /\ CreateTable(t, what).on = t /\ CreateTable(t, what).what = what
           /\ CreateIndexes(t, what).on = t /\ CreateIndexes(t, what).what = Indexed(t, what)
BY DEF CreateTable, CreateIndexes

LEMMA FieldsAre ==
    ASSUME NEW s, NEW op, NEW t, NEW what, s = [op |-> op, on |-> t, what |-> what]
    PROVE  s.op = op /\ s.on = t /\ s.what = what
OBVIOUS

LEMMA PlayersScripts ==
    /\ Len(CreatePlayers) = 2 /\ DOMAIN CreatePlayers = {1, 2} /\ Len(DropPlayers) = 2
    /\ CreatePlayers[1] = CreateTable("players", CreatePlayers[1].what)
    /\ CreatePlayers[2] = CreateIndexes("players", {"ix_players_riot_id_platform"})
    /\ DropPlayers[1] = DropIndexes("players", {"ix_players_riot_id_platform"})
    /\ DropPlayers[2] = DropTable("players")
BY StatementIs DEF CreatePlayers, DropPlayers

LEMMA MatchesScripts ==
    /\ Len(CreateMatches) = 2 /\ DOMAIN CreateMatches = {1, 2} /\ Len(DropMatches) = 2
    /\ CreateMatches[1] = CreateTable("matches", CreateMatches[1].what)
    /\ CreateMatches[2] = CreateIndexes("matches", {"ix_matches_queue_id_game_start"})
    /\ DropMatches[1] = DropIndexes("matches", {"ix_matches_queue_id_game_start"})
    /\ DropMatches[2] = DropTable("matches")
BY StatementIs DEF CreateMatches, DropMatches

LEMMA RankedEntriesScripts ==
    /\ Len(CreateRankedEntries) = 1 /\ DOMAIN CreateRankedEntries = {1}
    /\ Len(DropRankedEntries) = 1
    /\ CreateRankedEntries[1] = CreateTable("ranked_entries", CreateRankedEntries[1].what)
    /\ DropRankedEntries[1] = DropTable("ranked_entries")
BY StatementIs DEF CreateRankedEntries, DropRankedEntries

LEMMA PlayerMatchesScripts ==
    /\ Len(CreatePlayerMatches) = 2 /\ DOMAIN CreatePlayerMatches = {1, 2}
    /\ Len(DropPlayerMatches) = 2
    /\ CreatePlayerMatches[1] = CreateTable("player_matches", CreatePlayerMatches[1].what)
    /\ CreatePlayerMatches[2] = CreateIndexes("player_matches", LinkIndexes)
    /\ DropPlayerMatches[1] = DropIndexes("player_matches", LinkIndexes)
    /\ DropPlayerMatches[2] = DropTable("player_matches")
BY StatementIs DEF CreatePlayerMatches, DropPlayerMatches

LEMMA Revisions ==
    /\ Upgrade[1] = CreatePlayers /\ Upgrade[2] = CreateMatches
    /\ Upgrade[3] = CreateRankedEntries /\ Upgrade[4] = CreatePlayerMatches
    /\ Upgrade[5] = AddKda /\ Latest = 5
    /\ Downgrade[1] = DropPlayers /\ Downgrade[2] = DropMatches
    /\ Downgrade[3] = DropRankedEntries /\ Downgrade[4] = DropPlayerMatches
    /\ Downgrade[5] = DropKda
BY DEF Upgrade, Downgrade, Latest

LEMMA TableNames ==
    /\ Table(1) = "players" /\ Table(2) = "matches"
    /\ Table(3) = "ranked_entries" /\ Table(4) = "player_matches"
BY Revisions, PlayersScripts, MatchesScripts, RankedEntriesScripts, PlayerMatchesScripts,
   StatementIs DEF Table

\* The first four revisions create a table and then its indexes, if it has any,
\* and go back the way they came.
LEMMA Scripts ==
    ASSUME NEW v \in 1..4
    PROVE  /\ Upgrade[v][1] = CreateTable(Table(v), Columns(v))
           /\ v # 3 =>
                /\ Len(Upgrade[v]) = 2 /\ Len(Downgrade[v]) = 2
                /\ DOMAIN Upgrade[v] = {1, 2}
                /\ Upgrade[v][2] = [op |-> "create", on |-> Table(v), what |-> Indexes(v)]
                /\ Downgrade[v][1] = [op |-> "drop", on |-> Table(v), what |-> Indexes(v)]
                /\ Downgrade[v][2] = DropTable(Table(v))
           /\ v = 3 =>
                /\ Len(Upgrade[v]) = 1 /\ Len(Downgrade[v]) = 1
                /\ DOMAIN Upgrade[v] = {1}
                /\ Downgrade[v][1] = DropTable(Table(v))
<1>1. CASE v = 1
  BY <1>1, Revisions, PlayersScripts, TableNames DEF Columns, Indexes, CreateIndexes, DropIndexes
<1>2. CASE v = 2
  BY <1>2, Revisions, MatchesScripts, TableNames DEF Columns, Indexes, CreateIndexes, DropIndexes
<1>3. CASE v = 3
  BY <1>3, Revisions, RankedEntriesScripts, TableNames DEF Columns
<1>4. CASE v = 4
  BY <1>4, Revisions, PlayerMatchesScripts, TableNames
     DEF Columns, Indexes, CreateIndexes, DropIndexes
<1> QED
  BY <1>1, <1>2, <1>3, <1>4

LEMMA KdaScripts ==
    /\ Len(Upgrade[5]) = 3 /\ DOMAIN Upgrade[5] = {1, 2, 3} /\ Len(Downgrade[5]) = 1
    /\ Upgrade[5][1] = [op |-> "create", on |-> "player_matches", what |-> {KdaOptional}]
    /\ Upgrade[5][2] = FillKda
    /\ Upgrade[5][3] = [op |-> "set not null", on |-> "player_matches", what |-> {KdaRequired}]
    /\ Downgrade[5][1] = DropColumn("player_matches", "kda")
    /\ DropColumn("player_matches", "kda") =
         [op |-> "drop", on |-> "player_matches", what |-> {KdaRequired}]
<1>1. /\ Optional("player_matches", {"kda"}) = {KdaOptional}
      /\ Required("player_matches", {"kda"}) = {KdaRequired}
  BY DEF Optional, Required, KdaOptional, KdaRequired
<1>2. /\ AddColumn("player_matches", "kda") =
           [op |-> "create", on |-> "player_matches", what |-> {KdaOptional}]
      /\ SetNotNull("player_matches", "kda") =
           [op |-> "set not null", on |-> "player_matches", what |-> {KdaRequired}]
      /\ DropColumn("player_matches", "kda") =
           [op |-> "drop", on |-> "player_matches", what |-> {KdaRequired}]
  BY <1>1 DEF AddColumn, SetNotNull, DropColumn
<1>3. /\ Len(AddKda) = 3 /\ DOMAIN AddKda = {1, 2, 3} /\ Len(DropKda) = 1
      /\ AddKda[1] = AddColumn("player_matches", "kda") /\ AddKda[2] = FillKda
      /\ AddKda[3] = SetNotNull("player_matches", "kda")
      /\ DropKda[1] = DropColumn("player_matches", "kda")
  BY DEF AddKda, DropKda
<1> QED
  BY <1>2, <1>3, Revisions

\* Elements, by their fields.
LEMMA ElementIs ==
    ASSUME NEW t, NEW names, NEW e
    PROVE  /\ e \in Required(t, names) => e[1] = t /\ e[2] \in names /\ e[3] = "not null"
           /\ e \in Optional(t, names) => e[1] = t /\ e[2] \in names /\ e[3] = "null"
           /\ e \in Indexed(t, names) => e[1] = t /\ e[2] \in names /\ e[3] = "index"
           /\ e \in References(t, names) => e[1] = t /\ e[2] \in names /\ e[3] = "foreign key"
           /\ \A name : e = Unique(t, name) => e[1] = t /\ e[2] = name /\ e[3] = "unique"
<1>1. e \in Required(t, names) => e[1] = t /\ e[2] \in names /\ e[3] = "not null"
  <2> SUFFICES ASSUME NEW n \in names, e = <<t, n, "not null">>
               PROVE  e[1] = t /\ e[2] \in names /\ e[3] = "not null"
    BY DEF Required
  <2> QED
    OBVIOUS
<1>2. e \in Optional(t, names) => e[1] = t /\ e[2] \in names /\ e[3] = "null"
  BY DEF Optional
<1>3. e \in Indexed(t, names) => e[1] = t /\ e[2] \in names /\ e[3] = "index"
  BY DEF Indexed
<1>4. e \in References(t, names) => e[1] = t /\ e[2] \in names /\ e[3] = "foreign key"
  <2> SUFFICES ASSUME NEW n \in names, e = <<t, n, "foreign key">>
               PROVE  e[1] = t /\ e[2] \in names /\ e[3] = "foreign key"
    BY DEF References
  <2> QED
    OBVIOUS
<1>5. \A name : e = Unique(t, name) => e[1] = t /\ e[2] = name /\ e[3] = "unique"
  BY DEF Unique
<1> QED
  BY <1>1, <1>2, <1>3, <1>4, <1>5

\* What a revision creates: columns, references and a constraint of its table.
TableOf(t, required, optional, parents, unique) ==
    Required(t, required) \cup Optional(t, optional) \cup References(t, parents)
      \cup {Unique(t, name) : name \in unique}

LEMMA TableOfIs ==
    ASSUME NEW t, NEW required, NEW optional, NEW parents, NEW unique,
           "kda" \notin required \cup optional \cup parents \cup unique,
           required # {}
    PROVE  /\ TableOf(t, required, optional, parents, unique) # {}
           /\ \A e \in TableOf(t, required, optional, parents, unique) :
                /\ e[1] = t /\ e[2] # "kda" /\ e[3] # "index"
                /\ e[3] = "foreign key" => e[2] \in parents
<1>1. ASSUME NEW e \in TableOf(t, required, optional, parents, unique)
      PROVE  /\ e[1] = t /\ e[2] # "kda" /\ e[3] # "index"
             /\ e[3] = "foreign key" => e[2] \in parents
  <2>1. CASE e \in Required(t, required)
    <3>1. e[1] = t /\ e[2] \in required /\ e[3] = "not null"
      BY <2>1, ElementIs
    <3> QED
      BY <3>1
  <2>2. CASE e \in Optional(t, optional)
    <3>1. e[1] = t /\ e[2] \in optional /\ e[3] = "null"
      BY <2>2, ElementIs
    <3> QED
      BY <3>1
  <2>3. CASE e \in References(t, parents)
    <3>1. e[1] = t /\ e[2] \in parents /\ e[3] = "foreign key"
      BY <2>3, ElementIs
    <3> QED
      BY <3>1
  <2>4. CASE e \in {Unique(t, name) : name \in unique}
    <3>1. PICK name \in unique : e = Unique(t, name)
      BY <2>4
    <3>2. e[1] = t /\ e[2] = name /\ e[3] = "unique"
      BY <3>1 DEF Unique
    <3> QED
      BY <3>2
  <2> QED
    BY <2>1, <2>2, <2>3, <2>4 DEF TableOf
<1>2. \A n \in required : <<t, n, "not null">> \in TableOf(t, required, optional, parents, unique)
  BY DEF TableOf, Required
<1> QED
  BY <1>1, <1>2

LEMMA PlayersColumns ==
    /\ Columns(1) # {}
    /\ \A e \in Columns(1) :
         /\ e[1] = "players" /\ e[2] # "kda" /\ e[3] # "index"
         /\ e[3] = "foreign key" => e[2] \in {}
<1> DEFINE required == {"puuid", "game_name", "tag_line", "platform", "created_at", "updated_at"}
           optional == {"profile_icon_id", "summoner_level", "last_refreshed_at", "refresh_status",
                  "refresh_error"}
           parents == {}
           unique == {}
<1>1. Columns(1) = TableOf("players", required, optional, parents, unique)
  <2>1. Columns(1) = CreatePlayers[1].what
    BY Revisions DEF Columns
  <2>2. CreatePlayers[1].what = Required("players", required) \cup Optional("players", optional)
    BY StatementIs DEF CreatePlayers
  <2>3. References("players", parents) = {}
    BY DEF References
  <2> QED
    BY <2>1, <2>2, <2>3 DEF TableOf
<1>2. required # {} /\ "kda" \notin required \cup optional \cup parents \cup unique
  OBVIOUS
<1> HIDE DEF required, optional, parents, unique
<1> DEFINE made == TableOf("players", required, optional, parents, unique)
<1>3. /\ made # {}
      /\ \A e \in made :
           /\ e[1] = "players" /\ e[2] # "kda" /\ e[3] # "index"
           /\ e[3] = "foreign key" => e[2] \in parents
  BY <1>2, TableOfIs
<1> HIDE DEF made
<1> QED
  BY <1>1, <1>3 DEF parents, made

LEMMA MatchesColumns ==
    /\ Columns(2) # {}
    /\ \A e \in Columns(2) :
         /\ e[1] = "matches" /\ e[2] # "kda" /\ e[3] # "index"
         /\ e[3] = "foreign key" => e[2] \in {}
<1> DEFINE required == {"match_id", "platform", "queue_id", "game_start", "duration_seconds",
                  "raw_json", "created_at"}
           optional == {"patch"}
           parents == {}
           unique == {}
<1>1. Columns(2) = TableOf("matches", required, optional, parents, unique)
  <2>1. Columns(2) = CreateMatches[1].what
    BY Revisions DEF Columns
  <2>2. CreateMatches[1].what = Required("matches", required) \cup Optional("matches", optional)
    BY StatementIs DEF CreateMatches
  <2>3. References("matches", parents) = {}
    BY DEF References
  <2> QED
    BY <2>1, <2>2, <2>3 DEF TableOf
<1>2. required # {} /\ "kda" \notin required \cup optional \cup parents \cup unique
  OBVIOUS
<1> HIDE DEF required, optional, parents, unique
<1> DEFINE made == TableOf("matches", required, optional, parents, unique)
<1>3. /\ made # {}
      /\ \A e \in made :
           /\ e[1] = "matches" /\ e[2] # "kda" /\ e[3] # "index"
           /\ e[3] = "foreign key" => e[2] \in parents
  BY <1>2, TableOfIs
<1> HIDE DEF made
<1> QED
  BY <1>1, <1>3 DEF parents, made

LEMMA RankedEntriesColumns ==
    /\ Columns(3) # {}
    /\ \A e \in Columns(3) :
         /\ e[1] = "ranked_entries" /\ e[2] # "kda" /\ e[3] # "index"
         /\ e[3] = "foreign key" => e[2] \in {"players"}
<1> DEFINE required == {"id", "player_puuid", "queue_type", "league_points", "wins", "losses",
                  "created_at", "updated_at"}
           optional == {"tier", "rank"}
           parents == {"players"}
           unique == {"uq_ranked_entries_player_queue"}
<1>1. Columns(3) = TableOf("ranked_entries", required, optional, parents, unique)
  <2>1. Columns(3) = CreateRankedEntries[1].what
    BY Revisions DEF Columns
  <2>2. CreateRankedEntries[1].what = Required("ranked_entries", required) \cup Optional("ranked_entries", optional)
                         \cup References("ranked_entries", parents)
                         \cup {Unique("ranked_entries", "uq_ranked_entries_player_queue")}
    BY StatementIs DEF CreateRankedEntries
  <2> QED
    BY <2>1, <2>2 DEF TableOf
<1>2. required # {} /\ "kda" \notin required \cup optional \cup parents \cup unique
  OBVIOUS
<1> HIDE DEF required, optional, parents, unique
<1> DEFINE made == TableOf("ranked_entries", required, optional, parents, unique)
<1>3. /\ made # {}
      /\ \A e \in made :
           /\ e[1] = "ranked_entries" /\ e[2] # "kda" /\ e[3] # "index"
           /\ e[3] = "foreign key" => e[2] \in parents
  BY <1>2, TableOfIs
<1> HIDE DEF made
<1> QED
  BY <1>1, <1>3 DEF parents, made

\* The columns that revision 0004 requires.
LinkColumns == {"id", "player_puuid", "match_id", "champion_id", "champion_name", "win",
                "kills", "deaths", "assists", "gold_earned", "total_minions_killed",
                "neutral_minions_killed", "vision_score",
                "total_damage_dealt_to_champions", "summoner_spell_1_id",
                "summoner_spell_2_id", "item0", "item1", "item2", "item3", "item4",
                "item5", "item6", "created_at"}

LEMMA PlayerMatchesColumns ==
    /\ Columns(4) # {}
    /\ \A e \in Columns(4) :
         /\ e[1] = "player_matches" /\ e[2] # "kda" /\ e[3] # "index"
         /\ e[3] = "foreign key" => e[2] \in {"matches", "players"}
<1> DEFINE required == LinkColumns
           optional == {"team_position"}
           parents == {"matches", "players"}
           unique == {"uq_player_matches_player_match"}
<1>1. Columns(4) = TableOf("player_matches", required, optional, parents, unique)
  <2>1. Columns(4) = CreatePlayerMatches[1].what
    BY Revisions DEF Columns
  <2>2. CreatePlayerMatches[1].what = Required("player_matches", required) \cup Optional("player_matches", optional)
                         \cup References("player_matches", parents)
                         \cup {Unique("player_matches", "uq_player_matches_player_match")}
    BY StatementIs DEF CreatePlayerMatches, LinkColumns
  <2> QED
    BY <2>1, <2>2 DEF TableOf
<1>2. required # {} /\ "kda" \notin required \cup optional \cup parents \cup unique
  BY DEF LinkColumns
<1> HIDE DEF required, optional, parents, unique
<1> DEFINE made == TableOf("player_matches", required, optional, parents, unique)
<1>3. /\ made # {}
      /\ \A e \in made :
           /\ e[1] = "player_matches" /\ e[2] # "kda" /\ e[3] # "index"
           /\ e[3] = "foreign key" => e[2] \in parents
  BY <1>2, TableOfIs
<1> HIDE DEF made
<1> QED
  BY <1>1, <1>3 DEF parents, made

LEMMA IndexesAre ==
    /\ Indexes(1) = Indexed("players", {"ix_players_riot_id_platform"})
    /\ Indexes(2) = Indexed("matches", {"ix_matches_queue_id_game_start"})
    /\ Indexes(3) = {}
    /\ Indexes(4) = Indexed("player_matches", LinkIndexes)
BY Revisions, PlayersScripts, MatchesScripts, PlayerMatchesScripts, StatementIs DEF Indexes

LEMMA IndexIs ==
    ASSUME NEW t, NEW names, "kda" \notin names
    PROVE  \A e \in Indexed(t, names) : e[1] = t /\ e[2] # "kda" /\ e[3] = "index"
<1> SUFFICES ASSUME NEW e \in Indexed(t, names)
             PROVE  e[1] = t /\ e[2] # "kda" /\ e[3] = "index"
  OBVIOUS
<1>1. e[1] = t /\ e[2] \in names /\ e[3] = "index"
  BY ElementIs
<1> QED
  BY <1>1

\* What a revision creates belongs to its table and refers to earlier ones.
LEMMA Elements ==
    ASSUME NEW v \in 1..4
    PROVE  /\ Columns(v) # {}
           /\ \A e \in Columns(v) :
                /\ e[1] = Table(v) /\ e[2] # "kda" /\ e[3] # "index"
                /\ e[3] = "foreign key" => \E u \in 1 .. v - 1 : e[2] = Table(u)
           /\ \A e \in Indexes(v) : e[1] = Table(v) /\ e[2] # "kda" /\ e[3] = "index"
<1>1. CASE v = 1
  <2>1. \A e \in Indexes(1) : e[1] = "players" /\ e[2] # "kda" /\ e[3] = "index"
    BY IndexesAre, IndexIs
  <2> QED
    BY <1>1, <2>1, PlayersColumns, TableNames
<1>2. CASE v = 2
  <2>1. \A e \in Indexes(2) : e[1] = "matches" /\ e[2] # "kda" /\ e[3] = "index"
    BY IndexesAre, IndexIs
  <2> QED
    BY <1>2, <2>1, MatchesColumns, TableNames
<1>3. CASE v = 3
  <2>1. 1 \in 1 .. v - 1 /\ Table(1) = "players"
    BY <1>3, TableNames
  <2> QED
    BY <1>3, <2>1, RankedEntriesColumns, TableNames, IndexesAre
<1>4. CASE v = 4
  <2>1. \A e \in Indexes(4) : e[1] = "player_matches" /\ e[2] # "kda" /\ e[3] = "index"
    BY IndexesAre, IndexIs DEF LinkIndexes
  <2>2. /\ 1 \in 1 .. v - 1 /\ Table(1) = "players"
        /\ 2 \in 1 .. v - 1 /\ Table(2) = "matches"
    BY <1>4, TableNames
  <2> QED
    BY <1>4, <2>1, <2>2, PlayerMatchesColumns, TableNames
<1>5. v = 1 \/ v = 2 \/ v = 3 \/ v = 4
  OBVIOUS
<1> QED
  BY <1>1, <1>2, <1>3, <1>4, <1>5, Zenon

LEMMA SchemaGrows ==
    /\ SchemaAt(0) = {}
    /\ \A v \in 1..4 : SchemaAt(v) = SchemaAt(v - 1) \cup Columns(v) \cup Indexes(v)
    /\ SchemaAt(5) = SchemaAt(4) \cup {KdaRequired}
<1> DEFINE MadeBy(i) == UNION {Upgrade[i][k].what : k \in DOMAIN Upgrade[i]}
<1>1. ASSUME NEW v \in 0..5, NEW e
      PROVE  e \in SchemaAt(v) <=> e # KdaOptional /\ \E i \in 1..v : e \in MadeBy(i)
  BY DEF SchemaAt, KdaOptional
<1>2. ASSUME NEW i \in 1..4 PROVE MadeBy(i) = Columns(i) \cup Indexes(i)
  <2>1. CASE i = 3
    <3>1. MadeBy(i) = Upgrade[i][1].what
      BY <2>1, Scripts
    <3> QED
      BY <2>1, <3>1 DEF Columns, Indexes
  <2>2. CASE i # 3
    <3>1. MadeBy(i) = Upgrade[i][1].what \cup Upgrade[i][2].what
      BY <2>2, Scripts
    <3> QED
      BY <2>2, <3>1 DEF Columns, Indexes
  <2> QED
    BY <2>1, <2>2
<1>3. MadeBy(5) = {KdaOptional, KdaRequired}
  <2>1. MadeBy(5) = Upgrade[5][1].what \cup Upgrade[5][2].what \cup Upgrade[5][3].what
    BY KdaScripts
  <2> DEFINE add == Upgrade[5][1]  fill == Upgrade[5][2]  require == Upgrade[5][3]
  <2>2. /\ add = [op |-> "create", on |-> "player_matches", what |-> {KdaOptional}]
        /\ fill = [op |-> "fill kda", on |-> "player_matches", what |-> {}]
        /\ require = [op |-> "set not null", on |-> "player_matches", what |-> {KdaRequired}]
    BY KdaScripts DEF FillKda
  <2> HIDE DEF add, fill, require
  <2>3. add.what = {KdaOptional} /\ fill.what = {} /\ require.what = {KdaRequired}
    BY <2>2, FieldsAre
  <2> QED
    BY <2>1, <2>3 DEF add, fill, require
<1>4. ASSUME NEW i \in 1..4 PROVE KdaOptional \notin MadeBy(i)
  <2>1. KdaOptional[2] = "kda"
    BY DEF KdaOptional
  <2> QED
    BY <1>2, <2>1, Elements
<1>5. KdaRequired # KdaOptional
  BY DEF KdaRequired, KdaOptional
<1> HIDE DEF MadeBy
<1>6. SchemaAt(0) = {}
  BY <1>1
<1>7. ASSUME NEW v \in 1..4 PROVE SchemaAt(v) = SchemaAt(v - 1) \cup Columns(v) \cup Indexes(v)
  <2>1. v - 1 \in 0..5 /\ v \in 0..5 /\ \A i : i \in 1..v <=> i \in 1 .. v - 1 \/ i = v
    OBVIOUS
  <2>2. ASSUME NEW e
        PROVE  e \in SchemaAt(v) <=> e \in SchemaAt(v - 1) \/ e \in MadeBy(v)
    BY <1>1, <1>4, <2>1
  <2> QED
    BY <1>2, <2>2
<1>8. SchemaAt(5) = SchemaAt(4) \cup {KdaRequired}
  <2>1. \A i : i \in 1..5 <=> i \in 1..4 \/ i = 5
    OBVIOUS
  <2>2. ASSUME NEW e
        PROVE  e \in SchemaAt(5) <=> e \in SchemaAt(4) \/ e = KdaRequired
    BY <1>1, <1>3, <1>5, <2>1
  <2> QED
    BY <2>2
<1> QED
  BY <1>6, <1>7, <1>8

\* The models declare what the last revision leaves.
LEMMA ModelsAreLatest == ModelSchema = SchemaAt(Latest)
<1>1. SchemaAt(1) = SchemaAt(0) \cup Columns(1) \cup Indexes(1)
  BY SchemaGrows
<1>2. SchemaAt(2) = SchemaAt(1) \cup Columns(2) \cup Indexes(2)
  BY SchemaGrows
<1>3. SchemaAt(3) = SchemaAt(2) \cup Columns(3) \cup Indexes(3)
  BY SchemaGrows
<1>4. SchemaAt(4) = SchemaAt(3) \cup Columns(4) \cup Indexes(4)
  BY SchemaGrows
<1>5. PlayerModel = Columns(1) \cup Indexes(1)
  <2>1. PlayerModel = CreatePlayers[1].what \cup Indexed("players", {"ix_players_riot_id_platform"})
    BY StatementIs DEF PlayerModel, CreatePlayers
  <2> QED
    BY <2>1, Revisions, IndexesAre DEF Columns
<1>6. MatchModel = Columns(2) \cup Indexes(2)
  <2>1. MatchModel = CreateMatches[1].what
                       \cup Indexed("matches", {"ix_matches_queue_id_game_start"})
    BY StatementIs DEF MatchModel, CreateMatches
  <2> QED
    BY <2>1, Revisions, IndexesAre DEF Columns
<1>7. RankedEntryModel = Columns(3) \cup Indexes(3)
  <2>1. RankedEntryModel = CreateRankedEntries[1].what
    BY StatementIs DEF RankedEntryModel, CreateRankedEntries
  <2> QED
    BY <2>1, Revisions, IndexesAre DEF Columns
<1>8. PlayerMatchModel = Columns(4) \cup Indexes(4) \cup {KdaRequired}
  <2>1. PlayerMatchModel = CreatePlayerMatches[1].what \cup Indexed("player_matches", LinkIndexes)
                             \cup {KdaRequired}
    <3> DEFINE others == Optional("player_matches", {"team_position"})
                           \cup References("player_matches", {"matches", "players"})
                           \cup {Unique("player_matches", "uq_player_matches_player_match")}
               names == LinkColumns \cup {"kda"}
               older == LinkColumns
    <3>1. PlayerMatchModel = Required("player_matches", names)
                               \cup Indexed("player_matches", LinkIndexes) \cup others
      <4>1. names = {"id", "player_puuid", "match_id", "champion_id", "champion_name", "win",
                     "kills", "deaths", "assists", "kda", "gold_earned",
                     "total_minions_killed", "neutral_minions_killed", "vision_score",
                     "total_damage_dealt_to_champions", "summoner_spell_1_id",
                     "summoner_spell_2_id", "item0", "item1", "item2", "item3", "item4",
                     "item5", "item6", "created_at"}
        BY DEF LinkColumns
      <4> HIDE DEF names
      <4> QED
        BY <4>1 DEF PlayerMatchModel
    <3>2. CreatePlayerMatches[1].what = Required("player_matches", older) \cup others
      BY StatementIs DEF CreatePlayerMatches, LinkColumns
    <3>3. Required("player_matches", names) =
            Required("player_matches", older) \cup {KdaRequired}
      BY DEF Required, KdaRequired
    <3> HIDE DEF names, older, others
    <3> QED
      BY <3>1, <3>2, <3>3
  <2> QED
    BY <2>1, Revisions, IndexesAre DEF Columns
<1>9. SchemaAt(Latest) = SchemaAt(4) \cup {KdaRequired}
  BY SchemaGrows, Revisions
<1> QED
  BY <1>1, <1>2, <1>3, <1>4, <1>5, <1>6, <1>7, <1>8, <1>9, SchemaGrows DEF ModelSchema

------------------------------------------------------------------------------
\* The schema of a version

LEMMA TablesDiffer ==
    \A u, v \in 1..4 : Table(u) = Table(v) => u = v
BY TableNames

\* A version has the tables created so far, and they refer to earlier ones.
LEMMA SchemaElements ==
    ASSUME NEW w \in 0..4
    PROVE  \A e \in SchemaAt(w) : \E u \in 1..w :
             /\ e[1] = Table(u) /\ e[2] # "kda"
             /\ e[3] = "foreign key" => \E x \in 1 .. u - 1 : e[2] = Table(x)
<1> DEFINE Of(w_) == \A e \in SchemaAt(w_) : \E u \in 1..w_ :
                       /\ e[1] = Table(u) /\ e[2] # "kda"
                       /\ e[3] = "foreign key" => \E x \in 1 .. u - 1 : e[2] = Table(x)
<1>1. ASSUME NEW v \in 1..4, Of(v - 1) PROVE Of(v)
  <2> SUFFICES ASSUME NEW e \in SchemaAt(v)
               PROVE  \E u \in 1..v :
                        /\ e[1] = Table(u) /\ e[2] # "kda"
                        /\ e[3] = "foreign key" => \E x \in 1 .. u - 1 : e[2] = Table(x)
    OBVIOUS
  <2>1. CASE e \in SchemaAt(v - 1)
    <3>1. PICK u \in 1 .. v - 1 :
            /\ e[1] = Table(u) /\ e[2] # "kda"
            /\ e[3] = "foreign key" => \E x \in 1 .. u - 1 : e[2] = Table(x)
      BY <1>1, <2>1
    <3>2. u \in 1..v
      OBVIOUS
    <3> QED
      BY <3>1, <3>2
  <2>2. CASE e \in Columns(v) \cup Indexes(v)
    <3>1. /\ e[1] = Table(v) /\ e[2] # "kda"
          /\ e[3] = "foreign key" => \E x \in 1 .. v - 1 : e[2] = Table(x)
      BY <2>2, Elements
    <3>2. v \in 1..v
      OBVIOUS
    <3> QED
      BY <3>1, <3>2
  <2> QED
    BY <2>1, <2>2, SchemaGrows
<1>2. Of(0)
  BY SchemaGrows
<1> HIDE DEF Of
<1>3. Of(1)
  BY <1>1, <1>2
<1>4. Of(2)
  BY <1>1, <1>3
<1>5. Of(3)
  BY <1>1, <1>4
<1>6. Of(4)
  BY <1>1, <1>5
<1>7. w = 0 \/ w = 1 \/ w = 2 \/ w = 3 \/ w = 4
  OBVIOUS
<1>8. Of(w)
  BY <1>2, <1>3, <1>4, <1>5, <1>6, <1>7
<1> QED
  BY <1>8 DEF Of

LEMMA SchemaColumns ==
    ASSUME NEW w \in 0..4, NEW u \in 1..w
    PROVE  Columns(u) \subseteq SchemaAt(w)
<1>1. ASSUME NEW v \in 1..4 PROVE Columns(v) \subseteq SchemaAt(v)
  BY SchemaGrows
<1>2. ASSUME NEW v \in 1..4 PROVE SchemaAt(v - 1) \subseteq SchemaAt(v)
  BY SchemaGrows
<1>3. /\ SchemaAt(1) \subseteq SchemaAt(2) /\ SchemaAt(2) \subseteq SchemaAt(3)
      /\ SchemaAt(3) \subseteq SchemaAt(4)
  <2>1. /\ 2 \in 1..4 /\ 3 \in 1..4 /\ 4 \in 1..4 /\ 2 - 1 = 1 /\ 3 - 1 = 2 /\ 4 - 1 = 3
    OBVIOUS
  <2> QED
    BY <1>2, <2>1
<1>4. SchemaAt(u) \subseteq SchemaAt(w)
  BY <1>3
<1> QED
  BY <1>1, <1>4

\* The elements of table v and the others, when it is the last one created.
LEMMA LastTable ==
    ASSUME NEW v \in 1..4, NEW S \in SUBSET Indexes(v)
    PROVE  LET schema == SchemaAt(v - 1) \cup Columns(v) \cup S IN
           /\ ~HasTable(Table(v), SchemaAt(v - 1))
           /\ HasTable(Table(v), schema)
           /\ OfTable(Table(v), schema) = Columns(v) \cup S
           /\ schema \ OfTable(Table(v), schema) = SchemaAt(v - 1)
           /\ Indexes(v) \cap (SchemaAt(v - 1) \cup Columns(v)) = {}
           /\ \A e \in SchemaAt(v - 1) : ~(e[2] = Table(v) /\ e[3] = "foreign key")
<1> DEFINE schema == SchemaAt(v - 1) \cup Columns(v) \cup S
<1>1. ASSUME NEW e \in SchemaAt(v - 1)
      PROVE  e[1] # Table(v) /\ ~(e[2] = Table(v) /\ e[3] = "foreign key")
  <2> DEFINE w == v - 1
  <2>1. w \in 0..4
    OBVIOUS
  <2>2. PICK u \in 1..w :
          /\ e[1] = Table(u) /\ e[2] # "kda"
          /\ e[3] = "foreign key" => \E x \in 1 .. u - 1 : e[2] = Table(x)
    BY <2>1, SchemaElements
  <2>3. u \in 1..4 /\ u # v
    OBVIOUS
  <2>4. e[1] # Table(v)
    BY <2>2, <2>3, TablesDiffer
  <2>5. ASSUME NEW x \in 1 .. u - 1 PROVE Table(x) # Table(v)
    <3>1. x \in 1..4 /\ x # v
      OBVIOUS
    <3> QED
      BY <3>1, TablesDiffer
  <2> QED
    BY <2>2, <2>4, <2>5
<1>2. \A e \in Columns(v) \cup S : e[1] = Table(v)
  BY Elements
<1>3. OfTable(Table(v), schema) = Columns(v) \cup S
  BY <1>1, <1>2 DEF OfTable
<1>4. schema \ OfTable(Table(v), schema) = SchemaAt(v - 1)
  <2>1. SchemaAt(v - 1) \cap (Columns(v) \cup S) = {}
    BY <1>1, <1>2
  <2> QED
    BY <1>3, <2>1
<1>5. ~HasTable(Table(v), SchemaAt(v - 1)) /\ HasTable(Table(v), schema)
  BY <1>1, <1>3, Elements DEF HasTable, OfTable
<1>6. Indexes(v) \cap (SchemaAt(v - 1) \cup Columns(v)) = {}
  BY <1>1, Elements
<1> QED
  BY <1>1, <1>3, <1>4, <1>5, <1>6

------------------------------------------------------------------------------
\* The database at a step of a migration

RowsFit(rows, filled) ==
    \A l \in DOMAIN rows :
        /\ rows[l].score \in Scores
        /\ rows[l].kda = IF filled THEN ServiceKda(rows[l].score) ELSE Null

\* d has stored version w and this schema, and its rows, if it has the table for
\* them, have a KDA or not.
At(d, w, schema, filled) ==
    /\ d = [version |-> w, schema |-> schema, rows |-> d.rows]
    /\ DOMAIN d.rows # {} => w >= 4
    /\ RowsFit(d.rows, filled)

\* d is what a version is said to be.
Fits(d) ==
    /\ d.version \in 0..5
    /\ At(d, d.version, SchemaAt(d.version), d.version = 5)

\* d is where done statements of the revision after or of its version leave it.
Midway(d, up, done) ==
    IF up
    THEN /\ d.version \in 0..4 /\ done \in 1 .. Len(Upgrade[d.version + 1]) - 1
         /\ IF d.version = 4
            THEN At(d, 4, SchemaAt(4) \cup {KdaOptional}, done = 2)
            ELSE At(d, d.version, SchemaAt(d.version) \cup Columns(d.version + 1), FALSE)
    ELSE /\ d.version \in {1, 2, 4} /\ done = 1
         /\ At(d, d.version, SchemaAt(d.version) \ Indexes(d.version), FALSE)

\* The fields of a database.
LEMMA AtFields ==
    ASSUME NEW d, NEW w, NEW schema, NEW filled, At(d, w, schema, filled)
    PROVE  /\ d.version = w /\ d.schema = schema
           /\ DOMAIN d.rows # {} => w >= 4
           /\ RowsFit(d.rows, filled)
BY DEF At

\* A database with another schema, other rows or another version.
LEMMA WithSchema ==
    ASSUME NEW d, NEW w, NEW schema, NEW filled, At(d, w, schema, filled), NEW new
    PROVE  /\ At([d EXCEPT !.schema = new], w, new, filled)
           /\ [d EXCEPT !.schema = new].rows = d.rows
<1>1. [d EXCEPT !.schema = new] = [version |-> w, schema |-> new, rows |-> d.rows]
  BY DEF At
<1> DEFINE e == [d EXCEPT !.schema = new]
<1>2. e.rows = d.rows /\ e.version = w /\ e.schema = new
  BY <1>1
<1> HIDE DEF e
<1>3. At(e, w, new, filled)
  BY <1>1, <1>2 DEF At, e
<1> QED
  BY <1>2, <1>3 DEF e

Changed(d, schema, rows) == [d EXCEPT !.schema = schema, !.rows = rows]

LEMMA WithRows ==
    ASSUME NEW d, NEW w, NEW schema, NEW filled, At(d, w, schema, filled),
           NEW new, NEW rows, NEW now,
           DOMAIN rows \subseteq DOMAIN d.rows, RowsFit(rows, now)
    PROVE  /\ At(Changed(d, new, rows), w, new, now)
           /\ Changed(d, new, rows).rows = rows
<1> DEFINE e == Changed(d, new, rows)
<1>1. e = [version |-> w, schema |-> new, rows |-> rows]
  <2> DEFINE before == d.rows
             between == [d EXCEPT !.schema = new]
  <2>1. d = [version |-> w, schema |-> schema, rows |-> before]
    BY DEF At
  <2> HIDE DEF before
  <2>2. between = [version |-> w, schema |-> new, rows |-> before]
    BY <2>1
  <2>3. e = [between EXCEPT !.rows = rows]
    BY DEF Changed
  <2> HIDE DEF between, e
  <2> QED
    BY <2>2, <2>3
<1> HIDE DEF e
<1>2. e.rows = rows /\ e.version = w /\ e.schema = new
  BY <1>1
<1>3. DOMAIN rows # {} => w >= 4
  BY DEF At
<1>4. At(e, w, new, now)
  BY <1>1, <1>2, <1>3 DEF At
<1> QED
  BY <1>2, <1>4 DEF e

Renumbered(d, v) == [d EXCEPT !.version = v]

LEMMA WithVersion ==
    ASSUME NEW d, NEW w, NEW schema, NEW filled, At(d, w, schema, filled),
           NEW v \in 0..5, DOMAIN d.rows # {} => v >= 4,
           schema = SchemaAt(v), filled = (v = 5)
    PROVE  Fits(Renumbered(d, v))
<1> DEFINE e == Renumbered(d, v)
<1>1. e = [version |-> v, schema |-> schema, rows |-> d.rows]
  BY DEF At, Renumbered
<1>2. e.rows = d.rows /\ e.version = v /\ e.schema = schema
  BY <1>1
<1> HIDE DEF e
<1>3. At(e, v, schema, filled)
  BY <1>1, <1>2 DEF At, e
<1>4. Fits(e)
  BY <1>2, <1>3 DEF Fits
<1> QED
  BY <1>4 DEF e

\* Statements: when PostgreSQL accepts them and what they leave.
LEMMA CreatesTable ==
    ASSUME NEW d, NEW w, NEW schema, NEW filled, At(d, w, schema, filled),
           NEW s, NEW t, NEW what, s = CreateTable(t, what),
           ~HasTable(t, schema),
           \A e \in what : e[3] = "foreign key" => HasTable(e[2], schema)
    PROVE  /\ CanRun(s, d) /\ At(After(s, d), w, schema \cup what, filled)
           /\ After(s, d).rows = d.rows
<1>1. s.op = "create table" /\ s.on = t /\ s.what = what
  BY FieldsAre DEF CreateTable
<1>2. d.schema = schema
  BY AtFields
<1>3. CanRun(s, d)
  BY <1>1, <1>2 DEF CanRun
<1> DEFINE new == schema \cup what
<1>4. After(s, d) = [d EXCEPT !.schema = new]
  BY <1>1, <1>2 DEF After
<1> HIDE DEF new
<1>5. At([d EXCEPT !.schema = new], w, new, filled) /\ [d EXCEPT !.schema = new].rows = d.rows
  BY WithSchema
<1> QED
  BY <1>3, <1>4, <1>5 DEF new

LEMMA Creates ==
    ASSUME NEW d, NEW w, NEW schema, NEW filled, At(d, w, schema, filled),
           NEW s, NEW t, NEW what, s = [op |-> "create", on |-> t, what |-> what],
           HasTable(t, schema), what \cap schema = {}
    PROVE  /\ CanRun(s, d) /\ At(After(s, d), w, schema \cup what, filled)
           /\ After(s, d).rows = d.rows
<1>1. s.op = "create" /\ s.on = t /\ s.what = what
  BY FieldsAre
<1>2. d.schema = schema
  BY AtFields
<1>3. CanRun(s, d)
  BY <1>1, <1>2 DEF CanRun
<1> DEFINE new == schema \cup what
<1>4. After(s, d) = [d EXCEPT !.schema = new]
  BY <1>1, <1>2 DEF After
<1> HIDE DEF new
<1>5. At([d EXCEPT !.schema = new], w, new, filled) /\ [d EXCEPT !.schema = new].rows = d.rows
  BY WithSchema
<1> QED
  BY <1>3, <1>4, <1>5 DEF new

LEMMA Drops ==
    ASSUME NEW d, NEW w, NEW schema, NEW filled, At(d, w, schema, filled),
           NEW s, NEW t, NEW what, s = [op |-> "drop", on |-> t, what |-> what],
           what \subseteq schema, KdaRequired \notin what
    PROVE  CanRun(s, d) /\ At(After(s, d), w, schema \ what, filled)
<1>1. s.op = "drop" /\ s.on = t /\ s.what = what
  BY FieldsAre
<1>2. d.schema = schema
  BY AtFields
<1>3. CanRun(s, d)
  BY <1>1, <1>2 DEF CanRun
<1>4. s # DropColumn("player_matches", "kda")
  <2> DEFINE dropped == DropColumn("player_matches", "kda")
  <2>1. dropped = [op |-> "drop", on |-> "player_matches", what |-> {KdaRequired}]
    BY KdaScripts
  <2> HIDE DEF dropped
  <2>2. dropped.what = {KdaRequired}
    BY <2>1, FieldsAre
  <2> QED
    BY <1>1, <2>2 DEF dropped
<1> DEFINE left == schema \ what
           rows == d.rows
<1>5. After(s, d) = Changed(d, left, rows)
  BY <1>1, <1>2, <1>4 DEF After, Changed
<1>6. RowsFit(rows, filled) /\ DOMAIN rows \subseteq DOMAIN d.rows
  BY AtFields
<1> HIDE DEF left, rows
<1>7. At(After(s, d), w, left, filled)
  BY <1>5, <1>6, WithRows
<1> QED
  BY <1>3, <1>7 DEF left

LEMMA EmptyDomain == DOMAIN (<<>>) = {}
OBVIOUS

LEMMA DropsTable ==
    ASSUME NEW d, NEW w, NEW schema, NEW filled, At(d, w, schema, filled),
           NEW s, NEW t, s = DropTable(t), HasTable(t, schema),
           \A e \in schema \ OfTable(t, schema) : ~(e[2] = t /\ e[3] = "foreign key")
    PROVE  /\ CanRun(s, d) /\ At(After(s, d), w, schema \ OfTable(t, schema), filled)
           /\ DOMAIN After(s, d).rows # {} => t # "player_matches" /\ w >= 4
<1>1. s.op = "drop table" /\ s.on = t
  BY FieldsAre DEF DropTable
<1>2. d.schema = schema
  BY AtFields
<1>3. CanRun(s, d)
  BY <1>1, <1>2 DEF CanRun
<1> DEFINE rows == IF t = "player_matches" THEN <<>> ELSE d.rows
           left == schema \ OfTable(t, schema)
<1>4. After(s, d) = Changed(d, left, rows)
  BY <1>1, <1>2 DEF After, Changed
<1>5. /\ DOMAIN rows \subseteq DOMAIN d.rows /\ RowsFit(rows, filled)
      /\ DOMAIN rows # {} => t # "player_matches" /\ w >= 4
  <2>1. CASE t = "player_matches"
    <3>1. DOMAIN rows = {}
      <4>1. DOMAIN rows = DOMAIN (<<>>)
        BY <2>1
      <4> HIDE DEF rows
      <4> QED
        BY <4>1, EmptyDomain
    <3> QED
      BY <3>1 DEF RowsFit
  <2>2. CASE t # "player_matches"
    BY <2>2, AtFields
  <2> QED
    BY <2>1, <2>2
<1> HIDE DEF rows, left
<1>6. DOMAIN rows \subseteq DOMAIN d.rows /\ RowsFit(rows, filled)
  BY <1>5
<1>7. At(Changed(d, left, rows), w, left, filled) /\ Changed(d, left, rows).rows = rows
  BY <1>6, WithRows
<1>8. At(After(s, d), w, left, filled) /\ After(s, d).rows = rows
  BY <1>4, <1>7
<1> QED
  BY <1>3, <1>5, <1>8 DEF left

\* Rows with the KDA that a function of the score gives.
LEMMA GivenKda ==
    ASSUME NEW rows, NEW filled, RowsFit(rows, filled), NEW kda, NEW now,
           \A s \in Scores : kda[s] = IF now THEN ServiceKda(s) ELSE Null
    PROVE  DOMAIN WithKda(rows, kda) = DOMAIN rows /\ RowsFit(WithKda(rows, kda), now)
<1> DEFINE given == WithKda(rows, kda)
<1>1. /\ DOMAIN given = DOMAIN rows
      /\ \A l \in DOMAIN rows : given[l] = [score |-> rows[l].score, kda |-> kda[rows[l].score]]
  BY DEF WithKda
<1> HIDE DEF given
<1>2. ASSUME NEW l \in DOMAIN rows
      PROVE  /\ given[l].score = rows[l].score /\ rows[l].score \in Scores
             /\ given[l].kda = kda[rows[l].score]
  BY <1>1 DEF RowsFit
<1> QED
  BY <1>1, <1>2 DEF RowsFit, given

\* The elements of the kda column.
LEMMA KdaElements ==
    /\ KdaOptional \notin SchemaAt(4) /\ KdaRequired \notin SchemaAt(4)
    /\ KdaOptional # KdaRequired
    /\ \A e \in {KdaOptional, KdaRequired} : e[1] = "player_matches" /\ e[2] = "kda"
    /\ Column("kda", SchemaAt(4)) = {}
    /\ Column("kda", SchemaAt(4) \cup {KdaOptional}) = {KdaOptional}
<1>1. /\ KdaOptional[1] = "player_matches" /\ KdaOptional[2] = "kda"
      /\ KdaOptional[3] = "null"
      /\ KdaRequired[1] = "player_matches" /\ KdaRequired[2] = "kda"
      /\ KdaRequired[3] = "not null"
  BY DEF KdaOptional, KdaRequired
<1>2. \A e \in SchemaAt(4) : e[2] # "kda"
  <2> DEFINE w == 4
  <2>1. w \in 0..4
    OBVIOUS
  <2>2. \A e \in SchemaAt(w) : e[2] # "kda"
    BY <2>1, SchemaElements
  <2> QED
    BY <2>2
<1>3. Column("kda", SchemaAt(4)) = {}
  BY <1>2 DEF Column
<1>4. Column("kda", SchemaAt(4) \cup {KdaOptional}) = {KdaOptional}
  BY <1>1, <1>2 DEF Column
<1> QED
  BY <1>1, <1>2, <1>3, <1>4

LEMMA Adds ==
    ASSUME NEW d, At(d, 4, SchemaAt(4), FALSE)
    PROVE  /\ CanRun(Upgrade[5][1], d)
           /\ At(After(Upgrade[5][1], d), 4, SchemaAt(4) \cup {KdaOptional}, FALSE)
<1> DEFINE s == Upgrade[5][1]
           added == {KdaOptional}
           t == "player_matches"
           schema == SchemaAt(4)
<1>1. s = [op |-> "create", on |-> t, what |-> added]
  BY KdaScripts
<1>2. added \cap schema = {}
  BY KdaElements
<1>3. HasTable(t, schema)
  <2>1. 4 \in 1..4 /\ 4 \in 0..4
    OBVIOUS
  <2>2. Columns(4) \subseteq schema /\ Columns(4) # {} /\ \A e \in Columns(4) : e[1] = t
    BY <2>1, SchemaColumns, Elements, TableNames
  <2> QED
    BY <2>2 DEF HasTable, OfTable
<1> HIDE DEF s, added, t, schema
<1> QED
  <2>1. At(d, 4, schema, FALSE)
    BY DEF schema
  <2>2. CanRun(s, d) /\ At(After(s, d), 4, schema \cup added, FALSE)
    BY <1>1, <1>2, <1>3, <2>1, Creates
  <2> QED
    BY <2>2 DEF s, added, schema

LEMMA Fills ==
    ASSUME NEW d, At(d, 4, SchemaAt(4) \cup {KdaOptional}, FALSE)
    PROVE  /\ CanRun(Upgrade[5][2], d)
           /\ At(After(Upgrade[5][2], d), 4, SchemaAt(4) \cup {KdaOptional}, TRUE)
<1> DEFINE s == Upgrade[5][2]
           schema == SchemaAt(4) \cup {KdaOptional}
           kda == [score \in Scores |-> BackfilledKda(score)]
           rows == WithKda(d.rows, kda)
<1>1. s.op = "fill kda"
  <2>1. s = [op |-> "fill kda", on |-> "player_matches", what |-> {}]
    BY KdaScripts DEF FillKda
  <2> HIDE DEF s
  <2> QED
    BY <2>1
<1>2. d.schema = schema /\ RowsFit(d.rows, FALSE)
  BY AtFields
<1>3. Column("kda", schema) # {}
  BY KdaElements
<1>4. \A score \in Scores : kda[score] = IF TRUE THEN ServiceKda(score) ELSE Null
  BY OneKda
<1> HIDE DEF kda
<1>5. DOMAIN rows = DOMAIN d.rows /\ RowsFit(rows, TRUE)
  BY <1>2, <1>4, GivenKda
<1> HIDE DEF s, schema
<1>6. \A l \in DOMAIN d.rows : BackfilledKda(d.rows[l].score) <= MaxKda
  BY <1>2, KdaFits DEF RowsFit
<1>7. CanRun(s, d)
  BY <1>1, <1>2, <1>3, <1>6 DEF CanRun
<1>8. After(s, d) = [d EXCEPT !.rows = rows]
  BY <1>1 DEF After, kda, rows
<1> HIDE DEF rows
<1>9. At(d, 4, schema, FALSE)
  BY DEF schema
<1>10. [d EXCEPT !.rows = rows] = Changed(d, schema, rows)
  <2> DEFINE before == d.rows
             same == [d EXCEPT !.schema = schema]
  <2>1. d = [version |-> 4, schema |-> schema, rows |-> before]
    BY <1>9 DEF At
  <2> HIDE DEF before
  <2>2. same = d
    BY <2>1
  <2>3. Changed(d, schema, rows) = [same EXCEPT !.rows = rows]
    BY DEF Changed
  <2> HIDE DEF same
  <2> QED
    BY <2>2, <2>3
<1>11. At(Changed(d, schema, rows), 4, schema, TRUE)
  BY <1>5, <1>9, WithRows
<1> QED
  BY <1>7, <1>8, <1>10, <1>11 DEF s, schema

LEMMA Requires ==
    ASSUME NEW d, At(d, 4, SchemaAt(4) \cup {KdaOptional}, TRUE)
    PROVE  /\ CanRun(Upgrade[5][3], d)
           /\ At(After(Upgrade[5][3], d), 4, SchemaAt(5), TRUE)
           /\ After(Upgrade[5][3], d).rows = d.rows
<1> DEFINE s == Upgrade[5][3]
           schema == SchemaAt(4) \cup {KdaOptional}
           t == "player_matches"
           required == {KdaRequired}
           new == (schema \ Column("kda", schema)) \cup required
<1>1. s.op = "set not null" /\ s.what = required
  <2>1. s = [op |-> "set not null", on |-> t, what |-> required]
    BY KdaScripts
  <2> HIDE DEF s, t, required
  <2> QED
    BY <2>1, FieldsAre
<1>2. d.schema = schema /\ RowsFit(d.rows, TRUE)
  BY AtFields
<1>3. Column("kda", schema) = {KdaOptional}
  BY KdaElements
<1>4. \A l \in DOMAIN d.rows : d.rows[l].kda # Null
  <2> SUFFICES ASSUME NEW l \in DOMAIN d.rows PROVE d.rows[l].kda # Null
    OBVIOUS
  <2>1. d.rows[l].score \in Scores /\ d.rows[l].kda = ServiceKda(d.rows[l].score)
    BY <1>2 DEF RowsFit
  <2>2. d.rows[l].kda \in Nat
    BY <2>1, OneKda
  <2> QED
    BY <2>2 DEF Null
<1>5. new = SchemaAt(5)
  BY <1>3, KdaElements, SchemaGrows
<1> HIDE DEF s, required
<1>6. CanRun(s, d)
  BY <1>1, <1>2, <1>3, <1>4 DEF CanRun
<1>7. After(s, d) = [d EXCEPT !.schema = new]
  BY <1>1, <1>2 DEF After
<1> HIDE DEF schema, new
<1>8. At(d, 4, schema, TRUE)
  BY DEF schema
<1>9. /\ At([d EXCEPT !.schema = new], 4, new, TRUE)
      /\ [d EXCEPT !.schema = new].rows = d.rows
  BY <1>8, WithSchema
<1> QED
  BY <1>5, <1>6, <1>7, <1>9 DEF s

LEMMA DropsKda ==
    ASSUME NEW d, At(d, 5, SchemaAt(5), TRUE)
    PROVE  /\ CanRun(Downgrade[5][1], d)
           /\ At(After(Downgrade[5][1], d), 5, SchemaAt(4), FALSE)
<1> DEFINE s == Downgrade[5][1]
           schema == SchemaAt(5)
           t == "player_matches"
           required == {KdaRequired}
           kda == [score \in Scores |-> Null]
           rows == WithKda(d.rows, kda)
           new == schema \ required
<1>1. s.op = "drop" /\ s.what = required /\ s = DropColumn("player_matches", "kda")
  <2>1. s = [op |-> "drop", on |-> t, what |-> required]
    BY KdaScripts
  <2>2. s = DropColumn("player_matches", "kda")
    BY KdaScripts
  <2> HIDE DEF s, t, required
  <2> QED
    BY <2>1, <2>2, FieldsAre
<1>2. d.schema = schema /\ RowsFit(d.rows, TRUE)
  BY AtFields
<1>3. required \subseteq schema /\ new = SchemaAt(4)
  BY KdaElements, SchemaGrows
<1>4. \A score \in Scores : kda[score] = IF FALSE THEN ServiceKda(score) ELSE Null
  OBVIOUS
<1> HIDE DEF kda
<1>5. DOMAIN rows = DOMAIN d.rows /\ RowsFit(rows, FALSE)
  BY <1>2, <1>4, GivenKda
<1> HIDE DEF s, required, schema
<1>6. CanRun(s, d)
  BY <1>1, <1>2, <1>3 DEF CanRun
<1>7. After(s, d) = Changed(d, new, rows)
  BY <1>1, <1>2 DEF After, Changed, kda, rows, new
<1> HIDE DEF rows, new
<1>8. At(d, 5, schema, TRUE)
  BY DEF schema
<1>9. At(Changed(d, new, rows), 5, new, FALSE)
  BY <1>5, <1>8, WithRows
<1> QED
  BY <1>3, <1>6, <1>7, <1>9 DEF s

\* The statements of the first four revisions, one by one.
LEMMA UpTable ==
    ASSUME NEW v \in 1..4, NEW d, Fits(d), d.version = v - 1
    PROVE  LET e == After(Upgrade[v][1], d) IN
           /\ CanRun(Upgrade[v][1], d) /\ e.version = d.version
           /\ IF v = 3 THEN Fits(Renumbered(e, v)) ELSE Midway(e, TRUE, 1)
<1> DEFINE w == v - 1
           s == Upgrade[v][1]
           schema == SchemaAt(w)
           t == Table(v)
           what == Columns(v)
           made == schema \cup what
           e == After(s, d)
<1>1. w \in 0..3 /\ w + 1 = v /\ w # 4 /\ w # 5 /\ w \in 0..4
  OBVIOUS
<1>2. At(d, w, schema, FALSE)
  BY <1>1 DEF Fits
<1>3. s = CreateTable(t, what)
  BY Scripts
<1>4. ~HasTable(t, schema)
  BY LastTable
<1>5. ASSUME NEW x \in what, x[3] = "foreign key" PROVE HasTable(x[2], schema)
  <2>1. PICK u \in 1..w : x[2] = Table(u)
    BY <1>5, Elements
  <2>2. u \in 1..4
    BY <1>1
  <2>3. Columns(u) \subseteq schema
    BY <1>1, SchemaColumns
  <2>4. Columns(u) # {} /\ \A y \in Columns(u) : y[1] = x[2]
    BY <2>1, <2>2, Elements
  <2> QED
    BY <2>3, <2>4 DEF HasTable, OfTable
<1> HIDE DEF s, schema, t, what, w
<1>6. CanRun(s, d) /\ At(e, w, made, FALSE)
  BY <1>2, <1>3, <1>4, <1>5, CreatesTable
<1>7. d.version = w
  BY DEF w
<1>8. made = SchemaAt(w) \cup Columns(v)
  BY DEF schema, what
<1> HIDE DEF e, made
<1>9. e.version = w /\ (DOMAIN e.rows # {} => w >= 4)
  BY <1>6, AtFields
<1>10. CASE v = 3
  <2>1. made = SchemaAt(v)
    BY <1>10, <1>8, SchemaGrows, IndexesAre DEF w
  <2>2. v \in 0..5 /\ (DOMAIN e.rows # {} => v >= 4) /\ FALSE = (v = 5)
    BY <1>1, <1>9
  <2>3. Fits(Renumbered(e, v))
    BY <1>6, <2>1, <2>2, WithVersion
  <2> QED
    BY <1>6, <1>7, <1>9, <1>10, <2>3 DEF s, e
<1>11. CASE v # 3
  <2> DEFINE next == 1
             last == Len(Upgrade[v]) - 1
  <2>1. next \in 1 .. last
    BY <1>11, Scripts
  <2>2. e.version \in 0..4 /\ e.version # 4 /\ e.version + 1 = v
    BY <1>1, <1>9
  <2>3. At(e, e.version, SchemaAt(e.version) \cup Columns(v), FALSE)
    BY <1>6, <1>8, <1>9
  <2> HIDE DEF next
  <2>4. Midway(e, TRUE, next)
    BY <2>1, <2>2, <2>3 DEF Midway
  <2> QED
    BY <1>6, <1>7, <1>9, <1>11, <2>4 DEF s, e, next
<1> QED
  BY <1>10, <1>11

LEMMA UpIndexes ==
    ASSUME NEW v \in {1, 2, 4}, NEW d, Midway(d, TRUE, 1), d.version = v - 1
    PROVE  LET e == After(Upgrade[v][2], d) IN
           /\ CanRun(Upgrade[v][2], d) /\ e.version = d.version
           /\ Fits(Renumbered(e, v))
<1> DEFINE w == v - 1
           s == Upgrade[v][2]
           schema == SchemaAt(w) \cup Columns(v)
           t == Table(v)
           what == Indexes(v)
           made == schema \cup what
           e == After(s, d)
<1>1. w \in 0..3 /\ w + 1 = v /\ w # 4 /\ v \in 1..4 /\ v # 3
  OBVIOUS
<1>2. At(d, w, schema, FALSE)
  BY <1>1 DEF Midway
<1>3. s = [op |-> "create", on |-> t, what |-> what] /\ Len(Upgrade[v]) = 2
  BY <1>1, Scripts
<1>4. HasTable(t, schema) /\ what \cap schema = {}
  <2> DEFINE none == {}
  <2>1. none \in SUBSET Indexes(v) /\ SchemaAt(w) \cup Columns(v) \cup none = schema
    OBVIOUS
  <2> HIDE DEF none
  <2>2. HasTable(t, SchemaAt(w) \cup Columns(v) \cup none) /\ what \cap schema = {}
    BY <1>1, <2>1, LastTable
  <2> QED
    BY <2>1, <2>2
<1>5. made = SchemaAt(v)
  BY <1>1, SchemaGrows
<1>6. d.version = w
  OBVIOUS
<1> HIDE DEF s, schema, t, what, w
<1>7. CanRun(s, d) /\ At(e, w, made, FALSE)
  BY <1>2, <1>3, <1>4, Creates
<1> HIDE DEF e, made
<1>8. e.version = w /\ (DOMAIN e.rows # {} => w >= 4)
  BY <1>7, AtFields
<1>9. v \in 0..5 /\ (DOMAIN e.rows # {} => v >= 4) /\ FALSE = (v = 5)
  BY <1>1, <1>8
<1>10. Fits(Renumbered(e, v))
  BY <1>5, <1>7, <1>9, WithVersion
<1> QED
  BY <1>6, <1>7, <1>8, <1>10 DEF s, e

LEMMA DownIndexes ==
    ASSUME NEW v \in {1, 2, 4}, NEW d, Fits(d), d.version = v
    PROVE  LET e == After(Downgrade[v][1], d) IN
           /\ CanRun(Downgrade[v][1], d) /\ e.version = d.version
           /\ Midway(e, FALSE, 1)
<1> DEFINE s == Downgrade[v][1]
           schema == SchemaAt(v)
           t == Table(v)
           what == Indexes(v)
           e == After(s, d)
<1>1. v \in 1..4 /\ v # 3 /\ v # 5
  OBVIOUS
<1>2. At(d, v, schema, FALSE)
  BY <1>1 DEF Fits
<1>3. s = [op |-> "drop", on |-> t, what |-> what] /\ Len(Downgrade[v]) = 2
  BY <1>1, Scripts
<1>4. what \subseteq schema /\ KdaRequired \notin what
  <2>1. what \subseteq schema
    BY <1>1, SchemaGrows
  <2>2. KdaRequired[2] = "kda"
    BY KdaElements
  <2> QED
    BY <1>1, <2>1, <2>2, Elements
<1> HIDE DEF s, schema, t, what
<1>5. CanRun(s, d) /\ At(e, v, schema \ what, FALSE)
  BY <1>2, <1>3, <1>4, Drops
<1> HIDE DEF e
<1>6. e.version = v
  BY <1>5, AtFields
<1>7. Midway(e, FALSE, 1)
  BY <1>5, <1>6 DEF Midway, schema, what
<1> QED
  BY <1>5, <1>6, <1>7 DEF s, e

LEMMA DownTable ==
    ASSUME NEW v \in 1..4, NEW d, d.version = v,
           IF v = 3 THEN Fits(d) ELSE Midway(d, FALSE, 1),
           NEW s, s = DropTable(Table(v))
    PROVE  LET e == After(s, d) IN
           /\ CanRun(s, d) /\ e.version = d.version
           /\ Fits(Renumbered(e, v - 1))
<1> DEFINE w == v - 1
           none == {}
           schema == SchemaAt(w) \cup Columns(v) \cup none
           t == Table(v)
           e == After(s, d)
           left == schema \ OfTable(t, schema)
<1>1. w \in 0..3 /\ v \in 1..4 /\ v - 1 = w /\ w # 5 /\ v # 5 /\ w \in 0..5
  OBVIOUS
<1>2. At(d, v, schema, FALSE)
  <2>1. CASE v = 3
    <3>1. schema = SchemaAt(v)
      BY <2>1, SchemaGrows, IndexesAre
    <3>2. At(d, v, SchemaAt(v), FALSE)
      BY <1>1, <2>1 DEF Fits
    <3> QED
      BY <3>1, <3>2
  <2>2. CASE v # 3
    <3>1. At(d, v, SchemaAt(v) \ Indexes(v), FALSE)
      BY <2>2 DEF Midway
    <3>2. Indexes(v) \cap (SchemaAt(w) \cup Columns(v)) = {}
      BY LastTable
    <3>3. SchemaAt(v) \ Indexes(v) = schema
      BY <3>2, SchemaGrows
    <3> QED
      BY <3>1, <3>3
  <2> QED
    BY <2>1, <2>2
<1>3. s = DropTable(t)
  OBVIOUS
<1>4. none \in SUBSET Indexes(v)
  OBVIOUS
<1> HIDE DEF none
<1>5. /\ HasTable(t, schema) /\ left = SchemaAt(w)
      /\ \A x \in SchemaAt(w) : ~(x[2] = t /\ x[3] = "foreign key")
  BY <1>4, LastTable
<1>6. t = "player_matches" <=> v = 4
  BY TableNames
<1> HIDE DEF schema, t, w, left
<1>7. \A x \in schema \ OfTable(t, schema) : ~(x[2] = t /\ x[3] = "foreign key")
  BY <1>5 DEF left
<1>8. /\ CanRun(s, d) /\ At(e, v, left, FALSE)
      /\ DOMAIN e.rows # {} => t # "player_matches" /\ v >= 4
  BY <1>2, <1>3, <1>5, <1>7, DropsTable DEF left
<1> HIDE DEF e
<1>9. e.version = v
  BY <1>8, AtFields
<1>10. DOMAIN e.rows # {} => w >= 4
  BY <1>6, <1>8
<1>11. FALSE = (w = 5)
  BY <1>1
<1>12. Fits(Renumbered(e, w))
  BY <1>1, <1>5, <1>8, <1>10, <1>11, WithVersion
<1> QED
  BY <1>8, <1>9, <1>12 DEF e, w

\* Between the statements of revision 0005.
LEMMA KdaMidway ==
    ASSUME NEW d
    PROVE  /\ At(d, 4, SchemaAt(4) \cup {KdaOptional}, FALSE) =>
                Midway(d, TRUE, 1) /\ d.version = 4
           /\ At(d, 4, SchemaAt(4) \cup {KdaOptional}, TRUE) =>
                Midway(d, TRUE, 2) /\ d.version = 4
<1>1. ASSUME NEW filled \in BOOLEAN, NEW done \in {1, 2}, filled = (done = 2),
             At(d, 4, SchemaAt(4) \cup {KdaOptional}, filled)
      PROVE  Midway(d, TRUE, done) /\ d.version = 4
  <2>1. d.version = 4
    BY <1>1 DEF At
  <2>2. Len(Upgrade[5]) = 3
    BY KdaScripts
  <2> DEFINE len == Len(Upgrade[5])
             v == d.version + 1
  <2>3. v = 5 /\ done \in 1 .. len - 1
    BY <2>1, <2>2
  <2>4. At(d, 4, SchemaAt(4) \cup {KdaOptional}, done = 2)
    BY <1>1
  <2> QED
    BY <2>1, <2>3, <2>4 DEF Midway
<1>2. FALSE \in BOOLEAN /\ 1 \in {1, 2} /\ FALSE = (1 = 2)
  OBVIOUS
<1>3. TRUE \in BOOLEAN /\ 2 \in {1, 2} /\ TRUE = (2 = 2)
  OBVIOUS
<1>4. At(d, 4, SchemaAt(4) \cup {KdaOptional}, FALSE) => Midway(d, TRUE, 1) /\ d.version = 4
  BY <1>1, <1>2
<1>5. At(d, 4, SchemaAt(4) \cup {KdaOptional}, TRUE) => Midway(d, TRUE, 2) /\ d.version = 4
  BY <1>1, <1>3
<1> QED
  BY <1>4, <1>5

\* Every statement of an upgrade, and of a downgrade, runs where its revision
\* comes to it, and leads to the next or to the next version.
LEMMA UpStep ==
    ASSUME NEW v \in 1..5, NEW d, d.version = v - 1, NEW done \in Nat,
           IF done = 0 THEN Fits(d) ELSE Midway(d, TRUE, done),
           NEW next, next = done + 1, NEW s, s = Upgrade[v][next],
           NEW len, len = Len(Upgrade[v])
    PROVE  LET e == After(s, d) IN
           /\ CanRun(s, d) /\ e.version = v - 1
           /\ IF next < len THEN Midway(e, TRUE, next) ELSE Fits(Renumbered(e, v))
<1> DEFINE e == After(s, d)
<1>1. CASE v # 5 /\ done = 0
  <2>1. v \in 1..4 /\ next = 1 /\ s = Upgrade[v][1] /\ len = IF v = 3 THEN 1 ELSE 2
    <3>1. v \in 1..4 /\ next = 1
      BY <1>1
    <3>2. Len(Upgrade[v]) = IF v = 3 THEN 1 ELSE 2
      BY <3>1, Scripts
    <3> QED
      BY <3>1, <3>2
  <2>2. /\ CanRun(s, d) /\ e.version = d.version
        /\ IF v = 3 THEN Fits(Renumbered(e, v)) ELSE Midway(e, TRUE, 1)
    BY <1>1, <2>1, UpTable
  <2> HIDE DEF e
  <2>3. next < len <=> v # 3
    BY <2>1
  <2> QED
    BY <2>1, <2>2, <2>3 DEF e
<1>2. CASE v # 5 /\ done # 0
  <2>1. v \in 1..4 /\ (v = 3 => len = 1) /\ (v # 3 => len = 2)
    BY <1>2, Scripts
  <2>2. Midway(d, TRUE, done)
    BY <1>2
  <2>3. d.version + 1 = v
    OBVIOUS
  <2>4. done \in 1 .. len - 1
    BY <2>2, <2>3 DEF Midway
  <2>5. v \in {1, 2, 4} /\ done = 1 /\ next = 2 /\ len = 2
    BY <2>1, <2>4
  <2>6. s = Upgrade[v][2] /\ Midway(d, TRUE, 1)
    BY <2>2, <2>5
  <2>7. ~(next < len)
    BY <2>5
  <2>8. CanRun(s, d) /\ e.version = d.version /\ Fits(Renumbered(e, v))
    BY <2>5, <2>6, UpIndexes
  <2> QED
    BY <2>8, <2>7
<1>3. CASE v = 5
  <2>1. len = 3 /\ d.version = 4
    <3>1. Len(Upgrade[5]) = 3
      BY KdaScripts
    <3>2. v - 1 = 4
      BY <1>3
    <3> QED
      BY <1>3, <3>1, <3>2
  <2>2. CASE done = 0
    <3>1. next = 1 /\ next < len
      BY <2>1, <2>2
    <3>2. At(d, 4, SchemaAt(4), FALSE)
      <4>1. Fits(d) /\ FALSE = (4 = 5)
        BY <2>2
      <4> QED
        BY <2>1, <4>1 DEF Fits
    <3>3. At(d, 4, SchemaAt(4), FALSE) /\ s = Upgrade[5][1] /\ next = 1 /\ next < len
      BY <1>3, <3>1, <3>2
    <3>4. CanRun(s, d) /\ At(e, 4, SchemaAt(4) \cup {KdaOptional}, FALSE)
      BY <3>3, Adds
    <3> HIDE DEF e
    <3>5. Midway(e, TRUE, next) /\ e.version = 4
      BY <3>3, <3>4, KdaMidway
    <3> QED
      BY <2>1, <3>3, <3>4, <3>5 DEF e
  <2>3. CASE done = 1
    <3>1. next = 2 /\ next < len
      BY <2>1, <2>3
    <3>2. s = Upgrade[5][2] /\ next = 2 /\ next < len /\ Midway(d, TRUE, 1)
      <4>1. Midway(d, TRUE, done)
        <5>1. done # 0
          BY <2>3
        <5> QED
          BY <5>1
      <4> QED
        BY <1>3, <2>3, <3>1, <4>1
    <3>3. At(d, 4, SchemaAt(4) \cup {KdaOptional}, FALSE)
      <4>1. FALSE = (1 = 2)
        OBVIOUS
      <4>2. At(d, 4, SchemaAt(4) \cup {KdaOptional}, 1 = 2)
        BY <2>1, <3>2 DEF Midway
      <4> QED
        BY <4>1, <4>2
    <3>4. CanRun(s, d) /\ At(e, 4, SchemaAt(4) \cup {KdaOptional}, TRUE)
      BY <3>2, <3>3, Fills
    <3> HIDE DEF e
    <3>5. Midway(e, TRUE, next) /\ e.version = 4
      BY <3>2, <3>4, KdaMidway
    <3> QED
      BY <2>1, <3>2, <3>4, <3>5 DEF e
  <2>4. CASE done = 2
    <3>1. next = 3 /\ ~(next < len)
      BY <2>1, <2>4
    <3>2. s = Upgrade[5][3] /\ ~(next < len) /\ Midway(d, TRUE, 2)
      <4>1. Midway(d, TRUE, done)
        <5>1. done # 0
          BY <2>4
        <5> QED
          BY <5>1
      <4> QED
        BY <1>3, <2>4, <3>1, <4>1
    <3>3. At(d, 4, SchemaAt(4) \cup {KdaOptional}, TRUE)
      <4>1. TRUE = (2 = 2)
        OBVIOUS
      <4>2. At(d, 4, SchemaAt(4) \cup {KdaOptional}, 2 = 2)
        BY <2>1, <3>2 DEF Midway
      <4> QED
        BY <4>1, <4>2
    <3>4. CanRun(s, d) /\ At(e, 4, SchemaAt(5), TRUE)
      BY <3>2, <3>3, Requires
    <3> HIDE DEF e
    <3>5. e.version = 4
      BY <3>4, AtFields
    <3>6. 5 \in 0..5 /\ (DOMAIN e.rows # {} => 5 >= 4) /\ TRUE = (5 = 5)
      OBVIOUS
    <3>7. Fits(Renumbered(e, 5))
      BY <3>4, <3>6, WithVersion
    <3> QED
      BY <1>3, <2>1, <3>2, <3>4, <3>5, <3>7 DEF e
  <2>5. CASE done \notin {0, 1, 2}
    <3>1. Midway(d, TRUE, done)
      BY <2>5
    <3>2. d.version + 1 = 5
      BY <2>1
    <3>3. done \in 1 .. len - 1
      BY <1>3, <3>1, <3>2 DEF Midway
    <3> QED
      BY <2>1, <2>5, <3>3
  <2> QED
    BY <2>2, <2>3, <2>4, <2>5
<1> QED
  BY <1>1, <1>2, <1>3

LEMMA DownStep ==
    ASSUME NEW v \in 1..5, NEW d, d.version = v, NEW done \in Nat,
           IF done = 0 THEN Fits(d) ELSE Midway(d, FALSE, done),
           NEW next, next = done + 1, NEW s, s = Downgrade[v][next],
           NEW len, len = Len(Downgrade[v])
    PROVE  LET e == After(s, d) IN
           /\ CanRun(s, d) /\ e.version = v
           /\ IF next < len THEN Midway(e, FALSE, next) ELSE Fits(Renumbered(e, v - 1))
<1> DEFINE e == After(s, d)
<1>1. CASE v = 5
  <2>1. done = 0
    BY <1>1 DEF Midway
  <2>2. len = 1 /\ s = Downgrade[5][1] /\ ~(next < len)
    <3>1. Len(Downgrade[5]) = 1
      BY KdaScripts
    <3>2. next = 1
      BY <2>1
    <3>3. len = 1 /\ s = Downgrade[5][1]
      BY <1>1, <3>1, <3>2
    <3> QED
      BY <3>2, <3>3
  <2>3. At(d, 5, SchemaAt(5), TRUE)
    BY <1>1, <2>1 DEF Fits
  <2>4. CanRun(s, d) /\ At(e, 5, SchemaAt(4), FALSE)
    BY <2>2, <2>3, DropsKda
  <2> HIDE DEF e
  <2>5. e.version = 5
    BY <2>4, AtFields
  <2>6. 4 \in 0..5 /\ (DOMAIN e.rows # {} => 4 >= 4) /\ FALSE = (4 = 5)
    OBVIOUS
  <2>7. Fits(Renumbered(e, 4))
    BY <2>4, <2>6, WithVersion
  <2>8. v - 1 = 4
    BY <1>1
  <2> QED
    BY <1>1, <2>2, <2>4, <2>5, <2>7, <2>8 DEF e
<1>2. CASE v \in {1, 2, 4} /\ done = 0
  <2>1. /\ v \in 1..4 /\ v # 3 /\ next = 1 /\ s = Downgrade[v][1] /\ len = 2
        /\ next < len
    BY <1>2, Scripts
  <2>2. CanRun(s, d) /\ e.version = d.version /\ Midway(e, FALSE, 1)
    BY <1>2, <2>1, DownIndexes
  <2> QED
    BY <2>1, <2>2
<1>3. CASE v # 5 /\ (v = 3 \/ done # 0)
  <2>1. v \in 1..4
    BY <1>3
  <2>2. IF v = 3 THEN done = 0 /\ Fits(d) ELSE done = 1 /\ Midway(d, FALSE, 1)
    BY <1>3 DEF Midway
  <2>3. s = DropTable(Table(v)) /\ len = next
    <3>1. CASE v = 3
      <4>1. next = 1
        BY <2>2, <3>1
      <4>2. Downgrade[v][1] = DropTable(Table(v)) /\ Len(Downgrade[v]) = 1
        BY <2>1, <3>1, Scripts
      <4> QED
        BY <4>1, <4>2
    <3>2. CASE v # 3
      <4>1. next = 2
        BY <2>2, <3>2
      <4>2. Downgrade[v][2] = DropTable(Table(v)) /\ Len(Downgrade[v]) = 2
        BY <2>1, <3>2, Scripts
      <4> QED
        BY <4>1, <4>2
    <3> QED
      BY <3>1, <3>2
  <2>4. ~(next < len)
    BY <2>3
  <2>5. CanRun(s, d) /\ e.version = d.version /\ Fits(Renumbered(e, v - 1))
    BY <2>1, <2>2, <2>3, DownTable
  <2> QED
    BY <2>4, <2>5
<1>4. v = 5 \/ v = 3 \/ v \in {1, 2, 4}
  OBVIOUS
<1> QED
  BY <1>1, <1>2, <1>3, <1>4

------------------------------------------------------------------------------
\* The invariant

\* A migration is at some statement of a revision on the way to its target.
Worked ==
    /\ work = [running |-> TRUE, target |-> work.target, done |-> work.done,
               data |-> work.data]
    /\ work.target \in 0..5 /\ work.done \in Nat
    /\ IF work.done = 0 THEN Fits(work.data)
       ELSE /\ work.data.version # work.target
            /\ Midway(work.data, GoesUp, work.done)

ServedAtLatest ==
    /\ api = "serving" => ~work.running /\ db.version = 5
    /\ api = "migrating" => work.running /\ work.target = 5

MInv == Fits(db) /\ (work = Idle \/ Worked) /\ ServedAtLatest

LEMMA InitMInv == Init => MInv
<1> SUFFICES ASSUME Init PROVE MInv
  OBVIOUS
<1>1. PICK v \in Versions : db \in [version : {v}, schema : {SchemaAt(v)}, rows : Rows(v)]
  BY DEF Init, Databases
<1>2. v \in 0..5 /\ Latest = 5
  BY Revisions DEF Versions
<1> DEFINE schema == SchemaAt(v)
           filled == v = 5
           rows == db.rows
<1>3. rows \in Rows(v) /\ db = [version |-> v, schema |-> schema, rows |-> rows]
  <2> DEFINE all == Rows(v)
  <2> HIDE DEF all, schema
  <2>1. db \in [version : {v}, schema : {schema}, rows : all]
    BY <1>1 DEF all, schema
  <2>2. db.version = v /\ db.schema = schema /\ db.rows \in all
    BY <2>1
  <2>3. db = [version |-> db.version, schema |-> db.schema, rows |-> db.rows]
    BY <2>1
  <2> QED
    BY <2>2, <2>3 DEF all
<1>4. PICK D \in IF v < 4 THEN {{}} ELSE SUBSET Links :
        rows \in [D -> {[score |-> s, kda |-> IF v = Latest THEN ServiceKda(s) ELSE Null] :
                          s \in Scores}]
  BY <1>3 DEF Rows
<1> HIDE DEF schema, rows
<1>5. DOMAIN rows = D /\ (D # {} => v >= 4)
  BY <1>2, <1>4
<1>6. RowsFit(rows, filled)
  <2> SUFFICES ASSUME NEW l \in D
               PROVE  /\ rows[l].score \in Scores
                      /\ rows[l].kda = IF filled THEN ServiceKda(rows[l].score) ELSE Null
    BY <1>5 DEF RowsFit
  <2>1. PICK s \in Scores :
          rows[l] = [score |-> s, kda |-> IF v = Latest THEN ServiceKda(s) ELSE Null]
    BY <1>4
  <2> DEFINE kda == IF v = Latest THEN ServiceKda(s) ELSE Null
  <2> HIDE DEF kda
  <2>2. rows[l] = [score |-> s, kda |-> kda]
    BY <2>1 DEF kda
  <2>3. rows[l].score = s /\ rows[l].kda = kda
    BY <2>2
  <2> QED
    BY <1>2, <2>3 DEF kda
<1>7. db.version = v /\ db.schema = schema
  BY <1>3
<1>8. At(db, v, schema, filled)
  BY <1>3, <1>5, <1>6 DEF At, rows
<1>9. Fits(db)
  BY <1>2, <1>7, <1>8 DEF Fits, schema
<1>10. work = Idle /\ ServedAtLatest
  BY DEF Init, ServedAtLatest
<1> QED
  BY <1>9, <1>10 DEF MInv

\* The record of a running migration.
LEMMA WorkIs ==
    ASSUME NEW r, NEW t, NEW n, NEW d,
           NEW w, w = [running |-> r, target |-> t, done |-> n, data |-> d], NEW e, NEW m
    PROVE  [w EXCEPT !.data = e, !.done = m] =
             [running |-> r, target |-> t, done |-> m, data |-> e]
<1> DEFINE between == [w EXCEPT !.data = e]
<1>1. between = [running |-> r, target |-> t, done |-> n, data |-> e]
  OBVIOUS
<1>2. [w EXCEPT !.data = e, !.done = m] = [between EXCEPT !.done = m]
  OBVIOUS
<1> HIDE DEF between
<1>3. [between EXCEPT !.done = m] = [running |-> r, target |-> t, done |-> m, data |-> e]
  BY <1>1
<1> QED
  BY <1>2, <1>3

LEMMA MidwayVersion ==
    ASSUME NEW d, NEW up, NEW done, Midway(d, up, done)
    PROVE  d.version \in 0..5
<1>1. CASE up
  BY <1>1 DEF Midway
<1>2. CASE ~up
  BY <1>2 DEF Midway
<1> QED
  BY <1>1, <1>2

\* Where the migration is, its statement runs and leads on.
LEMMA Runs ==
    ASSUME Worked, Migrating
    PROVE  LET d == work.data
               e == After(NextStatement, d) IN
           /\ CanRun(NextStatement, d) /\ e.version = d.version
           /\ IF work.done + 1 < Len(Script) THEN Midway(e, GoesUp, work.done + 1)
              ELSE Fits(Renumbered(e, IF GoesUp THEN d.version + 1 ELSE d.version - 1))
<1> DEFINE d == work.data
           e == After(NextStatement, d)
           done == work.done
           next == done + 1
           s == NextStatement
           len == Len(Script)
<1>1. d.version \in 0..5 /\ work.target \in 0..5 /\ done \in Nat /\ d.version # work.target
  <2>1. d.version \in 0..5
    <3>1. CASE done = 0
      BY <3>1 DEF Worked, Fits
    <3>2. CASE done # 0
      <4>1. Midway(d, GoesUp, done)
        BY <3>2 DEF Worked
      <4> HIDE DEF d, done
      <4> QED
        BY <4>1, MidwayVersion
    <3> QED
      BY <3>1, <3>2
  <2> QED
    BY <2>1 DEF Worked, Migrating
<1>2. CASE GoesUp
  <2> DEFINE v == d.version + 1
  <2>1. v \in 1..5 /\ d.version = v - 1
    BY <1>1, <1>2 DEF GoesUp
  <2>2. IF done = 0 THEN Fits(d) ELSE Midway(d, TRUE, done)
    BY <1>2 DEF Worked
  <2>3. Script = Upgrade[v] /\ s = Upgrade[v][next] /\ len = Len(Upgrade[v])
    BY <1>2 DEF Script, NextStatement
  <2> HIDE DEF d, done, s, len, v
  <2>4. next = done + 1
    OBVIOUS
  <2> HIDE DEF next
  <2>5. /\ CanRun(s, d) /\ After(s, d).version = v - 1
        /\ IF next < len THEN Midway(After(s, d), TRUE, next) ELSE Fits(Renumbered(After(s, d), v))
    <3>1. done \in Nat
      BY <1>1
    <3>2. CanRun(s, d)
      BY <2>1, <2>2, <2>3, <2>4, <3>1, UpStep
    <3>3. After(s, d).version = v - 1
      BY <2>1, <2>2, <2>3, <2>4, <3>1, UpStep
    <3>4. IF next < len THEN Midway(After(s, d), TRUE, next)
          ELSE Fits(Renumbered(After(s, d), v))
      BY <2>1, <2>2, <2>3, <2>4, <3>1, UpStep
    <3> QED
      BY <3>2, <3>3, <3>4
  <2>6. GoesUp = TRUE
    BY <1>2
  <2>7. /\ CanRun(s, d) /\ After(s, d).version = d.version
        /\ IF next < len THEN Midway(After(s, d), GoesUp, next)
           ELSE Fits(Renumbered(After(s, d), IF GoesUp THEN d.version + 1 ELSE d.version - 1))
    BY <2>1, <2>5, <2>6 DEF v
  <2> QED
    BY <2>7 DEF d, done, s, len, next
<1>3. CASE ~GoesUp
  <2> DEFINE v == d.version
  <2>1. v \in 1..5
    BY <1>1, <1>3 DEF GoesUp
  <2>2. IF done = 0 THEN Fits(d) ELSE Midway(d, FALSE, done)
    <3>1. GoesUp = FALSE
      BY <1>3 DEF GoesUp
    <3> QED
      BY <3>1 DEF Worked
  <2>3. Script = Downgrade[v] /\ s = Downgrade[v][next] /\ len = Len(Downgrade[v])
    BY <1>3 DEF Script, NextStatement
  <2>4. next = done + 1 /\ d.version = v
    OBVIOUS
  <2> HIDE DEF d, done, s, len, v, next
  <2>5. /\ CanRun(s, d) /\ After(s, d).version = v
        /\ IF next < len THEN Midway(After(s, d), FALSE, next)
           ELSE Fits(Renumbered(After(s, d), v - 1))
    <3>1. done \in Nat
      BY <1>1
    <3>2. CanRun(s, d)
      BY <2>1, <2>2, <2>3, <2>4, <3>1, DownStep
    <3>3. After(s, d).version = v
      BY <2>1, <2>2, <2>3, <2>4, <3>1, DownStep
    <3>4. IF next < len THEN Midway(After(s, d), FALSE, next)
          ELSE Fits(Renumbered(After(s, d), v - 1))
      BY <2>1, <2>2, <2>3, <2>4, <3>1, DownStep
    <3> QED
      BY <3>2, <3>3, <3>4
  <2>6. GoesUp = FALSE
    BY <1>3 DEF GoesUp
  <2>7. /\ CanRun(s, d) /\ After(s, d).version = d.version
        /\ IF next < len THEN Midway(After(s, d), GoesUp, next)
           ELSE Fits(Renumbered(After(s, d), IF GoesUp THEN d.version + 1 ELSE d.version - 1))
    BY <2>1, <2>4, <2>5, <2>6
  <2> QED
    BY <2>7 DEF d, done, s, len, next
<1> QED
  BY <1>2, <1>3

\* A running migration, put together from its parts.
LEMMA WorkedIf ==
    ASSUME NEW t \in 0..5, NEW n \in Nat, NEW d,
           IF n = 0 THEN Fits(d) ELSE d.version # t /\ Midway(d, d.version < t, n),
           work' = [running |-> TRUE, target |-> t, done |-> n, data |-> d]
    PROVE  Worked' /\ work'.running /\ work'.target = t
<1>1. work'.target = t /\ work'.done = n /\ work'.data = d /\ work'.running
  <2> DEFINE r == TRUE
             w == work'
  <2>1. w = [running |-> r, target |-> t, done |-> n, data |-> d]
    OBVIOUS
  <2> HIDE DEF r, w
  <2>2. w.target = t /\ w.done = n /\ w.data = d
    BY <2>1
  <2>3. w.running = r
    BY <2>1
  <2> QED
    BY <2>2, <2>3 DEF r, w
<1>2. (GoesUp)' = (d.version < t)
  BY <1>1 DEF GoesUp
<1>3. work' = [running |-> TRUE, target |-> work'.target, done |-> work'.done,
               data |-> work'.data]
  BY <1>1
<1>4. IF work'.done = 0 THEN Fits(work'.data)
      ELSE work'.data.version # work'.target /\ Midway(work'.data, (GoesUp)', work'.done)
  BY <1>1, <1>2
<1> QED
  BY <1>1, <1>3, <1>4 DEF Worked

LEMMA IdleIs == ~Idle.running
BY DEF Idle

LEMMA Starts ==
    ASSUME MInv, NEW t \in 0..5, Start(t)
    PROVE  Worked' /\ work'.running /\ work'.target = t
<1>1. work' = [running |-> TRUE, target |-> t, done |-> 0, data |-> db] /\ Fits(db)
  BY DEF MInv, Start
<1> DEFINE n == 0
<1>2. n \in Nat /\ n = 0
  OBVIOUS
<1> HIDE DEF n
<1>3. work' = [running |-> TRUE, target |-> t, done |-> n, data |-> db]
  BY <1>1, <1>2
<1> QED
  BY <1>1, <1>2, <1>3, WorkedIf

LEMMA StatementKeeps ==
    ASSUME MInv, Statement
    PROVE  MInv'
<1>1. Worked /\ Migrating /\ work.running
  BY IdleIs DEF MInv, Statement, Migrating
<1> DEFINE t == work.target
           n == work.done
           d == work.data
           e == After(NextStatement, d)
           next == n + 1
           up == GoesUp
           v == IF up THEN d.version + 1 ELSE d.version - 1
           more == next < Len(Script)
           r == TRUE
<1>2. /\ e.version = d.version
      /\ IF more THEN Midway(e, up, next) ELSE Fits(Renumbered(e, v))
  BY <1>1, Runs
<1>3. /\ work = [running |-> r, target |-> t, done |-> n, data |-> d]
      /\ t \in 0..5 /\ n \in Nat /\ next \in Nat /\ next # 0 /\ d.version # t
  BY <1>1 DEF Worked, Migrating
<1>4. UNCHANGED <<db, api, faults>>
  BY DEF Statement
<1>5. work' = IF more THEN [work EXCEPT !.data = e, !.done = next]
              ELSE [work EXCEPT !.data = Renumbered(e, v), !.done = 0]
  <2>1. work' = IF more THEN [work EXCEPT !.data = e, !.done = @ + 1]
                ELSE [work EXCEPT !.data = [e EXCEPT !.version = IF up THEN @ + 1 ELSE @ - 1],
                                  !.done = 0]
    BY DEF Statement
  <2>2. [e EXCEPT !.version = IF up THEN @ + 1 ELSE @ - 1] = Renumbered(e, v)
    BY <1>2 DEF Renumbered
  <2>3. [work EXCEPT !.data = e, !.done = @ + 1] = [work EXCEPT !.data = e, !.done = next]
    OBVIOUS
  <2> QED
    BY <2>1, <2>2, <2>3
<1>6. up = (d.version < t)
  BY DEF GoesUp
<1> HIDE DEF t, n, d, e, next, up, v, more, r
<1>7. Worked' /\ work'.running /\ work'.target = t
  <2>1. CASE more
    <3>1. work' = [running |-> r, target |-> t, done |-> next, data |-> e]
      BY <1>3, <1>5, <2>1, WorkIs
    <3>2. work' = [running |-> TRUE, target |-> t, done |-> next, data |-> e]
      BY <3>1 DEF r
    <3>3. up = (e.version < t) /\ e.version # t /\ Midway(e, up, next)
      BY <1>2, <1>3, <1>6, <2>1
    <3>4. IF next = 0 THEN Fits(e) ELSE e.version # t /\ Midway(e, e.version < t, next)
      BY <1>3, <3>3
    <3> QED
      BY <1>3, <3>2, <3>4, WorkedIf
  <2>2. CASE ~more
    <3> DEFINE new == Renumbered(e, v)
               zero == 0
    <3>1. work' = [work EXCEPT !.data = new, !.done = zero] /\ Fits(new)
      BY <1>2, <1>5, <2>2
    <3>2. zero = 0 /\ zero \in Nat
      OBVIOUS
    <3> HIDE DEF new, zero
    <3>3. work' = [running |-> r, target |-> t, done |-> zero, data |-> new]
      BY <1>3, <3>1, WorkIs
    <3>4. work' = [running |-> TRUE, target |-> t, done |-> zero, data |-> new]
      BY <3>3 DEF r
    <3> QED
      BY <1>3, <3>1, <3>2, <3>4, WorkedIf
  <2> QED
    BY <2>1, <2>2
<1>8. ServedAtLatest'
  <2>1. ServedAtLatest /\ work.running /\ work.target = t
    BY <1>1 DEF MInv, t
  <2>2. api # "serving" /\ (api = "migrating" => t = 5)
    BY <2>1 DEF ServedAtLatest
  <2> QED
    BY <1>4, <1>7, <2>2 DEF ServedAtLatest
<1>9. Fits(db')
  BY <1>4 DEF MInv
<1> QED
  BY <1>7, <1>8, <1>9 DEF MInv

\* What a migration has reached its target with.
LEMMA Reached ==
    ASSUME MInv, work.running, ~Migrating
    PROVE  Fits(work.data) /\ work.data.version = work.target
<1>1. Worked
  BY IdleIs DEF MInv
<1> QED
  BY <1>1 DEF Worked, Migrating

LEMMA ProceedKeeps ==
    ASSUME MInv,
           \/ StartContainer \/ OperatorDowngrades
           \/ Commit \/ MigrationFails \/ CommitUnconfirmed \/ Crash \/ StopContainer
    PROVE  MInv'
<1> USE DEF MInv
<1>1. CASE StartContainer
  <2>1. Latest \in 0..5 /\ Latest = 5
    BY Revisions
  <2>2. Worked' /\ work'.running /\ work'.target = 5
    BY <1>1, <2>1, Starts DEF StartContainer
  <2>3. api' = "migrating" /\ db' = db
    BY <1>1 DEF StartContainer
  <2> QED
    BY <2>2, <2>3 DEF ServedAtLatest
<1>2. CASE OperatorDowngrades
  <2>1. PICK v \in 0 .. db.version - 1 : Start(v)
    BY <1>2 DEF OperatorDowngrades
  <2>2. v \in 0..5
    BY DEF Fits
  <2>3. Worked' /\ work'.running /\ work'.target = v
    BY <2>1, <2>2, Starts
  <2>4. api' = "down" /\ db' = db
    BY <1>2 DEF OperatorDowngrades
  <2> QED
    BY <2>3, <2>4 DEF ServedAtLatest
<1>3. CASE Commit
  <2>1. db' = work.data /\ work' = Idle /\ api' = IF api = "migrating" THEN "serving" ELSE api
    BY <1>3 DEF Commit
  <2>2. Fits(work.data) /\ work.data.version = work.target /\ work.running
    BY <1>3, Reached DEF Commit
  <2>3. ServedAtLatest'
    BY <2>1, <2>2, IdleIs DEF ServedAtLatest
  <2> QED
    BY <2>1, <2>2, <2>3
<1>4. CASE MigrationFails
  <2>1. /\ db' = db /\ work' = Idle /\ work.running
        /\ api' = IF api = "migrating" THEN "failed" ELSE api
    BY <1>4 DEF MigrationFails, RolledBack
  <2> QED
    BY <2>1, IdleIs DEF ServedAtLatest
<1>5. CASE CommitUnconfirmed
  <2>1. db' = work.data /\ work' = Idle /\ api' = IF api = "migrating" THEN "failed" ELSE api
    BY <1>5 DEF CommitUnconfirmed
  <2>2. Fits(work.data) /\ work.running
    BY <1>5, Reached DEF CommitUnconfirmed
  <2>3. ServedAtLatest'
    BY <2>1, <2>2, IdleIs DEF ServedAtLatest
  <2> QED
    BY <2>1, <2>2, <2>3
<1>6. CASE Crash
  <2>1. db' = db /\ work' = Idle /\ api' = "down"
    BY <1>6 DEF Crash, RolledBack
  <2> QED
    BY <2>1, IdleIs DEF ServedAtLatest
<1>7. CASE StopContainer
  <2>1. db' = db /\ work' = work /\ api' = "down"
    BY <1>7 DEF StopContainer
  <2>2. Worked => Worked'
    BY <2>1 DEF Worked, GoesUp
  <2> QED
    BY <2>1, <2>2, IdleIs DEF ServedAtLatest
<1> QED
  BY <1>1, <1>2, <1>3, <1>4, <1>5, <1>6, <1>7

LEMMA StoreRowKeeps ==
    ASSUME MInv, NEW l \in Links, NEW s \in Scores, StoreRow(l, s)
    PROVE  MInv'
<1> DEFINE rows == db.rows
           schema == db.schema
           kda == ServiceKda(s)
           new == [score |-> s, kda |-> kda]
           stored == [k \in DOMAIN rows \cup {l} |-> IF k = l THEN new ELSE rows[k]]
<1>1. api = "serving" /\ db.version = 5 /\ UNCHANGED <<work, api, faults>> /\ ~work.running
  BY DEF StoreRow, MInv, ServedAtLatest
<1>2. db' = [db EXCEPT !.rows = stored]
  BY DEF StoreRow
<1>3. At(db, 5, SchemaAt(5), TRUE)
  <2>1. TRUE = (5 = 5) /\ Fits(db)
    BY DEF MInv
  <2> QED
    BY <1>1, <2>1 DEF Fits
<1>4. db = [version |-> 5, schema |-> schema, rows |-> rows] /\ schema = SchemaAt(5)
      /\ RowsFit(rows, TRUE)
  <2> DEFINE latest == SchemaAt(5)
  <2> HIDE DEF latest
  <2>1. At(db, 5, latest, TRUE)
    BY <1>3 DEF latest
  <2>2. db.version = 5 /\ db.schema = latest /\ RowsFit(db.rows, TRUE)
    BY <2>1, AtFields
  <2>3. db = [version |-> 5, schema |-> latest, rows |-> db.rows]
    BY <2>1 DEF At
  <2> QED
    BY <2>2, <2>3 DEF latest
<1> HIDE DEF rows, schema
<1>5. RowsFit(stored, TRUE)
  <2> HIDE DEF kda
  <2>1. new.score = s /\ new.kda = kda
    OBVIOUS
  <2> HIDE DEF new
  <2>2. ASSUME NEW k \in DOMAIN rows \cup {l}
        PROVE  stored[k].score \in Scores /\ stored[k].kda = ServiceKda(stored[k].score)
    <3>1. CASE k = l
      BY <2>1, <3>1 DEF kda
    <3>2. CASE k # l
      BY <1>4, <3>2 DEF RowsFit
    <3> QED
      BY <3>1, <3>2
  <2>3. DOMAIN stored = DOMAIN rows \cup {l}
    OBVIOUS
  <2> HIDE DEF stored
  <2> QED
    BY <2>2, <2>3 DEF RowsFit
<1> HIDE DEF stored
<1>6. db' = [version |-> 5, schema |-> schema, rows |-> stored]
  BY <1>2, <1>4
<1>7. db'.version = 5 /\ db'.rows = stored
  BY <1>6
<1>8. At(db', 5, SchemaAt(5), TRUE)
  <2> DEFINE after == db'
  <2>1. after = [version |-> 5, schema |-> schema, rows |-> after.rows]
    BY <1>6, <1>7
  <2>2. RowsFit(after.rows, TRUE)
    BY <1>5, <1>7
  <2>3. DOMAIN after.rows # {} => 5 >= 4
    OBVIOUS
  <2> HIDE DEF after
  <2>4. At(after, 5, schema, TRUE)
    BY <2>1, <2>2, <2>3 DEF At
  <2> QED
    BY <1>4, <2>4 DEF after
<1>9. Fits(db')
  <2>1. TRUE = (5 = 5) /\ 5 \in 0..5
    OBVIOUS
  <2> QED
    BY <1>7, <1>8, <2>1 DEF Fits
<1>10. work' = Idle /\ ServedAtLatest'
  <2>1. work = Idle
    BY <1>1 DEF MInv, Worked
  <2> QED
    BY <1>1, <1>7, <2>1, IdleIs DEF ServedAtLatest
<1> QED
  BY <1>9, <1>10 DEF MInv

LEMMA MInvariance == Spec => []MInv
<1>1. ASSUME MInv, [Next]_vars PROVE MInv'
  <2>1. CASE Statement
    BY <1>1, <2>1, StatementKeeps
  <2>2. CASE \E l \in Links, s \in Scores : StoreRow(l, s)
    BY <1>1, <2>2, StoreRowKeeps
  <2>3. CASE UNCHANGED vars
    BY <1>1, <2>3 DEF MInv, vars, Worked, ServedAtLatest, GoesUp
  <2> QED
    BY <1>1, <2>1, <2>2, <2>3, ProceedKeeps DEF Next
<1> QED
  BY <1>1, InitMInv, PTL DEF Spec

------------------------------------------------------------------------------
\* Theorems

\* PostgreSQL never rejects a statement of a migration: wherever downgrades,
\* crashes and failed migrations have left the database, every statement finds
\* the tables, columns and values it needs, the NOT NULL of revision 0005 with
\* them (0005_add_kda_to_player_matches.py:35).
THEOREM MigrationsRun == Spec => []NoStatementFails
<1>1. MInv => NoStatementFails
  <2> SUFFICES ASSUME MInv, Migrating PROVE CanRun(NextStatement, work.data)
    BY DEF NoStatementFails, Rejected
  <2>1. Worked
    BY IdleIs DEF MInv, Migrating
  <2> QED
    BY <2>1, Runs
<1> QED
  BY <1>1, MInvariance, PTL

\* The stored version is the truth about the schema and the rows: a downgrade
\* takes back what its upgrade made and nothing else, and what is interrupted
\* between two statements is not committed (env.py:41).
THEOREM VersionIsTheTruth == Spec => []VersionTellsSchema
<1>1. MInv => VersionTellsSchema
  <2> SUFFICES ASSUME MInv PROVE VersionTellsSchema
    OBVIOUS
  <2> DEFINE v == db.version
             filled == v = 5
  <2>1. v \in 0..5 /\ At(db, v, SchemaAt(v), filled)
    BY DEF MInv, Fits
  <2> HIDE DEF v, filled
  <2>2. /\ db.schema = SchemaAt(v)
        /\ DOMAIN db.rows # {} => v >= 4
        /\ RowsFit(db.rows, filled)
    BY <2>1, AtFields
  <2>3. ASSUME NEW l \in DOMAIN db.rows
        PROVE  (db.rows[l].kda # Null) <=> filled
    <3>1. /\ db.rows[l].score \in Scores
          /\ db.rows[l].kda = IF filled THEN ServiceKda(db.rows[l].score) ELSE Null
      BY <2>2 DEF RowsFit
    <3>2. ServiceKda(db.rows[l].score) \in Nat
      BY <3>1, OneKda
    <3>3. ServiceKda(db.rows[l].score) # Null
      BY <3>2 DEF Null
    <3> QED
      BY <3>1, <3>3
  <2> QED
    BY <2>2, <2>3, Revisions DEF VersionTellsSchema, v, filled
<1> QED
  BY <1>1, MInvariance, PTL

\* The service serves the tables its models declare, and only those
\* (docker-compose.yml:35).
THEOREM ServedSchemaIsTheModels == Spec => []ServesItsModels
<1>1. MInv => ServesItsModels
  <2> SUFFICES ASSUME MInv, api = "serving" PROVE db.schema = ModelSchema
    BY DEF ServesItsModels
  <2>1. db.version = 5 /\ Fits(db)
    BY DEF MInv, ServedAtLatest
  <2>2. db.schema = SchemaAt(5)
    <3> DEFINE v == db.version
               filled == v = 5
    <3>1. At(db, v, SchemaAt(v), filled) /\ v = 5
      BY <2>1 DEF Fits
    <3> HIDE DEF v, filled
    <3>2. db.schema = SchemaAt(v)
      BY <3>1, AtFields
    <3> QED
      BY <3>1, <3>2
  <2> QED
    BY <2>2, ModelsAreLatest, Revisions
<1> QED
  BY <1>1, MInvariance, PTL

\* At the head every stored KDA is the service's, for any kills, deaths and
\* assists: the Decimal arithmetic of the mapper and the ROUND of revision 0005
\* agree in all their digits.
THEOREM OneKdaIsStored == Spec => []KdaIsTheServices
<1>1. MInv => KdaIsTheServices
  <2> SUFFICES ASSUME MInv, db.version = Latest, NEW l \in DOMAIN db.rows
               PROVE  db.rows[l].kda = ServiceKda(db.rows[l].score)
    BY DEF KdaIsTheServices
  <2>1. db.version = 5 /\ Fits(db)
    BY Revisions DEF MInv
  <2> DEFINE v == db.version
             filled == v = 5
  <2>2. At(db, v, SchemaAt(v), filled) /\ filled
    BY <2>1 DEF Fits
  <2> HIDE DEF v, filled
  <2>3. RowsFit(db.rows, filled)
    BY <2>2, AtFields
  <2> QED
    BY <2>2, <2>3 DEF RowsFit
<1> QED
  BY <1>1, MInvariance, PTL
=============================================================================
