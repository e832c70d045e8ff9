-------------------------- MODULE PlayerReadProofs --------------------------
(***************************************************************************)
(* Theorems about PlayerRead for any players, refreshes and reads, with    *)
(* proofs checked by TLAPS.                                                *)
(***************************************************************************)
EXTENDS PlayerRead, FiniteSetTheorems, TLAPS

----------------------------------------------------------------------------
(* What the SELECTs return *)

LEMMA SelectsLengths ==
  /\ Len(Selects["search"]) = 1 /\ Selects["search"][1] = "by_riot_id"
  /\ Len(Selects["profile"]) = 2
  /\ Selects["profile"][1] = "by_puuid" /\ Selects["profile"][2] = "ranked"
  /\ Len(Selects["matches"]) = 2
  /\ Selects["matches"][1] = "by_puuid" /\ Selects["matches"][2] = "matches"
  /\ Len(Selects["champions"]) = 2
  /\ Selects["champions"][1] = "by_puuid" /\ Selects["champions"][2] = "champions"
BY DEF Selects

(* A page is a sequence of matches. *)
LEMMA PageType ==
  ASSUME matches \subseteq Matches, NEW p, NEW limit \in Nat,
         NEW page \in Listings(Joined(p), limit, MatchKey)
  PROVE  page \in Seq(Matches)
<1>1. Joined(p) \subseteq Matches /\ IsFiniteSet(Joined(p))
  BY FiniteAssumption, FS_Subset DEF Joined
<1>2. Cardinality(Joined(p)) \in Nat
  BY <1>1, FS_CardinalityType
<1>3. PICK k \in Nat : page \in [1 .. k -> Joined(p)]
  BY <1>2 DEF Listings
<1> QED
  BY <1>1, <1>3

LEMMA GamesFinite ==
  ASSUME matches \subseteq Matches, NEW p, NEW c
  PROVE  Cardinality(Games(p, c)) \in Nat /\ Wins(p, c) \in Nat
<1>1. IsFiniteSet(Games(p, c))
  BY FiniteAssumption, FS_Subset DEF Games, Joined
<1> DEFINE W == {m \in Games(p, c) : Played[p][m].win}
<1>2. IsFiniteSet(W)
  BY <1>1, FS_Subset
<1>3. Wins(p, c) = Cardinality(W)
  BY DEF Wins
<1> HIDE DEF W
<1>4. Cardinality(Games(p, c)) \in Nat /\ Cardinality(W) \in Nat
  BY <1>1, <1>2, FS_CardinalityType
<1> QED
  BY <1>3, <1>4

LEMMA StatsType ==
  ASSUME matches \subseteq Matches, NEW p, NEW limit \in Nat,
         NEW listing \in ChampionListings(p, limit)
  PROVE  StatsOf(p, listing) \in Seq(Stats)
<1> DEFINE S == {c \in Champions : Games(p, c) # {}}
<1>1. IsFiniteSet(S)
  BY FiniteAssumption, FS_Subset
<1>2. Cardinality(S) \in Nat
  BY <1>1, FS_CardinalityType
<1>3. PICK k \in Nat : listing \in [1 .. k -> S]
  BY <1>2 DEF ChampionListings, Listings
<1>4. ASSUME NEW i \in 1 .. k
      PROVE  [champion |-> listing[i], games |-> Cardinality(Games(p, listing[i])),
              wins |-> Wins(p, listing[i])] \in Stats
  BY <1>3, GamesFinite DEF Stats
<1>5. StatsOf(p, listing) \in [1 .. k -> Stats]
  BY <1>3, <1>4 DEF StatsOf
<1> QED
  BY <1>5

----------------------------------------------------------------------------
(* The inductive invariant *)

(* Whoever has passed the look at the row holds it. *)
CallInv ==
  call # None =>
    /\ call.code = "none"
    /\ call.done < Len(Selects[call.endpoint])
    /\ call.endpoint = "search" => call.player = None /\ call.name \in Names
    /\ call.endpoint # "search" => call.player \in Players
    /\ call.done = 1 =>
         call.player \in Players /\ players[call.player] # None /\ call.row # None

(* A Riot ID is stored with its row, and who was shown to the client has   *)
(* a row: no step deletes one.                                             *)
KnownInv ==
  /\ \A p \in Players : riotId[p] # None => players[p] # None
  /\ \A i \in DOMAIN answers :
       answers[i].code = "ok" =>
         answers[i].player \in Players /\ players[answers[i].player] # None

Inv == TypeOK /\ CallInv /\ KnownInv /\ FoundIsNeverLost

LEMMA InitInv == Init => Inv
<1> SUFFICES ASSUME Init PROVE Inv
  OBVIOUS
<1>1. account \in [Players -> Names]
  BY DEF Init, Injection
<1>2. [profile |-> Earlier, status |-> "success"] \in PlayerRows
  BY DEF PlayerRows
<1>3. players \in [Players -> Rows]
  BY <1>2 DEF Init, Store!Init, Rows
<1>4. ranked \in [Players -> Entries]
  BY DEF Init, Store!Init, Entries
<1>5. matches \subseteq Matches /\ links \subseteq Players \X Matches
  BY OldLinksAssumption DEF Init, Store!Init
<1>6. riotId \in [Players -> Names \cup {None}]
  BY <1>1 DEF Init
<1>7. past \in [Players -> Seq([row : Rows, entries : Entries])]
  BY <1>3, <1>4 DEF Init
<1>8. call = None /\ answers = << >> /\ answers \in Seq(Calls) /\ DOMAIN answers = {}
  BY DEF Init
<1>9. TypeOK
  BY <1>1, <1>3, <1>4, <1>5, <1>6, <1>7, <1>8 DEF TypeOK
<1>10. KnownInv
  BY <1>8 DEF KnownInv, Init
<1> QED
  BY <1>8, <1>9, <1>10 DEF Inv, CallInv, FoundIsNeverLost

----------------------------------------------------------------------------
(* The steps around the reader *)

LEMMA RefreshStep ==
  ASSUME Inv, Refresh
  PROVE  Inv'
<1> USE DEF Inv
<1>1. PICK r \in Requests, p \in Players :
        /\ \/ \E entries \in SUBSET Queues :
                \E linked \in SUBSET {m \in Matches : p \in Participants[m]} :
                  Store!RefreshSucceeds(r, p, entries, linked)
           \/ Store!RefreshFails(r, p)
        /\ riotId' = [riotId EXCEPT ![p] = account[p]]
        /\ past' = [past EXCEPT ![p] =
                      Append(@, [row |-> players'[p], entries |-> ranked'[p]])]
  BY DEF Refresh
<1>2. account' = account /\ call' = call /\ answers' = answers
  BY DEF Refresh
<1>3. /\ \E row \in PlayerRows : players' = [players EXCEPT ![p] = row]
      /\ ranked' \in [Players -> Entries]
      /\ matches' \subseteq Matches /\ links' \subseteq Players \X Matches
  <2>1. CASE Store!RefreshFails(r, p)
    <3>1. PICK profile \in {r, IF players[p] = None THEN None ELSE players[p].profile} :
            players' = [players EXCEPT ![p] = [profile |-> profile, status |-> "failed"]]
      BY <2>1 DEF Store!RefreshFails
    <3>2. players[p] # None => players[p].profile \in Requests \cup {Earlier, None}
      BY DEF TypeOK, Rows, PlayerRows
    <3>3. [profile |-> profile, status |-> "failed"] \in PlayerRows
      BY <3>2 DEF PlayerRows
    <3> QED
      BY <2>1, <3>1, <3>3 DEF Store!RefreshFails, TypeOK
  <2>2. CASE \E entries \in SUBSET Queues :
               \E linked \in SUBSET {m \in Matches : p \in Participants[m]} :
                 Store!RefreshSucceeds(r, p, entries, linked)
    <3>1. PICK entries \in SUBSET Queues,
               linked \in SUBSET {m \in Matches : p \in Participants[m]} :
            Store!RefreshSucceeds(r, p, entries, linked)
      BY <2>2
    <3>2. PICK status \in {"success", "partial_success"} :
            players' = [players EXCEPT ![p] = [profile |-> r, status |-> status]]
      BY <3>1 DEF Store!RefreshSucceeds
    <3>3. [profile |-> r, status |-> status] \in PlayerRows
      BY DEF PlayerRows
    <3>4. [q \in Queues |-> IF q \in entries THEN r ELSE None] \in Entries
      BY DEF Entries
    <3>5. ranked' \in [Players -> Entries]
      BY <3>1, <3>4 DEF Store!RefreshSucceeds, TypeOK
    <3> QED
      BY <3>1, <3>2, <3>3, <3>5 DEF Store!RefreshSucceeds, TypeOK
  <2> QED
    BY <1>1, <2>1, <2>2
<1>4. players' \in [Players -> Rows] /\ players'[p] \in PlayerRows
  BY <1>3 DEF TypeOK, Rows
<1>5. \A q \in Players : players[q] # None => players'[q] # None
  BY <1>3, NoRowAssumption DEF TypeOK
<1>6. riotId' \in [Players -> Names \cup {None}]
  BY <1>1 DEF TypeOK
<1>7. past' \in [Players -> Seq([row : Rows, entries : Entries])]
  <2>1. [row |-> players'[p], entries |-> ranked'[p]] \in [row : Rows, entries : Entries]
    BY <1>3, <1>4
  <2>2. past[p] \in Seq([row : Rows, entries : Entries])
    BY DEF TypeOK
  <2>3. Append(past[p], [row |-> players'[p], entries |-> ranked'[p]])
          \in Seq([row : Rows, entries : Entries])
    BY <2>1, <2>2
  <2> QED
    BY <1>1, <2>3 DEF TypeOK
<1>8. TypeOK'
  BY <1>2, <1>3, <1>4, <1>6, <1>7 DEF TypeOK, Complete
<1>9. \A q \in Players : riotId'[q] # None => players'[q] # None
  BY <1>1, <1>4, <1>5, NoRowAssumption DEF TypeOK, KnownInv
<1>10. KnownInv'
  BY <1>2, <1>5, <1>9 DEF KnownInv
<1>11. CallInv'
  BY <1>2, <1>5 DEF CallInv
<1> QED
  BY <1>2, <1>8, <1>10, <1>11 DEF FoundIsNeverLost, SamePlayer

LEMMA RenameStep ==
  ASSUME Inv, Rename
  PROVE  Inv'
<1>1. account' \in [Players -> Names]
  BY DEF Inv, TypeOK, Rename
<1>2. UNCHANGED <<store, riotId, past, call, answers>>
  BY DEF Rename
<1> QED
  BY <1>1, <1>2 DEF Inv, TypeOK, Complete, CallInv, KnownInv, FoundIsNeverLost,
    SamePlayer, store

----------------------------------------------------------------------------
(* The steps of a request *)

LEMMA NewCallType ==
  ASSUME NEW e \in Endpoints, NEW n \in Names \cup {None},
         NEW p \in Players \cup {None}, NEW limit \in Limits \cup {0}
  PROVE  /\ NewCall(e, n, p, limit) \in Calls
         /\ NewCall(e, n, p, limit).endpoint = e
         /\ NewCall(e, n, p, limit).name = n
         /\ NewCall(e, n, p, limit).player = p
         /\ NewCall(e, n, p, limit).done = 0
         /\ NewCall(e, n, p, limit).code = "none"
BY DEF NewCall, Calls, Codes, Rows

LEMMA ReceiveStep ==
  ASSUME Inv, Receive
  PROVE  Inv'
<1> USE DEF Inv
<1>1. \E e \in Endpoints, n \in Names \cup {None}, p \in Players \cup {None},
         limit \in Limits \cup {0} :
        /\ call' = NewCall(e, n, p, limit)
        /\ e = "search" => p = None /\ n \in Names
        /\ e # "search" => p \in Players
  BY DEF Receive, Endpoints
<1>2. /\ call' \in Calls /\ call'.done = 0 /\ call'.code = "none"
      /\ call'.endpoint = "search" => call'.player = None /\ call'.name \in Names
      /\ call'.endpoint # "search" => call'.player \in Players
  BY <1>1, NewCallType
<1>3. call'.done < Len(Selects[call'.endpoint])
  BY <1>2, SelectsLengths DEF Calls, Endpoints
<1>4. UNCHANGED <<store, riotId, account, past, answers>>
  BY DEF Receive
<1>5. TypeOK'
  BY <1>2, <1>4 DEF TypeOK, Complete, store
<1>6. CallInv'
  BY <1>2, <1>3, <1>4 DEF CallInv, store
<1> QED
  BY <1>4, <1>5, <1>6 DEF KnownInv, FoundIsNeverLost, SamePlayer, store

(* An answer is complete and truthful: what it found has a row, and what   *)
(* it did not find has none.                                               *)
LEMMA AnswerStep ==
  ASSUME Inv, call # None, NEW c \in Calls, NEW code \in Codes,
         code = "ok" =>
           /\ c.player \in Players /\ players[c.player] # None
           /\ c.row # None /\ (c.endpoint = "profile" => c.entries # None),
         code = "not_found" => c.player = None \/ players[c.player] = None,
         Answer(code, c)
  PROVE  Inv'
<1> DEFINE a == [c EXCEPT !.code = code]
<1>1. /\ a \in Calls /\ a.code = code /\ a.player = c.player /\ a.row = c.row
      /\ a.endpoint = c.endpoint /\ a.entries = c.entries
  BY DEF Calls
<1> HIDE DEF a
<1>2. answers' = Append(answers, a) /\ call' = None
      /\ UNCHANGED <<store, riotId, account, past>>
  BY DEF Answer, a
<1>3. answers \in Seq(Calls)
  BY DEF Inv, TypeOK
<1>4. /\ answers' \in Seq(Calls)
      /\ DOMAIN answers' = 1 .. Len(answers) + 1
      /\ DOMAIN answers = 1 .. Len(answers)
      /\ Len(answers) \in Nat
      /\ answers'[Len(answers) + 1] = a
      /\ \A i \in DOMAIN answers : answers'[i] = answers[i]
  BY <1>1, <1>2, <1>3
<1>5. \A i \in DOMAIN answers' : Complete(answers'[i])
  <2>1. Complete(a)
    BY <1>1 DEF Complete
  <2> QED
    BY <1>4, <2>1 DEF Inv, TypeOK
<1>6. TypeOK'
  BY <1>2, <1>4, <1>5 DEF Inv, TypeOK, store, Complete
<1>7. KnownInv'
  <2>1. \A i \in DOMAIN answers' : answers'[i].code = "ok" =>
          answers'[i].player \in Players /\ players[answers'[i].player] # None
    BY <1>1, <1>4 DEF Inv, KnownInv
  <2> QED
    BY <1>2, <2>1 DEF Inv, KnownInv, store
<1>8. FoundIsNeverLost'
  <2> SUFFICES ASSUME NEW i \in DOMAIN answers', NEW j \in DOMAIN answers',
                      i < j, answers'[i].code = "ok",
                      answers'[i].player = answers'[j].player,
                      answers'[j].code = "not_found"
               PROVE  FALSE
    BY DEF FoundIsNeverLost, SamePlayer
  <2>1. i \in DOMAIN answers
    BY <1>4
  <2>2. answers'[i].player \in Players /\ players[answers'[i].player] # None
    BY <1>4, <2>1 DEF Inv, KnownInv
  <2>3. CASE j \in DOMAIN answers
    BY <1>4, <2>1, <2>3 DEF Inv, FoundIsNeverLost, SamePlayer
  <2>4. CASE j = Len(answers) + 1
    BY <1>1, <1>4, <2>2, <2>4, NoneAssumption
  <2> QED
    BY <1>4, <2>3, <2>4
<1> QED
  BY <1>2, <1>6, <1>7, <1>8 DEF Inv, CallInv

(* A SELECT that returns rows leads to the next one or to an answer. *)
LEMMA ProceedStep ==
  ASSUME Inv, call # None, NEW c \in Calls,
         c.endpoint = call.endpoint, c.done = call.done, c.code = "none",
         c.player \in Players, players[c.player] # None, c.row # None,
         c.endpoint = "profile" /\ c.done = 1 => c.entries # None,
         Proceed(c)
  PROVE  Inv'
<1> DEFINE next == [c EXCEPT !.done = @ + 1]
           len == Len(Selects[c.endpoint])
<1>1. /\ c.done \in 0 .. 1 /\ c.done < len /\ len \in 1 .. 2
      /\ c.endpoint = "search" => len = 1
      /\ c.endpoint = "profile" => len = 2
  <2>1. c.endpoint \in Endpoints /\ c.done \in 0 .. 2
    BY DEF Calls
  <2>2. /\ len \in 1 .. 2
        /\ c.endpoint = "search" => len = 1
        /\ c.endpoint = "profile" => len = 2
    <3>1. CASE c.endpoint = "search"
      BY <3>1, SelectsLengths
    <3>2. CASE c.endpoint = "profile"
      BY <3>2, SelectsLengths
    <3>3. CASE c.endpoint = "matches"
      BY <3>3, SelectsLengths
    <3>4. CASE c.endpoint = "champions"
      BY <3>4, SelectsLengths
    <3> QED
      BY <2>1, <3>1, <3>2, <3>3, <3>4 DEF Endpoints
  <2>3. c.done < len
    BY DEF Inv, CallInv
  <2> HIDE DEF len
  <2> QED
    BY <2>1, <2>2, <2>3
<1>2. /\ next \in Calls /\ next.done = c.done + 1 /\ next.code = "none"
      /\ next.player = c.player /\ next.row = c.row
      /\ next.endpoint = c.endpoint /\ next.entries = c.entries
  BY <1>1 DEF Calls
<1>3. IF next.done = len THEN Answer("ok", next)
      ELSE call' = next /\ UNCHANGED <<store, riotId, account, past, answers>>
  BY DEF Proceed
<1>len. len = Len(Selects[next.endpoint])
  BY <1>2
<1> HIDE DEF next, len
<1>4. CASE next.done = len
  <2>1. Answer("ok", next) /\ "ok" \in Codes
    BY <1>3, <1>4 DEF Codes
  <2>2. next.endpoint = "profile" => next.entries # None
    BY <1>1, <1>2, <1>4
  <2> QED
    BY <1>2, <2>1, <2>2, AnswerStep
<1>5. CASE next.done # len
  <2>1. call' = next /\ UNCHANGED <<store, riotId, account, past, answers>>
    BY <1>3, <1>5
  <2>2. next.done = 1 /\ len = 2
    <3>1. c.done = 0 \/ c.done = 1
      BY <1>1
    <3>2. c.done + 1 # len
      BY <1>2, <1>5
    <3> QED
      BY <1>1, <1>2, <3>1, <3>2
  <2>len. next.done < Len(Selects[next.endpoint]) /\ next.endpoint # "search"
    BY <1>1, <1>2, <1>len, <2>2
  <2>3. CallInv'
    BY <1>2, <2>1, <2>2, <2>len DEF CallInv, store
  <2>4. TypeOK'
    BY <1>2, <2>1 DEF Inv, TypeOK, Complete, store
  <2> QED
    BY <2>1, <2>3, <2>4 DEF Inv, KnownInv, FoundIsNeverLost, SamePlayer, store
<1> QED
  BY <1>4, <1>5

LEMMA SearchFacts ==
  ASSUME Inv, SelectByRiotId
  PROVE  /\ call # None /\ call \in Calls /\ call.code = "none" /\ call.done = 0
         /\ call.endpoint = "search" /\ call.player = None /\ call.name \in Names
<1>1. call # None /\ call \in Calls /\ Selects[call.endpoint][call.done + 1] = "by_riot_id"
  BY DEF Inv, TypeOK, SelectByRiotId, Due
<1>2. call.endpoint \in Endpoints /\ call.done \in 0 .. 2
  BY <1>1 DEF Calls
<1>3. call.done < Len(Selects[call.endpoint]) /\ call.code = "none"
  BY <1>1 DEF Inv, CallInv
<1>4. call.endpoint = "search"
  BY <1>1, <1>2, <1>3, SelectsLengths DEF Endpoints
<1>5. Len(Selects[call.endpoint]) = 1
  BY <1>4, SelectsLengths
<1> QED
  BY <1>1, <1>2, <1>3, <1>4, <1>5 DEF Inv, CallInv

LEMMA SearchStep ==
  ASSUME Inv, SelectByRiotId
  PROVE  Inv'
<1> DEFINE found == {p \in Players : riotId[p] = call.name}
<1>1. /\ call # None /\ call \in Calls /\ call.code = "none"
      /\ call.endpoint = "search" /\ call.player = None /\ call.name \in Names
  BY SearchFacts
<1>3. CASE \E p \in Players :
             found = {p} /\ Proceed([call EXCEPT !.player = p, !.row = players[p]])
  <2>1. PICK p \in Players :
          found = {p} /\ Proceed([call EXCEPT !.player = p, !.row = players[p]])
    BY <1>3
  <2> DEFINE c == [call EXCEPT !.player = p, !.row = players[p]]
  <2>2. riotId[p] = call.name /\ call.name \in Names
    BY <1>1, <2>1
  <2>3. players[p] # None /\ players[p] \in Rows
    BY <2>2, NoneAssumption DEF Inv, KnownInv, TypeOK
  <2>4. /\ c \in Calls /\ c.player = p /\ c.row = players[p] /\ c.code = call.code
        /\ c.endpoint = call.endpoint /\ c.done = call.done
    BY <1>1, <2>3 DEF Calls
  <2>5. Proceed(c)
    BY <2>1
  <2> HIDE DEF c
  <2> QED
    BY <1>1, <2>2, <2>3, <2>4, <2>5, ProceedStep
<1>4. CASE Answer("not_found", call)
  BY <1>1, <1>4, AnswerStep DEF Codes
<1>5. CASE Answer("ambiguous", call)
  BY <1>1, <1>5, AnswerStep DEF Codes
<1> QED
  BY <1>3, <1>4, <1>5 DEF SelectByRiotId

(* The endpoint and the progress a due statement of a player implies. *)
LEMMA DueFacts ==
  ASSUME Inv, NEW s, Due(s), s # "by_riot_id"
  PROVE  /\ call # None /\ call \in Calls /\ call.code = "none"
         /\ call.endpoint \in {"profile", "matches", "champions"}
         /\ call.player \in Players
         /\ s = "by_puuid" => call.done = 0
         /\ s # "by_puuid" =>
              /\ call.done = 1 /\ players[call.player] # None /\ call.row # None
              /\ call.endpoint = "profile" => s = "ranked"
<1>1. /\ call # None /\ call \in Calls
      /\ call.endpoint \in Endpoints /\ call.done \in 0 .. 2
      /\ call.done < Len(Selects[call.endpoint]) /\ call.code = "none"
      /\ Selects[call.endpoint][call.done + 1] = s
  BY DEF Inv, TypeOK, CallInv, Calls, Due
<1>2. call.endpoint # "search"
  <2> SUFFICES ASSUME call.endpoint = "search" PROVE FALSE
    OBVIOUS
  <2>1. call.done = 0
    BY <1>1, SelectsLengths
  <2> QED
    BY <1>1, <2>1, SelectsLengths
<1>3. call.endpoint \in {"profile", "matches", "champions"} /\ call.player \in Players
  BY <1>1, <1>2 DEF Endpoints, Inv, CallInv
<1>4. call.done = 0 \/ call.done = 1
  <2>1. Len(Selects[call.endpoint]) = 2
    BY <1>3, SelectsLengths
  <2> QED
    BY <1>1, <2>1
<1>5. CASE call.done = 0
  <2>1. s = "by_puuid"
    BY <1>1, <1>3, <1>5, SelectsLengths
  <2> QED
    BY <1>1, <1>3, <1>5, <2>1
<1>6. CASE call.done = 1
  <2>1. s = Selects[call.endpoint][2]
    BY <1>1, <1>6
  <2>2. s # "by_puuid" /\ (call.endpoint = "profile" => s = "ranked")
    BY <1>3, <2>1, SelectsLengths
  <2> QED
    BY <1>1, <1>3, <1>6, <2>2 DEF Inv, CallInv
<1> QED
  BY <1>4, <1>5, <1>6

LEMMA SelectByPuuidStep ==
  ASSUME Inv, SelectByPuuid
  PROVE  Inv'
<1>1. /\ call # None /\ call \in Calls /\ call.code = "none"
      /\ call.player \in Players /\ call.done = 0
  BY DueFacts DEF SelectByPuuid
<1>2. CASE Exists(call.player) /\ Proceed([call EXCEPT !.row = players[call.player]])
  <2> DEFINE c == [call EXCEPT !.row = players[call.player]]
  <2>1. players[call.player] # None /\ players[call.player] \in Rows
    BY <1>1, <1>2 DEF Exists, Inv, TypeOK
  <2>2. /\ c \in Calls /\ c.player = call.player /\ c.row = players[call.player]
        /\ c.code = call.code /\ c.endpoint = call.endpoint /\ c.done = call.done
    BY <1>1, <2>1 DEF Calls
  <2>3. Proceed(c)
    BY <1>2
  <2> HIDE DEF c
  <2> QED
    BY <1>1, <2>1, <2>2, <2>3, ProceedStep
<1>3. CASE ~Exists(call.player) /\ Answer("not_found", call)
  BY <1>1, <1>3, AnswerStep DEF Exists, Codes
<1> QED
  BY <1>2, <1>3 DEF SelectByPuuid

LEMMA SelectRankedStep ==
  ASSUME Inv, SelectRanked
  PROVE  Inv'
<1>1. /\ call # None /\ call \in Calls /\ call.code = "none"
      /\ call.player \in Players /\ call.done = 1
      /\ players[call.player] # None /\ call.row # None
  BY DueFacts DEF SelectRanked
<1> DEFINE c == [call EXCEPT !.entries = ranked[call.player]]
<1>2. ranked[call.player] \in Entries /\ ranked[call.player] # None
  BY <1>1, NoRowAssumption DEF Inv, TypeOK
<1>3. /\ c \in Calls /\ c.player = call.player /\ c.row = call.row
      /\ c.entries = ranked[call.player]
      /\ c.code = call.code /\ c.endpoint = call.endpoint /\ c.done = call.done
  BY <1>1, <1>2 DEF Calls
<1>4. Proceed(c)
  BY DEF SelectRanked
<1> HIDE DEF c
<1> QED
  BY <1>1, <1>2, <1>3, <1>4, ProceedStep

LEMMA SelectMatchesStep ==
  ASSUME Inv, SelectMatches
  PROVE  Inv'
<1>1. /\ call # None /\ call \in Calls /\ call.code = "none"
      /\ call.player \in Players /\ call.done = 1 /\ call.endpoint # "profile"
      /\ players[call.player] # None /\ call.row # None
  BY DueFacts DEF SelectMatches
<1>2. PICK page \in Listings(Joined(call.player), call.limit, MatchKey) :
        Proceed([call EXCEPT !.page = page])
  BY DEF SelectMatches, MatchListings
<1> DEFINE c == [call EXCEPT !.page = page]
<1>3. page \in Seq(Matches)
  BY <1>1, <1>2, PageType, FiniteAssumption DEF Inv, TypeOK, Calls
<1>4. /\ c \in Calls /\ c.player = call.player /\ c.row = call.row
      /\ c.code = call.code /\ c.endpoint = call.endpoint /\ c.done = call.done
  BY <1>1, <1>3 DEF Calls
<1>5. Proceed(c)
  BY <1>2
<1> HIDE DEF c
<1> QED
  BY <1>1, <1>4, <1>5, ProceedStep

LEMMA SelectChampionsStep ==
  ASSUME Inv, SelectChampions
  PROVE  Inv'
<1>1. /\ call # None /\ call \in Calls /\ call.code = "none"
      /\ call.player \in Players /\ call.done = 1 /\ call.endpoint # "profile"
      /\ players[call.player] # None /\ call.row # None
  BY DueFacts DEF SelectChampions
<1>2. PICK listing \in ChampionListings(call.player, call.limit) :
        Proceed([call EXCEPT !.stats = StatsOf(call.player, listing)])
  BY DEF SelectChampions
<1> DEFINE c == [call EXCEPT !.stats = StatsOf(call.player, listing)]
<1>3. StatsOf(call.player, listing) \in Seq(Stats)
  <2>1. call.limit \in Nat /\ matches \subseteq Matches
    BY <1>1, FiniteAssumption DEF Inv, TypeOK, Calls
  <2> QED
    BY <1>2, <2>1, StatsType
<1>4. /\ c \in Calls /\ c.player = call.player /\ c.row = call.row
      /\ c.code = call.code /\ c.endpoint = call.endpoint /\ c.done = call.done
  BY <1>1, <1>3 DEF Calls
<1>5. Proceed(c)
  BY <1>2
<1> HIDE DEF c
<1> QED
  BY <1>1, <1>4, <1>5, ProceedStep

LEMMA DatabaseFailsStep ==
  ASSUME Inv, DatabaseFails
  PROVE  Inv'
<1>1. call # None /\ call \in Calls
  BY DEF Inv, TypeOK, DatabaseFails
<1> QED
  BY <1>1, AnswerStep DEF DatabaseFails, Codes

----------------------------------------------------------------------------
(* Theorems *)

(* No step leaves the invariant: one lemma per action. *)
THEOREM Invariance == Spec => []Inv
<1>1. Inv /\ [Next]_vars => Inv'
  <2> SUFFICES ASSUME Inv, [Next]_vars PROVE Inv'
    OBVIOUS
  <2>1. CASE Next
    BY <2>1, RenameStep, RefreshStep, ReceiveStep, DatabaseFailsStep, SearchStep,
       SelectByPuuidStep, SelectRankedStep, SelectMatchesStep, SelectChampionsStep DEF Next
  <2>2. CASE UNCHANGED vars
    BY <2>2 DEF Inv, TypeOK, Complete, CallInv, KnownInv, FoundIsNeverLost, SamePlayer,
       vars, store
  <2> QED
    BY <2>1, <2>2
<1> QED
  BY <1>1, InitInv, PTL DEF Spec

(* The tables, a request and the answers have their types, and an answer   *)
(* has what its response model requires, at any time.                      *)
THEOREM TypeCorrect == Spec => []TypeOK
<1>1. Inv => TypeOK
  BY DEF Inv
<1> QED
  BY <1>1, Invariance, PTL

(* Whatever refreshes commit and whoever is renamed, no endpoint denies a  *)
(* player that another has shown before.                                   *)
THEOREM PlayersStayKnown == Spec => []FoundIsNeverLost
<1>1. Inv => FoundIsNeverLost
  BY DEF Inv
<1> QED
  BY <1>1, Invariance, PTL

----------------------------------------------------------------------------
(* Profiles run forward *)

Shown(p) == {i \in DOMAIN answers : Answered(i, "profile") /\ answers[i].player = p}

(* The profile of p is being read and its row is held. *)
Pending(p) ==
  call # None /\ call.endpoint = "profile" /\ call.player = p /\ call.done = 1

(* row and entries place the profiles shown of p in the history of p. *)
Placed(p, row, entries) ==
  \A i \in Shown(p) :
    /\ past[p][row[i]].row = answers[i].row
    /\ past[p][entries[i]].entries = answers[i].entries
    /\ row[i] <= entries[i]
    /\ \A j \in Shown(p) : i < j => entries[i] <= row[j]

(* The row held fits behind the profiles shown. *)
HeldFits(p, entries) ==
  Pending(p) => \E k \in DOMAIN past[p] :
    past[p][k].row = call.row /\ \A i \in Shown(p) : entries[i] <= k

ChainInv ==
  \A p \in Players : \E row, entries \in [Shown(p) -> DOMAIN past[p]] :
    Placed(p, row, entries) /\ HeldFits(p, entries)

(* The history ends with what is stored. *)
EndInv ==
  \A p \in Players :
    /\ Len(past[p]) > 0
    /\ past[p][Len(past[p])].row = players[p]
    /\ past[p][Len(past[p])].entries = ranked[p]

(* A step that shows no profile of p, and leaves the row held, if any,     *)
(* keeps the places.                                                       *)
LEMMA ChainKept ==
  ASSUME ChainInv, NEW p \in Players,
         DOMAIN past[p] \subseteq DOMAIN past'[p],
         \A k \in DOMAIN past[p] : past'[p][k] = past[p][k],
         Shown(p)' = Shown(p),
         \A i \in Shown(p) : answers'[i] = answers[i],
         Pending(p)' => Pending(p) /\ call' = call
  PROVE  \E row, entries \in [Shown(p)' -> DOMAIN past'[p]] :
           Placed(p, row, entries)' /\ HeldFits(p, entries)'
<1>1. PICK row \in [Shown(p) -> DOMAIN past[p]], entries \in [Shown(p) -> DOMAIN past[p]] :
        Placed(p, row, entries) /\ HeldFits(p, entries)
  BY DEF ChainInv
<1>2. \A i \in Shown(p) : row[i] \in DOMAIN past[p] /\ entries[i] \in DOMAIN past[p]
  BY <1>1
<1>3. row \in [Shown(p)' -> DOMAIN past'[p]] /\ entries \in [Shown(p)' -> DOMAIN past'[p]]
  BY <1>1
<1>4. Placed(p, row, entries)'
  BY <1>1, <1>2 DEF Placed
<1>5. HeldFits(p, entries)'
  BY <1>1 DEF HeldFits
<1> QED
  BY <1>3, <1>4, <1>5

LEMMA RefreshChain ==
  ASSUME Inv, ChainInv, EndInv, Refresh
  PROVE  ChainInv' /\ EndInv'
<1>1. PICK q \in Players :
        /\ past' = [past EXCEPT ![q] =
                      Append(@, [row |-> players'[q], entries |-> ranked'[q]])]
        /\ \E row : players' = [players EXCEPT ![q] = row]
        /\ \E entries : ranked' = [ranked EXCEPT ![q] = entries]
  <2>1. PICK r \in Requests, q \in Players :
          /\ \/ \E entries \in SUBSET Queues :
                  \E linked \in SUBSET {m \in Matches : q \in Participants[m]} :
                    Store!RefreshSucceeds(r, q, entries, linked)
             \/ Store!RefreshFails(r, q)
          /\ past' = [past EXCEPT ![q] =
                        Append(@, [row |-> players'[q], entries |-> ranked'[q]])]
    BY DEF Refresh
  <2>2. \E row : players' = [players EXCEPT ![q] = row]
    BY <2>1 DEF Store!RefreshSucceeds, Store!RefreshFails
  <2>3. ranked \in [Players -> Entries]
    BY DEF Inv, TypeOK
  <2>4. \E entries : ranked' = [ranked EXCEPT ![q] = entries]
    <3>1. CASE Store!RefreshFails(r, q)
      <4>1. ranked' = ranked
        BY <3>1 DEF Store!RefreshFails
      <4>2. ranked' = [ranked EXCEPT ![q] = ranked[q]]
        BY <2>3, <4>1
      <4> QED
        BY <4>2
    <3>2. CASE ~Store!RefreshFails(r, q)
      BY <2>1, <3>2 DEF Store!RefreshSucceeds
    <3> QED
      BY <3>1, <3>2
  <2> QED
    BY <2>1, <2>2, <2>4
<1>2. /\ past \in [Players -> Seq([row : Rows, entries : Entries])]
      /\ players \in [Players -> Rows] /\ ranked \in [Players -> Entries]
  BY DEF Inv, TypeOK
<1>3. [row |-> players'[q], entries |-> ranked'[q]] \in [row : Rows, entries : Entries]
  BY RefreshStep DEF Inv, TypeOK
<1>4. /\ past[q] \in Seq([row : Rows, entries : Entries])
      /\ past'[q] = Append(past[q], [row |-> players'[q], entries |-> ranked'[q]])
  BY <1>1, <1>2
<1>5. /\ Len(past'[q]) = Len(past[q]) + 1 /\ Len(past[q]) \in Nat
      /\ DOMAIN past[q] = 1 .. Len(past[q]) /\ DOMAIN past'[q] = 1 .. Len(past[q]) + 1
      /\ past'[q][Len(past[q]) + 1] = [row |-> players'[q], entries |-> ranked'[q]]
      /\ \A k \in DOMAIN past[q] : past'[q][k] = past[q][k]
  BY <1>3, <1>4
<1>6. \A p \in Players \ {q} :
        past'[p] = past[p] /\ players'[p] = players[p] /\ ranked'[p] = ranked[p]
  BY <1>1, <1>2
<1>7. call' = call /\ answers' = answers
  BY DEF Refresh
<1>8. EndInv'
  BY <1>5, <1>6 DEF EndInv
<1>9. ASSUME NEW p \in Players
      PROVE  \E row, entries \in [Shown(p)' -> DOMAIN past'[p]] :
               Placed(p, row, entries)' /\ HeldFits(p, entries)'
  <2>1. /\ DOMAIN past[p] \subseteq DOMAIN past'[p]
        /\ \A k \in DOMAIN past[p] : past'[p][k] = past[p][k]
    BY <1>5, <1>6
  <2>2. Shown(p)' = Shown(p) /\ (Pending(p)' => Pending(p))
    BY <1>7 DEF Shown, Answered, Pending
  <2> QED
    BY <1>7, <2>1, <2>2, ChainKept
<1> QED
  BY <1>8, <1>9 DEF ChainInv

(* A step of the reader that shows no profile and holds no new row.        *)
LEMMA QuietChain ==
  ASSUME Inv, ChainInv, EndInv, UNCHANGED <<players, ranked, past>>,
         \A p \in Players : Shown(p)' = Shown(p),
         \A i \in DOMAIN answers : answers'[i] = answers[i],
         \A p \in Players : Pending(p)' => Pending(p) /\ call' = call
  PROVE  ChainInv' /\ EndInv'
<1>1. EndInv'
  BY DEF EndInv
<1>2. ASSUME NEW p \in Players
      PROVE  \E row, entries \in [Shown(p)' -> DOMAIN past'[p]] :
               Placed(p, row, entries)' /\ HeldFits(p, entries)'
  <2>1. \A i \in Shown(p) : answers'[i] = answers[i]
    BY DEF Shown
  <2> QED
    BY <2>1, ChainKept
<1> QED
  BY <1>1, <1>2 DEF ChainInv

(* What Answer does to the sequence of answers. *)
LEMMA AnswerFacts ==
  ASSUME Inv, NEW c \in Calls, NEW code \in Codes, Answer(code, c)
  PROVE  /\ call' = None /\ UNCHANGED <<players, ranked, past>>
         /\ Len(answers) \in Nat /\ DOMAIN answers = 1 .. Len(answers)
         /\ DOMAIN answers' = 1 .. Len(answers) + 1
         /\ \A i \in DOMAIN answers : answers'[i] = answers[i]
         /\ answers'[Len(answers) + 1].code = code
         /\ answers'[Len(answers) + 1].endpoint = c.endpoint
         /\ answers'[Len(answers) + 1].player = c.player
         /\ answers'[Len(answers) + 1].row = c.row
         /\ answers'[Len(answers) + 1].entries = c.entries
<1> DEFINE a == [c EXCEPT !.code = code]
<1>1. /\ a \in Calls /\ a.code = code /\ a.player = c.player /\ a.row = c.row
      /\ a.endpoint = c.endpoint /\ a.entries = c.entries
  BY DEF Calls
<1>2. answers' = Append(answers, a)
  BY DEF Answer
<1> HIDE DEF a
<1>3. answers \in Seq(Calls)
  BY DEF Inv, TypeOK
<1>4. /\ Len(answers) \in Nat /\ DOMAIN answers = 1 .. Len(answers)
      /\ DOMAIN answers' = 1 .. Len(answers) + 1
      /\ \A i \in DOMAIN answers : answers'[i] = answers[i]
      /\ answers'[Len(answers) + 1] = a
  BY <1>1, <1>2, <1>3
<1> QED
  BY <1>1, <1>4 DEF Answer, store

LEMMA AnswerChain ==
  ASSUME Inv, ChainInv, EndInv, NEW c \in Calls, NEW code \in Codes, Answer(code, c),
         ~(code = "ok" /\ c.endpoint = "profile")
  PROVE  ChainInv' /\ EndInv'
<1>1. \A p \in Players : Shown(p)' = Shown(p)
  BY AnswerFacts DEF Shown, Answered
<1> QED
  BY <1>1, AnswerFacts, QuietChain DEF Pending

LEMMA ProceedChain ==
  ASSUME Inv, ChainInv, EndInv, call # None, NEW c \in Calls,
         c.done \in 0 .. 1, c.endpoint # "profile", Proceed(c)
  PROVE  ChainInv' /\ EndInv'
<1> DEFINE next == [c EXCEPT !.done = @ + 1]
<1>1. next \in Calls /\ next.endpoint = c.endpoint
  BY DEF Calls
<1>2. \/ Answer("ok", next)
      \/ call' = next /\ UNCHANGED <<store, riotId, account, past, answers>>
  BY DEF Proceed
<1> HIDE DEF next
<1>3. CASE Answer("ok", next)
  BY <1>1, <1>3, AnswerChain DEF Codes
<1>4. CASE call' = next /\ UNCHANGED <<store, riotId, account, past, answers>>
  BY <1>1, <1>4, QuietChain DEF Pending, Shown, Answered, store
<1> QED
  BY <1>2, <1>3, <1>4

(* The row read last is the latest: it fits behind all that was shown. *)
LEMMA SelectByPuuidChain ==
  ASSUME Inv, ChainInv, EndInv, SelectByPuuid
  PROVE  ChainInv' /\ EndInv'
<1>1. /\ call # None /\ call \in Calls /\ call.player \in Players /\ call.done = 0
      /\ call.endpoint \in {"profile", "matches", "champions"}
  BY DueFacts DEF SelectByPuuid
<1>2. CASE Answer("not_found", call)
  BY <1>1, <1>2, AnswerChain DEF Codes
<1>3. CASE Proceed([call EXCEPT !.row = players[call.player]])
  <2> DEFINE c == [call EXCEPT !.row = players[call.player]]
  <2>1. players[call.player] \in Rows
    BY <1>1 DEF Inv, TypeOK
  <2>2. /\ c \in Calls /\ c.player = call.player /\ c.row = players[call.player]
        /\ c.endpoint = call.endpoint /\ c.done = 0
    BY <1>1, <2>1 DEF Calls
  <2>3. Proceed(c)
    BY <1>3
  <2> HIDE DEF c
  <2>4. CASE c.endpoint # "profile"
    BY <1>1, <2>2, <2>3, <2>4, ProceedChain
  <2>5. CASE c.endpoint = "profile"
    <3> DEFINE next == [c EXCEPT !.done = @ + 1]
    <3>1. /\ next.done = 1 /\ next.player = c.player /\ next.row = c.row
          /\ next.endpoint = c.endpoint
      BY <2>2 DEF Calls
    <3>2. next.done # Len(Selects[c.endpoint])
      BY <2>5, <3>1, SelectsLengths
    <3>3. call' = next /\ UNCHANGED <<store, riotId, account, past, answers>>
      BY <2>3, <3>2 DEF Proceed
    <3> HIDE DEF next
    <3>4. EndInv' /\ \A p \in Players : Shown(p)' = Shown(p)
      BY <3>3 DEF EndInv, Shown, Answered, store
    <3>5. ASSUME NEW p \in Players
          PROVE  \E row, entries \in [Shown(p)' -> DOMAIN past'[p]] :
                   Placed(p, row, entries)' /\ HeldFits(p, entries)'
      <4>1. PICK row \in [Shown(p) -> DOMAIN past[p]],
                 entries \in [Shown(p) -> DOMAIN past[p]] :
              Placed(p, row, entries)
        BY DEF ChainInv
      <4>2. Placed(p, row, entries)'
        BY <3>3, <3>4, <4>1 DEF Placed
      <4>3. past[p] \in Seq([row : Rows, entries : Entries])
        BY DEF Inv, TypeOK
      <4>4. DOMAIN past[p] = 1 .. Len(past[p]) /\ Len(past[p]) \in Nat
        BY <4>3
      <4>5. \A i \in Shown(p) : entries[i] <= Len(past[p])
        BY <4>1, <4>4
      <4>6. /\ Len(past[p]) \in DOMAIN past[p]
            /\ past[p][Len(past[p])].row = players[p]
        BY <4>4 DEF EndInv
      <4>7. Pending(p)' => call'.row = players[p]
        BY <2>2, <3>1, <3>3 DEF Pending
      <4>8. HeldFits(p, entries)'
        BY <3>3, <3>4, <4>5, <4>6, <4>7 DEF HeldFits
      <4> QED
        BY <3>3, <3>4, <4>1, <4>2, <4>8
    <3> QED
      BY <3>4, <3>5 DEF ChainInv
  <2> QED
    BY <2>4, <2>5
<1> QED
  BY <1>2, <1>3 DEF SelectByPuuid

(* The entries read last are the latest, and not older than the row held. *)
LEMMA SelectRankedChain ==
  ASSUME Inv, ChainInv, EndInv, SelectRanked
  PROVE  ChainInv' /\ EndInv'
<1>1. /\ call # None /\ call \in Calls /\ call.player \in Players /\ call.done = 1
      /\ call.endpoint \in {"profile", "matches", "champions"}
  BY DueFacts DEF SelectRanked
<1>2. Selects[call.endpoint][2] = "ranked"
  BY <1>1 DEF SelectRanked, Due
<1>3. call.endpoint = "profile"
  BY <1>1, <1>2, SelectsLengths
<1> DEFINE c == [call EXCEPT !.entries = ranked[call.player]]
           next == [c EXCEPT !.done = @ + 1]
<1>4. ranked[call.player] \in Entries
  BY <1>1 DEF Inv, TypeOK
<1>5. /\ c \in Calls /\ c.player = call.player /\ c.row = call.row
      /\ c.entries = ranked[call.player] /\ c.endpoint = "profile" /\ c.done = 1
  BY <1>1, <1>3, <1>4 DEF Calls
<1>6. Proceed(c)
  BY DEF SelectRanked
<1> HIDE DEF c
<1>7. /\ next \in Calls /\ next.player = call.player /\ next.row = call.row
      /\ next.entries = ranked[call.player] /\ next.endpoint = "profile" /\ next.done = 2
  BY <1>5 DEF Calls
<1>8. Answer("ok", next)
  BY <1>5, <1>6, <1>7, SelectsLengths DEF Proceed
<1> HIDE DEF next
<1> DEFINE n == Len(answers) + 1
<1>9. /\ call' = None /\ UNCHANGED <<players, ranked, past>>
      /\ n \in Nat /\ n \notin DOMAIN answers
      /\ DOMAIN answers' = DOMAIN answers \cup {n}
      /\ \A i \in DOMAIN answers : answers'[i] = answers[i] /\ i \in Nat /\ i < n
      /\ answers'[n].code = "ok" /\ answers'[n].endpoint = "profile"
      /\ answers'[n].player = call.player /\ answers'[n].row = call.row
      /\ answers'[n].entries = ranked[call.player]
  <2>1. "ok" \in Codes
    BY DEF Codes
  <2>2. /\ call' = None /\ UNCHANGED <<players, ranked, past>>
        /\ Len(answers) \in Nat /\ DOMAIN answers = 1 .. Len(answers)
        /\ DOMAIN answers' = 1 .. n
        /\ \A i \in DOMAIN answers : answers'[i] = answers[i]
    BY <1>7, <1>8, <2>1, AnswerFacts
  <2>3. /\ answers'[n].code = "ok" /\ answers'[n].endpoint = next.endpoint
        /\ answers'[n].player = next.player /\ answers'[n].row = next.row
        /\ answers'[n].entries = next.entries
    BY <1>7, <1>8, <2>1, AnswerFacts
  <2>4. /\ n \in Nat /\ n \notin DOMAIN answers
        /\ DOMAIN answers' = DOMAIN answers \cup {n}
        /\ \A i \in DOMAIN answers : i \in Nat /\ i < n
    BY <2>2
  <2> HIDE DEF n
  <2> QED
    BY <1>7, <2>2, <2>3, <2>4
<1> HIDE DEF n
<1>10. EndInv'
  BY <1>9 DEF EndInv
<1>11. ASSUME NEW p \in Players
       PROVE  \E row, entries \in [Shown(p)' -> DOMAIN past'[p]] :
                Placed(p, row, entries)' /\ HeldFits(p, entries)'
  <2>1. CASE p # call.player
    <3>1. Shown(p)' = Shown(p)
      BY <1>9, <2>1 DEF Shown, Answered
    <3>2. \A i \in Shown(p) : answers'[i] = answers[i]
      BY <1>9 DEF Shown
    <3> QED
      BY <1>9, <3>1, <3>2, ChainKept DEF Pending
  <2>2. CASE p = call.player
    <3>1. PICK row \in [Shown(p) -> DOMAIN past[p]],
               entries \in [Shown(p) -> DOMAIN past[p]] :
            Placed(p, row, entries) /\ HeldFits(p, entries)
      BY DEF ChainInv
    <3>2. PICK k \in DOMAIN past[p] :
            past[p][k].row = call.row /\ \A i \in Shown(p) : entries[i] <= k
      BY <1>1, <1>3, <2>2, <3>1 DEF HeldFits, Pending
    <3> DEFINE last == Len(past[p])
    <3>3. /\ DOMAIN past[p] = 1 .. last /\ last \in DOMAIN past[p]
          /\ k \in Nat /\ last \in Nat /\ k <= last
          /\ past[p][last].entries = ranked[p]
      <4>1. past[p] \in Seq([row : Rows, entries : Entries])
        BY DEF Inv, TypeOK
      <4>2. DOMAIN past[p] = 1 .. last /\ last \in Nat
        BY <4>1
      <4> QED
        BY <3>2, <4>2 DEF EndInv
    <3>4. Shown(p)' = Shown(p) \cup {n} /\ n \notin Shown(p)
      BY <1>9, <2>2 DEF Shown, Answered
    <3> HIDE DEF last
    <3>5. PICK row2 \in [Shown(p)' -> DOMAIN past'[p]],
               entries2 \in [Shown(p)' -> DOMAIN past'[p]] :
            /\ row2[n] = k /\ entries2[n] = last
            /\ \A i \in Shown(p) : row2[i] = row[i] /\ entries2[i] = entries[i]
      <4> DEFINE f == [i \in Shown(p) \cup {n} |-> IF i = n THEN k ELSE row[i]]
                 g == [i \in Shown(p) \cup {n} |-> IF i = n THEN last ELSE entries[i]]
      <4>1. f \in [Shown(p)' -> DOMAIN past'[p]] /\ g \in [Shown(p)' -> DOMAIN past'[p]]
        BY <1>9, <3>1, <3>3, <3>4
      <4>2. /\ f[n] = k /\ g[n] = last
            /\ \A i \in Shown(p) : f[i] = row[i] /\ g[i] = entries[i]
        BY <3>4
      <4> QED
        BY <4>1, <4>2
    <3>7. Placed(p, row2, entries2)'
      <4> SUFFICES ASSUME NEW i \in Shown(p)'
                   PROVE  /\ past'[p][row2[i]].row = answers'[i].row
                          /\ past'[p][entries2[i]].entries = answers'[i].entries
                          /\ row2[i] <= entries2[i]
                          /\ \A j \in Shown(p)' : i < j => entries2[i] <= row2[j]
        BY DEF Placed
      <4>1. CASE i = n
        <5>1. \A j \in Shown(p)' : ~(i < j)
          BY <1>9, <3>4, <4>1 DEF Shown
        <5> QED
          BY <1>9, <2>2, <3>2, <3>3, <3>5, <4>1, <5>1
      <4>2. CASE i \in Shown(p)
        <5>1. answers'[i] = answers[i]
          BY <1>9, <4>2 DEF Shown
        <5>2. /\ past[p][row[i]].row = answers[i].row
              /\ past[p][entries[i]].entries = answers[i].entries
              /\ row[i] <= entries[i]
              /\ \A j \in Shown(p) : i < j => entries[i] <= row[j]
          BY <3>1, <4>2 DEF Placed
        <5>3. entries[i] <= k
          BY <3>2, <4>2
        <5> QED
          BY <1>9, <3>4, <3>5, <4>2, <5>1, <5>2, <5>3
      <4> QED
        BY <3>4, <4>1, <4>2
    <3>8. HeldFits(p, entries2)'
      BY <1>9 DEF HeldFits, Pending
    <3> QED
      BY <3>7, <3>8
  <2> QED
    BY <2>1, <2>2
<1> QED
  BY <1>10, <1>11 DEF ChainInv

LEMMA NextChain ==
  ASSUME Inv, ChainInv, EndInv, Next
  PROVE  ChainInv' /\ EndInv'
<1>1. CASE Rename
  BY <1>1, QuietChain DEF Rename, Shown, Answered, Pending, store
<1>2. CASE Receive
  <2>1. call'.done = 0
    BY <1>2 DEF Receive, NewCall
  <2> QED
    BY <1>2, <2>1, QuietChain DEF Receive, Shown, Answered, Pending, store
<1>3. CASE DatabaseFails
  BY <1>3, AnswerChain DEF DatabaseFails, Codes, Inv, TypeOK
<1>4. CASE SelectByRiotId
  <2>1. /\ call # None /\ call \in Calls /\ call.endpoint = "search" /\ call.done = 0
    BY <1>4, SearchFacts
  <2>2. CASE Answer("not_found", call) \/ Answer("ambiguous", call)
    BY <2>1, <2>2, AnswerChain DEF Codes
  <2>3. CASE \E p \in Players : Proceed([call EXCEPT !.player = p, !.row = players[p]])
    <3>1. PICK p \in Players : Proceed([call EXCEPT !.player = p, !.row = players[p]])
      BY <2>3
    <3> DEFINE c == [call EXCEPT !.player = p, !.row = players[p]]
    <3>2. players[p] \in Rows
      BY DEF Inv, TypeOK
    <3>3. c \in Calls /\ c.endpoint = "search" /\ c.done = 0 /\ Proceed(c)
      BY <2>1, <3>1, <3>2 DEF Calls
    <3> HIDE DEF c
    <3> QED
      BY <2>1, <3>3, ProceedChain
  <2> QED
    BY <1>4, <2>2, <2>3 DEF SelectByRiotId
<1>5. CASE SelectMatches
  <2>1. /\ call # None /\ call \in Calls /\ call.endpoint # "profile" /\ call.done = 1
    BY <1>5, DueFacts DEF SelectMatches
  <2>2. PICK page \in Listings(Joined(call.player), call.limit, MatchKey) :
          Proceed([call EXCEPT !.page = page])
    BY <1>5 DEF SelectMatches, MatchListings
  <2> DEFINE c == [call EXCEPT !.page = page]
  <2>3. page \in Seq(Matches)
    BY <2>1, <2>2, PageType, FiniteAssumption DEF Inv, TypeOK, Calls
  <2>4. c \in Calls /\ c.endpoint = call.endpoint /\ c.done = 1 /\ Proceed(c)
    BY <2>1, <2>2, <2>3 DEF Calls
  <2> HIDE DEF c
  <2> QED
    BY <2>1, <2>4, ProceedChain
<1>6. CASE SelectChampions
  <2>1. /\ call # None /\ call \in Calls /\ call.endpoint # "profile" /\ call.done = 1
    BY <1>6, DueFacts DEF SelectChampions
  <2>2. PICK listing \in ChampionListings(call.player, call.limit) :
          Proceed([call EXCEPT !.stats = StatsOf(call.player, listing)])
    BY <1>6 DEF SelectChampions
  <2> DEFINE c == [call EXCEPT !.stats = StatsOf(call.player, listing)]
  <2>3. StatsOf(call.player, listing) \in Seq(Stats)
    <3>1. call.limit \in Nat /\ matches \subseteq Matches
      BY <2>1, FiniteAssumption DEF Inv, TypeOK, Calls
    <3> QED
      BY <2>2, <3>1, StatsType
  <2>4. c \in Calls /\ c.endpoint = call.endpoint /\ c.done = 1 /\ Proceed(c)
    BY <2>1, <2>2, <2>3 DEF Calls
  <2> HIDE DEF c
  <2> QED
    BY <2>1, <2>4, ProceedChain
<1> QED
  BY <1>1, <1>2, <1>3, <1>4, <1>5, <1>6, RefreshChain, SelectByPuuidChain,
     SelectRankedChain DEF Next

(* However many refreshes commit and wherever they fall between the        *)
(* SELECTs, the profiles a client is shown of a player run forward.        *)
THEOREM ProfilesForward == Spec => []ProfilesRunForward
<1>1. Inv /\ Init => ChainInv /\ EndInv
  <2> SUFFICES ASSUME Inv, Init PROVE ChainInv /\ EndInv
    OBVIOUS
  <2>1. \A p \in Players : past[p] = <<[row |-> players[p], entries |-> ranked[p]]>>
    BY DEF Init
  <2>2. EndInv
    <3>1. \A p \in Players :
            Len(past[p]) = 1 /\ past[p][1] = [row |-> players[p], entries |-> ranked[p]]
      BY <2>1
    <3>2. ASSUME NEW p \in Players
          PROVE  /\ Len(past[p]) > 0
                 /\ past[p][Len(past[p])].row = players[p]
                 /\ past[p][Len(past[p])].entries = ranked[p]
      <4>1. Len(past[p]) = 1
        BY <3>1
      <4> DEFINE first == [row |-> players[p], entries |-> ranked[p]]
      <4>2. first.row = players[p] /\ first.entries = ranked[p]
        OBVIOUS
      <4>3. past[p][1] = first
        BY <3>1
      <4> HIDE DEF first
      <4> QED
        BY <4>1, <4>2, <4>3
    <3> QED
      BY <3>2 DEF EndInv
  <2>3. \A p \in Players : Shown(p) = {} /\ ~Pending(p)
    BY DEF Init, Shown, Pending
  <2>4. ASSUME NEW p \in Players
        PROVE  \E row, entries \in [Shown(p) -> DOMAIN past[p]] :
                 Placed(p, row, entries) /\ HeldFits(p, entries)
    <3>1. [i \in {} |-> 1] \in [Shown(p) -> DOMAIN past[p]]
      BY <2>3
    <3> QED
      BY <2>3, <3>1 DEF Placed, HeldFits
  <2> QED
    BY <2>2, <2>4 DEF ChainInv
<1>2. Inv /\ ChainInv /\ EndInv /\ [Next]_vars => (ChainInv /\ EndInv)'
  <2> SUFFICES ASSUME Inv, ChainInv, EndInv, [Next]_vars PROVE ChainInv' /\ EndInv'
    OBVIOUS
  <2>1. CASE UNCHANGED vars
    BY <2>1, QuietChain DEF vars, Shown, Answered, Pending, store
  <2> QED
    BY <2>1, NextChain
<1>3. ChainInv => ProfilesRunForward
  BY DEF ChainInv, Placed, Shown, ProfilesRunForward
<1> QED
  BY <1>1, <1>2, <1>3, Invariance, PTL DEF Spec

----------------------------------------------------------------------------
(* The lists of matches and of champions *)

(* A page is made of p's matches; what it leaves out it leaves out for     *)
(* later matches, and only if it is full.                                  *)
PageFits(p, page, limit) ==
  /\ Range(page) \subseteq Joined(p)
  /\ Len(page) < limit => Range(page) = Joined(p)
  /\ \A m \in Joined(p) \ Range(page) :
       /\ Len(page) = limit
       /\ \A n \in Range(page) :
            Start[n] > Start[m] \/ (Start[n] = Start[m] /\ Id[n] > Id[m])

(* The statistics count p's games, and miss no champion unless full. *)
StatsFit(p, stats, limit) ==
  /\ \A s \in Range(stats) :
       s.champion \in Champions /\ s.games = Cardinality(Games(p, s.champion))
  /\ Len(stats) < limit =>
       \A c \in Champions : Games(p, c) # {} => \E s \in Range(stats) : s.champion = c

(* The games of champion c that a page of p's matches shows. *)
Listed(p, page, c) ==
  Cardinality({m \in Range(page) \cap SoloQ : Played[p][m].champion = c})

(* The statistics in answer i tell the story of the page in answer j. *)
OneStory(i, j) ==
  LET p == answers[i].player IN
  /\ i < j /\ Len(answers[j].page) < answers[j].limit =>
       \A s \in Range(answers[i].stats) :
         s.games <= Listed(p, answers[j].page, s.champion)
  /\ j < i /\ Len(answers[i].stats) < answers[i].limit =>
       \A c \in Champions : Listed(p, answers[j].page, c) > 0 =>
         \E s \in Range(answers[i].stats) :
           s.champion = c /\ s.games >= Listed(p, answers[j].page, c)

StoriesAgree ==
  \A i, j \in DOMAIN answers :
    SamePlayer(i, j) /\ Answered(i, "champions") /\ Answered(j, "matches") => OneStory(i, j)

(* What stays true of a list while refreshes add matches to those it was   *)
(* made of: what it shows is still there.                                  *)
StillThere(i) ==
  /\ Answered(i, "matches") => Range(answers[i].page) \subseteq Joined(answers[i].player)
  /\ Answered(i, "champions") =>
       \A s \in Range(answers[i].stats) :
         s.games <= Cardinality(Games(answers[i].player, s.champion))

ListsInv ==
  /\ \A i \in DOMAIN answers : StillThere(i)
  /\ MatchLeavesOnlyForLater /\ StoriesAgree

(* A list without repetitions that is shorter than its limit has them all. *)
LEMMA ShortListIsComplete ==
  ASSUME NEW S, IsFiniteSet(S), NEW limit \in Nat,
         NEW s \in [1 .. IF Cardinality(S) < limit THEN Cardinality(S) ELSE limit -> S],
         IsInjective(s)
  PROVE  /\ s \in Seq(S) /\ Range(s) \subseteq S
         /\ Len(s) \in Nat /\ DOMAIN s = 1 .. Len(s)
         /\ Range(s) = S \/ Len(s) = limit
         /\ Len(s) < limit => Range(s) = S
<1>1. Cardinality(S) \in Nat
  BY FS_CardinalityType
<1>2. CASE Cardinality(S) < limit
  <2>1. s \in Injection(1 .. Cardinality(S), S)
    BY <1>2 DEF Injection
  <2>2. IsFiniteSet(1 .. Cardinality(S)) /\ Cardinality(1 .. Cardinality(S)) = Cardinality(S)
    BY <1>1, FS_Interval
  <2>3. s \in Surjection(1 .. Cardinality(S), S)
    BY <2>1, <2>2, FS_Injection
  <2> QED
    BY <1>1, <1>2, <2>3 DEF Surjection, Range
<1>3. CASE ~(Cardinality(S) < limit)
  BY <1>1, <1>3 DEF Range
<1> QED
  BY <1>2, <1>3

LEMMA MatchPageFits ==
  ASSUME matches \subseteq Matches, NEW p, NEW limit \in Nat,
         NEW page \in MatchListings(p, limit)
  PROVE  PageFits(p, page, limit)
<1>1. Joined(p) \subseteq Matches /\ IsFiniteSet(Joined(p))
  BY FiniteAssumption, FS_Subset DEF Joined
<1>2. /\ page \in [1 .. IF Cardinality(Joined(p)) < limit THEN Cardinality(Joined(p))
                        ELSE limit -> Joined(p)]
      /\ IsInjective(page)
      /\ \A i \in DOMAIN page : \A m \in Joined(p) \ {page[j] : j \in 1 .. i} :
           ~Greater(MatchKey(m), MatchKey(page[i]))
  BY DEF MatchListings, Listings
<1>3. /\ Len(page) \in Nat /\ DOMAIN page = 1 .. Len(page) /\ Range(page) \subseteq Joined(p)
      /\ Range(page) = Joined(p) \/ Len(page) = limit
      /\ Len(page) < limit => Range(page) = Joined(p)
  BY <1>1, <1>2, ShortListIsComplete
<1>4. ASSUME NEW m \in Joined(p) \ Range(page), NEW n \in Range(page)
      PROVE  Start[n] > Start[m] \/ (Start[n] = Start[m] /\ Id[n] > Id[m])
  <2>1. PICK i \in DOMAIN page : page[i] = n
    BY DEF Range
  <2>2. m \notin {page[j] : j \in 1 .. i}
    <3>1. Len(page) \in Nat /\ i \in 1 .. Len(page)
      BY <1>3, <2>1
    <3>2. 1 .. i \subseteq 1 .. Len(page)
      BY <3>1
    <3>3. 1 .. i \subseteq DOMAIN page
      BY <1>3, <3>2
    <3> QED
      BY <3>3 DEF Range
  <2>3. ~Greater(<<Start[m], Id[m]>>, <<Start[n], Id[n]>>)
    BY <1>2, <2>1, <2>2 DEF MatchKey
  <2>4. /\ m \in Matches /\ n \in Matches /\ m # n
        /\ Start[m] \in Nat /\ Start[n] \in Nat /\ Id[m] \in Nat /\ Id[n] \in Nat
    BY <1>1, <1>3, OrderAssumption
  <2>5. Id[m] # Id[n]
    BY <2>4, OrderAssumption DEF IsInjective
  <2>6. ~(Start[m] > Start[n]) /\ ~(Start[m] = Start[n] /\ Id[m] > Id[n])
    BY <2>3, <2>4 DEF Greater
  <2> QED
    BY <2>4, <2>5, <2>6
<1> QED
  BY <1>3, <1>4 DEF PageFits

LEMMA ChampionStatsFit ==
  ASSUME matches \subseteq Matches, NEW p, NEW limit \in Nat,
         NEW listing \in ChampionListings(p, limit)
  PROVE  StatsFit(p, StatsOf(p, listing), limit)
<1> DEFINE S == {c \in Champions : Games(p, c) # {}}
<1>1. IsFiniteSet(S)
  BY FiniteAssumption, FS_Subset
<1>2. /\ listing \in [1 .. IF Cardinality(S) < limit THEN Cardinality(S) ELSE limit -> S]
      /\ IsInjective(listing)
  BY DEF ChampionListings, Listings
<1> HIDE DEF S
<1>3. /\ DOMAIN listing = 1 .. Len(listing) /\ Range(listing) \subseteq S
      /\ Len(listing) \in Nat
      /\ Len(listing) < limit => Range(listing) = S
  BY <1>1, <1>2, ShortListIsComplete
<1> DEFINE stats == StatsOf(p, listing)
<1>4. stats \in Seq(Stats)
  BY StatsType
<1>5. /\ DOMAIN stats = DOMAIN listing
      /\ \A i \in DOMAIN stats :
           /\ stats[i].champion = listing[i]
           /\ stats[i].games = Cardinality(Games(p, listing[i]))
  BY DEF StatsOf
<1> HIDE DEF stats
<1>6. Len(stats) = Len(listing)
  <2>1. Len(stats) \in Nat /\ DOMAIN stats = 1 .. Len(stats)
    BY <1>4
  <2>2. Len(listing) \in Nat /\ 1 .. Len(stats) = 1 .. Len(listing)
    BY <1>3, <1>5, <2>1
  <2> QED
    BY <2>1, <2>2, FS_Interval
<1>7. \A s \in Range(stats) :
        s.champion \in Champions /\ s.games = Cardinality(Games(p, s.champion))
  BY <1>3, <1>5 DEF Range, S
<1>8. ASSUME Len(stats) < limit, NEW c \in S
      PROVE  \E s \in Range(stats) : s.champion = c
  <2>1. Range(listing) = S
    BY <1>3, <1>6, <1>8
  <2>2. PICK i \in DOMAIN listing : listing[i] = c
    BY <1>8, <2>1 DEF Range
  <2> QED
    BY <1>5, <2>2 DEF Range
<1>9. StatsFit(p, stats, limit)
  BY <1>7, <1>8 DEF StatsFit, S
<1> QED
  BY <1>9 DEF stats

(* A champion's games on a page of p's matches are games of p's. *)
LEMMA ListedGames ==
  ASSUME matches \subseteq Matches, NEW p, NEW page, Range(page) \subseteq Joined(p), NEW c
  PROVE  /\ Listed(p, page, c) \in Nat /\ Cardinality(Games(p, c)) \in Nat
         /\ Listed(p, page, c) <= Cardinality(Games(p, c))
         /\ Listed(p, page, c) > 0 => Games(p, c) # {}
         /\ Range(page) = Joined(p) => Listed(p, page, c) = Cardinality(Games(p, c))
<1> DEFINE G == {m \in Range(page) \cap SoloQ : Played[p][m].champion = c}
<1>1. IsFiniteSet(Games(p, c))
  BY FiniteAssumption, FS_Subset DEF Games, Joined
<1>2. G \in SUBSET Games(p, c) /\ (Range(page) = Joined(p) => G = Games(p, c))
  BY DEF Games
<1>3. Listed(p, page, c) = Cardinality(G)
  BY DEF Listed
<1> HIDE DEF G
<1>4. /\ IsFiniteSet(G) /\ Cardinality(G) \in Nat /\ Cardinality(Games(p, c)) \in Nat
      /\ Cardinality(G) <= Cardinality(Games(p, c))
  BY <1>1, <1>2, FS_Subset, FS_CardinalityType
<1>5. Cardinality(G) > 0 => Games(p, c) # {}
  BY <1>2, FS_EmptySet
<1> QED
  BY <1>2, <1>3, <1>4, <1>5

LEMMA GamesGrow ==
  ASSUME matches \subseteq matches', matches' \subseteq Matches, links \subseteq links',
         NEW p, NEW c
  PROVE  /\ Joined(p) \subseteq Joined(p)'
         /\ Cardinality(Games(p, c)) \in Nat /\ Cardinality(Games(p, c)') \in Nat
         /\ Cardinality(Games(p, c)) <= Cardinality(Games(p, c)')
<1> DEFINE later == Games(p, c)'
<1>1. Joined(p) \subseteq Joined(p)' /\ Joined(p)' \subseteq Matches
  BY DEF Joined
<1>2. Games(p, c) \in SUBSET later /\ IsFiniteSet(later)
  BY <1>1, FiniteAssumption, FS_Subset DEF Games
<1> HIDE DEF later
<1>3. /\ IsFiniteSet(Games(p, c)) /\ Cardinality(later) \in Nat
      /\ Cardinality(Games(p, c)) \in Nat /\ Cardinality(Games(p, c)) <= Cardinality(later)
  BY <1>2, FS_Subset, FS_CardinalityType
<1> QED
  BY <1>1, <1>3 DEF later

(* A list that fits joins those the client has got. *)
LEMMA AppendLists ==
  ASSUME Inv, ListsInv, NEW a \in Calls, answers' = Append(answers, a),
         UNCHANGED store,
         a.code = "ok" => a.player \in Players,
         a.code = "ok" /\ a.endpoint = "matches" => PageFits(a.player, a.page, a.limit),
         a.code = "ok" /\ a.endpoint = "champions" => StatsFit(a.player, a.stats, a.limit)
  PROVE  ListsInv'
<1> DEFINE n == Len(answers) + 1
<1>1. /\ n \in Nat /\ DOMAIN answers = 1 .. n - 1 /\ DOMAIN answers' = 1 .. n
      /\ \A i \in DOMAIN answers : answers'[i] = answers[i]
      /\ answers'[n] = a
  <2>1. answers \in Seq(Calls)
    BY DEF Inv, TypeOK
  <2> QED
    BY <2>1
<1> HIDE DEF n
<1>2. matches \subseteq Matches /\ matches' = matches /\ links' = links
  BY DEF Inv, TypeOK, store
<1>3. \A p, c : Games(p, c)' = Games(p, c) /\ Joined(p)' = Joined(p)
  BY <1>2 DEF Games, Joined
<1>4. \A p, c : Cardinality(Games(p, c)) \in Nat
  BY <1>2, GamesFinite
<1>5. \A i \in DOMAIN answers' : i = n \/ i \in DOMAIN answers
  BY <1>1
<1>6. ASSUME NEW i \in DOMAIN answers' PROVE StillThere(i)'
  <2>1. CASE i \in DOMAIN answers
    <3>1. StillThere(i) /\ answers'[i] = answers[i]
      BY <1>1, <2>1 DEF ListsInv
    <3> QED
      BY <3>1, <1>3 DEF StillThere, Answered
  <2>2. CASE i = n
    BY <1>1, <1>3, <1>4, <2>2 DEF StillThere, Answered, PageFits, StatsFit
  <2> QED
    BY <1>5, <2>1, <2>2
<1>7. MatchLeavesOnlyForLater'
  <2> SUFFICES ASSUME NEW i \in DOMAIN answers', NEW j \in DOMAIN answers',
                      i < j, SamePlayer(i, j)', answers'[i].limit = answers'[j].limit,
                      Answered(i, "matches")', Answered(j, "matches")',
                      NEW m \in Range(answers'[i].page) \ Range(answers'[j].page)
               PROVE  /\ Len(answers'[j].page) = answers'[j].limit
                      /\ \A l \in Range(answers'[j].page) :
                           Start[l] > Start[m] \/ (Start[l] = Start[m] /\ Id[l] > Id[m])
    BY DEF MatchLeavesOnlyForLater
  <2>1. i \in DOMAIN answers /\ answers'[i] = answers[i]
    BY <1>1
  <2>2. CASE j \in DOMAIN answers
    BY <1>1, <2>1, <2>2 DEF ListsInv, MatchLeavesOnlyForLater, SamePlayer, Answered
  <2>3. CASE j = n
    <3>1. PageFits(a.player, a.page, a.limit) /\ answers'[j] = a
      BY <1>1, <2>3 DEF Answered
    <3>2. m \in Joined(a.player) \ Range(a.page)
      BY <2>1, <3>1 DEF ListsInv, StillThere, Answered, SamePlayer
    <3> QED
      BY <3>1, <3>2 DEF PageFits
  <2> QED
    BY <1>5, <2>2, <2>3
<1>8. ASSUME NEW i \in DOMAIN answers', NEW j \in DOMAIN answers', SamePlayer(i, j)',
             Answered(i, "champions")', Answered(j, "matches")'
      PROVE  OneStory(i, j)'
  <2> DEFINE p == answers'[i].player
  <2>1. CASE i \in DOMAIN answers /\ j \in DOMAIN answers
    <3>1. answers'[i] = answers[i] /\ answers'[j] = answers[j]
      BY <1>1, <2>1
    <3>2. OneStory(i, j)
      BY <1>8, <2>1, <3>1 DEF ListsInv, StoriesAgree, SamePlayer, Answered
    <3> QED
      BY <3>1, <3>2 DEF OneStory, Listed
  <2>2. CASE i \in DOMAIN answers /\ j = n
    <3>1. PageFits(p, a.page, a.limit) /\ answers'[j] = a /\ answers'[i] = answers[i]
      BY <1>1, <1>8, <2>2 DEF Answered, SamePlayer
    <3>2. ASSUME Len(a.page) < a.limit, NEW s \in Range(answers[i].stats)
          PROVE  s.games <= Listed(p, a.page, s.champion)
      <4>1. Range(a.page) = Joined(p)
        BY <3>1, <3>2 DEF PageFits
      <4>2. s.games <= Cardinality(Games(p, s.champion))
        BY <1>8, <2>2, <3>1, <3>2 DEF ListsInv, StillThere, Answered
      <4>3. Listed(p, a.page, s.champion) = Cardinality(Games(p, s.champion))
        BY <1>2, <4>1, ListedGames
      <4> QED
        BY <4>2, <4>3
    <3>3. ~(j < i)
      BY <1>1, <2>2
    <3> HIDE DEF p
    <3>4. p = answers'[i].player
      BY DEF p
    <3> QED
      BY <3>1, <3>2, <3>3, <3>4 DEF OneStory, Listed
  <2>3. CASE j \in DOMAIN answers /\ i = n
    <3>1. StatsFit(p, a.stats, a.limit) /\ answers'[i] = a /\ answers'[j] = answers[j]
      BY <1>1, <1>8, <2>3 DEF Answered, SamePlayer
    <3>2. ASSUME Len(a.stats) < a.limit, NEW c \in Champions,
                 Listed(p, answers[j].page, c) > 0
          PROVE  \E s \in Range(a.stats) :
                   s.champion = c /\ s.games >= Listed(p, answers[j].page, c)
      <4>1. Range(answers[j].page) \subseteq Joined(p)
        BY <1>8, <2>3, <3>1 DEF ListsInv, StillThere, Answered, SamePlayer
      <4>2. /\ Listed(p, answers[j].page, c) \in Nat /\ Cardinality(Games(p, c)) \in Nat
            /\ Listed(p, answers[j].page, c) <= Cardinality(Games(p, c))
            /\ Games(p, c) # {}
        BY <1>2, <3>2, <4>1, ListedGames
      <4>3. PICK s \in Range(a.stats) : s.champion = c
        BY <3>1, <3>2, <4>2 DEF StatsFit
      <4>4. s.games = Cardinality(Games(p, c))
        BY <3>1, <4>3 DEF StatsFit
      <4> QED
        BY <4>2, <4>3, <4>4
    <3>3. ~(i < j)
      BY <1>1, <2>3
    <3> HIDE DEF p
    <3>4. p = answers'[i].player
      BY DEF p
    <3> QED
      BY <3>1, <3>2, <3>3, <3>4 DEF OneStory, Listed
  <2>4. i # j
    BY <1>8 DEF Answered
  <2> QED
    BY <1>5, <2>1, <2>2, <2>3, <2>4
<1>9. StoriesAgree'
  BY <1>8 DEF StoriesAgree
<1> QED
  BY <1>6, <1>7, <1>9 DEF ListsInv

(* A step that answers nothing leaves the lists true, for matches and      *)
(* links are only ever added.                                              *)
LEMMA QuietLists ==
  ASSUME Inv, ListsInv, UNCHANGED answers, matches' \subseteq Matches,
         matches \subseteq matches', links \subseteq links'
  PROVE  ListsInv'
<1>1. ASSUME NEW i \in DOMAIN answers PROVE StillThere(i)'
  <2>1. StillThere(i) /\ answers \in Seq(Calls)
    BY DEF ListsInv, Inv, TypeOK
  <2>2. CASE Answered(i, "matches")
    BY <2>1, <2>2, GamesGrow DEF StillThere, Answered
  <2>3. CASE Answered(i, "champions")
    <3>1. ASSUME NEW s \in Range(answers[i].stats)
          PROVE  s.games <= Cardinality(Games(answers[i].player, s.champion)')
      <4>1. answers[i] \in Calls
        BY <2>1
      <4>2. answers[i].stats \in Seq(Stats)
        BY <4>1 DEF Calls
      <4>3. s \in Stats
        <5> HIDE DEF Stats
        <5>1. PICK k \in DOMAIN answers[i].stats : s = answers[i].stats[k]
          BY DEF Range
        <5> QED
          BY <4>2, <5>1
      <4>4. s.games \in Nat
        BY <4>3 DEF Stats
      <4>5. s.games <= Cardinality(Games(answers[i].player, s.champion))
        BY <2>1, <2>3 DEF StillThere
      <4> QED
        BY <4>4, <4>5, GamesGrow
    <3> QED
      BY <2>3, <3>1 DEF StillThere, Answered
  <2> QED
    BY <2>2, <2>3 DEF StillThere, Answered
<1> QED
  BY <1>1 DEF ListsInv, MatchLeavesOnlyForLater, StoriesAgree, OneStory, Listed, Answered, SamePlayer

(* An answer that is no list. *)
LEMMA AnswerLists ==
  ASSUME Inv, ListsInv, NEW c \in Calls, NEW code \in Codes, Answer(code, c),
         code = "ok" => c.endpoint \in {"search", "profile"} /\ c.player \in Players
  PROVE  ListsInv'
<1> DEFINE a == [c EXCEPT !.code = code]
<1>1. a \in Calls /\ a.code = code /\ a.endpoint = c.endpoint /\ a.player = c.player
  BY DEF Calls
<1>2. answers' = Append(answers, a) /\ UNCHANGED store
  BY DEF Answer
<1> HIDE DEF a
<1> QED
  BY <1>1, <1>2, AppendLists

(* A statement that leaves the request at a search or a profile, or in     *)
(* need of another statement.                                              *)
LEMMA ProceedLists ==
  ASSUME Inv, ListsInv, NEW c \in Calls, c.done \in 0 .. 1, c.player \in Players, Proceed(c),
         c.endpoint \in {"search", "profile"} \/ c.done = 0
  PROVE  ListsInv'
<1> DEFINE next == [c EXCEPT !.done = @ + 1]
<1>1. /\ next \in Calls /\ next.endpoint = c.endpoint /\ next.player = c.player
      /\ next.done = c.done + 1 /\ c.endpoint \in Endpoints
  BY DEF Calls
<1>2. \/ next.done = Len(Selects[c.endpoint]) /\ Answer("ok", next)
      \/ call' = next /\ UNCHANGED <<store, riotId, account, past, answers>>
  BY DEF Proceed
<1> HIDE DEF next
<1>3. CASE next.done = Len(Selects[c.endpoint]) /\ Answer("ok", next)
  <2>1. c.endpoint \in {"search", "profile"}
    <3> SUFFICES ASSUME c.endpoint \in {"matches", "champions"} PROVE FALSE
      BY <1>1 DEF Endpoints
    <3> QED
      BY <1>1, <1>3, SelectsLengths
  <2> QED
    BY <1>1, <1>3, <2>1, AnswerLists DEF Codes
<1>4. CASE call' = next /\ UNCHANGED <<store, riotId, account, past, answers>>
  BY <1>4, QuietLists DEF Inv, TypeOK, store
<1> QED
  BY <1>2, <1>3, <1>4

(* The last statement of a list: the answer is what it returned. *)
LEMMA LastSelect ==
  ASSUME NEW c \in Calls, c.endpoint \in {"matches", "champions"}, c.done = 1, Proceed(c)
  PROVE  \E a \in Calls :
           /\ answers' = Append(answers, a) /\ UNCHANGED store
           /\ a.endpoint = c.endpoint /\ a.player = c.player /\ a.limit = c.limit
           /\ a.page = c.page /\ a.stats = c.stats
<1> DEFINE next == [c EXCEPT !.done = @ + 1]
           a == [next EXCEPT !.code = "ok"]
<1>1. /\ next \in Calls /\ next.done = 2
      /\ next.endpoint = c.endpoint /\ next.player = c.player /\ next.limit = c.limit
      /\ next.page = c.page /\ next.stats = c.stats
  BY DEF Calls
<1>2. next.done = Len(Selects[c.endpoint])
  BY <1>1, SelectsLengths
<1>3. Answer("ok", next)
  BY <1>2 DEF Proceed
<1> HIDE DEF next
<1>4. /\ a \in Calls
      /\ a.endpoint = c.endpoint /\ a.player = c.player /\ a.limit = c.limit
      /\ a.page = c.page /\ a.stats = c.stats
  BY <1>1 DEF Calls, Codes
<1>5. answers' = Append(answers, a) /\ UNCHANGED store
  BY <1>3 DEF Answer
<1> HIDE DEF a
<1> QED
  BY <1>4, <1>5

LEMMA RefreshGrows ==
  ASSUME Inv, Refresh
  PROVE  /\ UNCHANGED answers /\ matches' \subseteq Matches
         /\ matches \subseteq matches' /\ links \subseteq links'
<1>1. PICK r \in Requests, p \in Players :
        \/ \E entries \in SUBSET Queues :
             \E linked \in SUBSET {m \in Matches : p \in Participants[m]} :
               Store!RefreshSucceeds(r, p, entries, linked)
        \/ Store!RefreshFails(r, p)
  BY DEF Refresh
<1>2. CASE Store!RefreshFails(r, p)
  BY <1>2 DEF Inv, TypeOK, Refresh, Store!RefreshFails
<1>3. CASE \E entries \in SUBSET Queues :
             \E linked \in SUBSET {m \in Matches : p \in Participants[m]} :
               Store!RefreshSucceeds(r, p, entries, linked)
  BY <1>3 DEF Inv, TypeOK, Refresh, Store!RefreshSucceeds
<1> QED
  BY <1>1, <1>2, <1>3

LEMMA NextLists ==
  ASSUME Inv, ListsInv, Next
  PROVE  ListsInv'
<1> USE DEF Codes
<1>1. CASE Rename \/ Receive
  BY <1>1, QuietLists DEF Rename, Receive, store, Inv, TypeOK
<1>2. CASE Refresh
  BY <1>2, RefreshGrows, QuietLists
<1>3. CASE DatabaseFails
  BY <1>3, AnswerLists DEF DatabaseFails, Inv, TypeOK
<1>4. CASE SelectByRiotId
  <2>1. /\ call # None /\ call \in Calls /\ call.endpoint = "search" /\ call.done = 0
    BY <1>4, SearchFacts
  <2>2. CASE Answer("not_found", call) \/ Answer("ambiguous", call)
    BY <2>1, <2>2, AnswerLists
  <2>3. CASE \E p \in Players : Proceed([call EXCEPT !.player = p, !.row = players[p]])
    <3>1. PICK p \in Players : Proceed([call EXCEPT !.player = p, !.row = players[p]])
      BY <2>3
    <3> DEFINE c == [call EXCEPT !.player = p, !.row = players[p]]
    <3>2. players[p] \in Rows
      BY DEF Inv, TypeOK
    <3>3. c \in Calls /\ c.endpoint = "search" /\ c.done = 0 /\ c.player = p /\ Proceed(c)
      BY <2>1, <3>1, <3>2 DEF Calls
    <3> HIDE DEF c
    <3> QED
      BY <3>3, ProceedLists
  <2> QED
    BY <1>4, <2>2, <2>3 DEF SelectByRiotId
<1>5. CASE SelectByPuuid
  <2>1. /\ call # None /\ call \in Calls /\ call.player \in Players /\ call.done = 0
    BY <1>5, DueFacts DEF SelectByPuuid
  <2>2. CASE Answer("not_found", call)
    BY <2>1, <2>2, AnswerLists
  <2>3. CASE Proceed([call EXCEPT !.row = players[call.player]])
    <3> DEFINE c == [call EXCEPT !.row = players[call.player]]
    <3>1. players[call.player] \in Rows
      BY <2>1 DEF Inv, TypeOK
    <3>2. c \in Calls /\ c.done = 0 /\ c.player = call.player /\ Proceed(c)
      BY <2>1, <2>3, <3>1 DEF Calls
    <3> HIDE DEF c
    <3> QED
      BY <2>1, <3>2, ProceedLists
  <2> QED
    BY <1>5, <2>2, <2>3 DEF SelectByPuuid
<1>6. CASE SelectRanked
  <2>1. /\ call # None /\ call \in Calls /\ call.player \in Players /\ call.done = 1
        /\ Due("ranked") /\ call.endpoint \in {"profile", "matches", "champions"}
    BY <1>6, DueFacts DEF SelectRanked
  <2>2. call.endpoint = "profile"
    BY <2>1, SelectsLengths DEF Due
  <2> DEFINE c == [call EXCEPT !.entries = ranked[call.player]]
  <2>3. ranked[call.player] \in Entries
    BY <2>1 DEF Inv, TypeOK
  <2>4. /\ c \in Calls /\ c.done = 1 /\ c.player = call.player /\ c.endpoint = "profile"
        /\ Proceed(c)
    BY <1>6, <2>1, <2>2, <2>3 DEF Calls, SelectRanked
  <2> HIDE DEF c
  <2> QED
    BY <2>1, <2>4, ProceedLists
<1>7. CASE SelectMatches
  <2>1. /\ call # None /\ call \in Calls /\ call.player \in Players /\ call.done = 1
        /\ Due("matches") /\ call.endpoint \in {"profile", "matches", "champions"}
    BY <1>7, DueFacts DEF SelectMatches
  <2>2. call.endpoint = "matches"
    BY <2>1, SelectsLengths DEF Due
  <2>3. PICK page \in MatchListings(call.player, call.limit) :
          Proceed([call EXCEPT !.page = page])
    BY <1>7 DEF SelectMatches
  <2> DEFINE c == [call EXCEPT !.page = page]
  <2>4. matches \subseteq Matches /\ call.limit \in Nat
    BY <2>1, FiniteAssumption DEF Inv, TypeOK, Calls
  <2>5. page \in Seq(Matches) /\ PageFits(call.player, page, call.limit)
    BY <2>3, <2>4, PageType, MatchPageFits DEF MatchListings
  <2>6. /\ c \in Calls /\ c.endpoint = "matches" /\ c.done = 1 /\ c.player = call.player
        /\ c.limit = call.limit /\ c.page = page /\ Proceed(c)
    BY <2>1, <2>2, <2>3, <2>5 DEF Calls
  <2> HIDE DEF c
  <2> QED
    BY <2>1, <2>5, <2>6, LastSelect, AppendLists
<1>8. CASE SelectChampions
  <2>1. /\ call # None /\ call \in Calls /\ call.player \in Players /\ call.done = 1
        /\ Due("champions") /\ call.endpoint \in {"profile", "matches", "champions"}
    BY <1>8, DueFacts DEF SelectChampions
  <2>2. call.endpoint = "champions"
    BY <2>1, SelectsLengths DEF Due
  <2>3. PICK listing \in ChampionListings(call.player, call.limit) :
          Proceed([call EXCEPT !.stats = StatsOf(call.player, listing)])
    BY <1>8 DEF SelectChampions
  <2> DEFINE stats == StatsOf(call.player, listing)
             c == [call EXCEPT !.stats = stats]
  <2>4. matches \subseteq Matches /\ call.limit \in Nat
    BY <2>1, FiniteAssumption DEF Inv, TypeOK, Calls
  <2>5. stats \in Seq(Stats) /\ StatsFit(call.player, stats, call.limit)
    BY <2>3, <2>4, StatsType, ChampionStatsFit
  <2> HIDE DEF stats
  <2>6. /\ c \in Calls /\ c.endpoint = "champions" /\ c.done = 1 /\ c.player = call.player
        /\ c.limit = call.limit /\ c.stats = stats
    BY <2>1, <2>2, <2>5 DEF Calls
  <2>7. Proceed(c)
    BY <2>3 DEF stats
  <2> HIDE DEF c
  <2> QED
    BY <2>1, <2>5, <2>6, <2>7, LastSelect, AppendLists
<1> QED
  BY <1>1, <1>2, <1>3, <1>4, <1>5, <1>6, <1>7, <1>8 DEF Next

LEMMA ListsInvariance == Spec => []ListsInv
<1>1. Init => ListsInv
  BY DEF Init, ListsInv, MatchLeavesOnlyForLater, StoriesAgree
<1>2. Inv /\ ListsInv /\ [Next]_vars => ListsInv'
  <2> SUFFICES ASSUME Inv, ListsInv, [Next]_vars PROVE ListsInv'
    OBVIOUS
  <2>1. CASE UNCHANGED vars
    BY <2>1, QuietLists DEF vars, store, Inv, TypeOK
  <2> QED
    BY <2>1, NextLists
<1> QED
  BY <1>1, <1>2, Invariance, PTL DEF Spec

(* Whatever refreshes commit between the requests of a client, a match it  *)
(* was shown gives way to later ones only: the order of the list is total, *)
(* since the match id decides between games that began together.           *)
THEOREM MatchesGiveWayToLater == Spec => []MatchLeavesOnlyForLater
<1>1. ListsInv => MatchLeavesOnlyForLater
  BY DEF ListsInv
<1> QED
  BY <1>1, ListsInvariance, PTL

(* The champion statistics and the list of matches agree, whichever is     *)
(* read first, though each has a snapshot of its own.                      *)
THEOREM ChampionsAgree == Spec => []ChampionsAgreeWithMatches
<1>1. ListsInv => ChampionsAgreeWithMatches
  BY DEF ListsInv, StoriesAgree, OneStory, Listed, ChampionsAgreeWithMatches
<1> QED
  BY <1>1, ListsInvariance, PTL
=============================================================================
