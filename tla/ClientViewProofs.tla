-------------------------- MODULE ClientViewProofs --------------------------
(***************************************************************************)
(* A client connects once, finds its debris and its camera when it learns  *)
(* its id, and ends up with the players as the server has them.            *)
(***************************************************************************)
EXTENDS ClientView, SequenceTheorems, FiniteSetTheorems, TLAPS

Since == {"before", "after", "left"}
ResultType == {"LOGIN", "NEW", "SYNC", "DEAD"} \cup {"CHARACTER_STATE", "GATHER", "RESPAWN", "ROTATION"}
Message == [type : ResultType, id : Id, value : Nat]
Requests == RequestType \cup {"LOGIN", "GAME_STATE"}
Copy == [alive : BOOLEAN, fuel : Nat, resource : Nat]

Types ==
  /\ playing \subseteq Id /\ introduced \subseteq playing
  /\ fuel \in [Id -> Nat] /\ resource \in [Id -> Nat]
  /\ mPlayerId \in Id \cup {NoId} /\ m_MyPlayerId \in {mPlayerId, NoId}
  /\ requests \in Seq(Requests)
  /\ results \in Seq(Message)
  /\ DOMAIN m_PlayerList \subseteq Id /\ m_PlayerList \in [DOMAIN m_PlayerList -> Copy]
  /\ startsPosted \in {0, 1} /\ connections \in {0, 1}
  /\ placed \in BOOLEAN
  /\ since \in [Id -> Since]

(* Nothing asks for the play scene once it was entered.                    *)
Scenes ==
  /\ scene = "LOADING" => connections = 0
  /\ scene # "LOADING" => startsPosted = 0

(* A client that has not connected hears of nothing and is heard of by     *)
(* nobody.                                                                 *)
Unconnected ==
  connections = 0 =>
    /\ requests = <<>> /\ results = <<>> /\ m_PlayerList = <<>>
    /\ mPlayerId = NoId /\ m_MyPlayerId = NoId
    /\ \A p \in Id : since[p] = "before"

(* One LOGIN is written, and answered with the id of the session.          *)
Once(q, id) ==
  /\ \A i, j \in DOMAIN q : q[i] = "LOGIN" /\ q[j] = "LOGIN" => i = j
  /\ \A i \in DOMAIN q : q[i] = "LOGIN" => id = NoId
LoginOnce ==
  /\ Once(requests, mPlayerId)
  /\ \A i \in DOMAIN results : results[i].type = "LOGIN" => results[i].id = mPlayerId
  /\ mPlayerId # NoId /\ m_MyPlayerId = NoId =>
       \E i \in DOMAIN results : results[i].type = "LOGIN"

(* Who the client heard of, or will hear of, plays or has left meanwhile.  *)
Heard(p) == p \in DOMAIN m_PlayerList \/ \E i \in DOMAIN results : results[i].id = p
HeardOf == \A p \in Id : Heard(p) => p \in playing \/ since[p] = "left"

(* On an id that nobody left meanwhile the LOGIN is the first result.      *)
First ==
  mPlayerId # NoId /\ m_MyPlayerId = NoId =>
    \/ since[mPlayerId] = "left"
    \/ /\ mPlayerId \notin DOMAIN m_PlayerList
       /\ \A i \in DOMAIN results : results[i].id = mPlayerId =>
            \E j \in DOMAIN results : j <= i /\ results[j].type = "LOGIN"

AfterPlays == \A p \in Id : since[p] = "after" => p \in playing

(* The NEW of a player that is not known is on its way.                    *)
Coming ==
  \A p \in introduced : since[p] # "before" =>
    \/ p \in DOMAIN m_PlayerList
    \/ \E i \in DOMAIN results : results[i].type = "NEW" /\ results[i].id = p

(* What a result says of a player's value.                                 *)
Says(m, p, T) == m.id = p /\ m.type \in T
Said(m, new) == IF m.type = "RESPAWN" THEN new ELSE m.value

(* The client will have the value v for player p of whom it has the value  *)
(* c if it is in the domain D, once it has handled the results r: the last *)
(* result that says something says v.                                      *)
Tracks(D, c, r, p, T, new, v) ==
  /\ \A i \in DOMAIN r : Says(r[i], p, T) /\ (\A j \in DOMAIN r : j > i => ~Says(r[j], p, T))
                           => Said(r[i], new) = v
  /\ (\A i \in DOMAIN r : ~Says(r[i], p, T)) => (IF p \in D THEN c ELSE new) = v
  /\ p \notin D => \A i \in DOMAIN r : Says(r[i], p, T) =>
                     \E j \in DOMAIN r : j <= i /\ r[j].id = p /\ r[j].type = "NEW"

FuelTypes == {"CHARACTER_STATE", "RESPAWN"}
ResourceTypes == {"GATHER", "RESPAWN"}

FuelTracked(p) ==
  Tracks(DOMAIN m_PlayerList, m_PlayerList[p].fuel, results, p, FuelTypes, DEFAULT_FUEL, fuel[p])
ResourceTracked(p) ==
  Tracks(DOMAIN m_PlayerList, m_PlayerList[p].resource, results, p, ResourceTypes, 0, resource[p])
Tracked == \A p \in Id : since[p] = "after" => FuelTracked(p) /\ ResourceTracked(p)

Inv ==
  /\ Types /\ Scenes /\ Unconnected /\ LoginOnce /\ HeardOf /\ First /\ AfterPlays
  /\ Coming /\ Tracked /\ LoginPlaces

LEMMA Constants ==
  /\ Id \subseteq Nat /\ NoId \notin Id /\ NoId = -1 /\ DEFAULT_FUEL \in Nat
  /\ \A p \in Id : p + REAL_PLAYER_NUM \notin Id
<1>1. Id \subseteq Nat /\ (\A p \in Id : p < REAL_PLAYER_NUM) /\ REAL_PLAYER_NUM \in Nat
      /\ DEFAULT_FUEL \in Nat
  BY ClientViewAssumption
<1>2. \A p \in Id : p + REAL_PLAYER_NUM \notin Id
  BY <1>1
<1> QED  BY <1>1, <1>2 DEF NoId

-----------------------------------------------------------------------------
(* Queues.                                                                 *)

(* The queue s is r with the elements of b behind it.                      *)
Extended(s, r, b) ==
  /\ DOMAIN s \subseteq Nat \ {0}
  /\ \A i \in DOMAIN r : i \in DOMAIN s /\ s[i] = r[i]
  /\ \A i \in DOMAIN s : \/ i \in DOMAIN r
                         \/ (\A j \in DOMAIN r : j < i) /\ \E k \in DOMAIN b : s[i] = b[k]
  /\ \A k \in DOMAIN b : \E i \in DOMAIN s : (\A j \in DOMAIN r : j < i) /\ s[i] = b[k]

(* The queue s is r without its first element.                             *)
Shortened(s, r) ==
  /\ 1 \in DOMAIN r /\ DOMAIN r \subseteq Nat \ {0} /\ DOMAIN s \subseteq Nat \ {0}
  /\ \A i \in DOMAIN s : i + 1 \in DOMAIN r /\ s[i] = r[i + 1]
  /\ \A i \in DOMAIN r : i # 1 => i - 1 \in DOMAIN s /\ s[i - 1] = r[i]

LEMMA ConcatExtends ==
  ASSUME NEW T, NEW r \in Seq(T), NEW b \in Seq(T)
  PROVE  r \o b \in Seq(T) /\ Extended(r \o b, r, b)
<1> DEFINE s == r \o b   m == Len(r)   n == Len(b)
<1>1. /\ m \in Nat /\ n \in Nat /\ DOMAIN r = 1 .. m /\ DOMAIN b = 1 .. n
      /\ s \in Seq(T) /\ Len(s) = m + n
      /\ \A i \in 1 .. m + n : s[i] = IF i <= m THEN r[i] ELSE b[i - m]
  BY LenProperties, ConcatProperties
<1>2. DOMAIN s = 1 .. m + n
  BY <1>1, LenProperties
<1> HIDE DEF s, m, n
<1>3. ASSUME NEW i \in DOMAIN s
      PROVE  i \in DOMAIN r \/ ((\A j \in DOMAIN r : j < i) /\ \E k \in DOMAIN b : s[i] = b[k])
  <2>1. CASE i <= m
    BY <2>1, <1>1, <1>2
  <2>2. CASE ~(i <= m)
    <3>1. i \in 1 .. m + n
      BY <1>2
    <3>2. (\A j \in 1 .. m : j < i) /\ i - m \in 1 .. n
      BY <3>1, <2>2, <1>1
    <3>3. s[i] = b[i - m]
      BY <3>1, <2>2, <1>1
    <3> QED  BY <3>2, <3>3, <1>1
  <2> QED  BY <2>1, <2>2
<1>4. ASSUME NEW k \in DOMAIN b
      PROVE  \E i \in DOMAIN s : (\A j \in DOMAIN r : j < i) /\ s[i] = b[k]
  <2> DEFINE i == m + k
  <2>1. i \in 1 .. m + n /\ (\A j \in 1 .. m : j < i) /\ ~(i <= m) /\ i - m = k
    BY <1>1, <1>4
  <2> HIDE DEF i
  <2>2. s[i] = b[k]
    BY <1>1, <2>1
  <2> QED  BY <1>1, <1>2, <2>1, <2>2
<1>5. \A i \in DOMAIN r : i \in DOMAIN s /\ s[i] = r[i]
  BY <1>1, <1>2
<1>6. DOMAIN s \subseteq Nat \ {0}
  BY <1>1, <1>2
<1>7. Extended(s, r, b)
  BY <1>3, <1>4, <1>5, <1>6 DEF Extended
<1> QED  BY <1>1, <1>7 DEF s

LEMMA AppendExtends ==
  ASSUME NEW T, NEW r \in Seq(T), NEW m \in T
  PROVE  Append(r, m) \in Seq(T) /\ Extended(Append(r, m), r, <<m>>)
<1>1. Append(r, m) = r \o <<m>>
  BY AppendIsConcat
<1>2. <<m>> \in Seq(T)
  OBVIOUS
<1> QED  BY <1>1, <1>2, ConcatExtends

LEMMA TailShortens ==
  ASSUME NEW T, NEW r \in Seq(T), r # <<>>
  PROVE  /\ Tail(r) \in Seq(T) /\ Shortened(Tail(r), r)
         /\ Head(r) = r[1] /\ r[1] \in T
<1> DEFINE s == Tail(r)   n == Len(r)
<1>1. /\ n \in Nat /\ DOMAIN r = 1 .. n /\ s \in Seq(T) /\ Len(s) = n - 1
      /\ \A i \in 1 .. n - 1 : s[i] = r[i + 1]
      /\ Head(r) = r[1] /\ r[1] \in T
  BY LenProperties, HeadTailProperties
<1>2. DOMAIN s = 1 .. n - 1 /\ n # 0
  BY <1>1, LenProperties, EmptySeq
<1> HIDE DEF s, n
<1>3. Shortened(s, r)
  BY <1>1, <1>2 DEF Shortened
<1> QED  BY <1>1, <1>3 DEF s

-----------------------------------------------------------------------------
(* Tracking a value through the queue of results.                          *)

LEMMA TracksLonger ==
  ASSUME NEW D, NEW c, NEW r, NEW s, NEW b, NEW p, NEW T, NEW new, NEW v,
         Tracks(D, c, r, p, T, new, v), Extended(s, r, b),
         \A k \in DOMAIN b : ~Says(b[k], p, T)
  PROVE  Tracks(D, c, s, p, T, new, v)
<1>1. ASSUME NEW i \in DOMAIN s, Says(s[i], p, T) PROVE i \in DOMAIN r /\ r[i] = s[i]
  BY <1>1 DEF Extended
<1>2. ASSUME NEW i \in DOMAIN s, Says(s[i], p, T), \A j \in DOMAIN s : j > i => ~Says(s[j], p, T)
      PROVE  Said(s[i], new) = v
  <2>1. i \in DOMAIN r /\ r[i] = s[i]
    BY <1>1, <1>2
  <2>2. \A j \in DOMAIN r : j > i => ~Says(r[j], p, T)
    BY <1>2 DEF Extended
  <2> QED  BY <2>1, <2>2, <1>2 DEF Tracks
<1>3. ASSUME \A i \in DOMAIN s : ~Says(s[i], p, T)
      PROVE  (IF p \in D THEN c ELSE new) = v
  <2>1. \A i \in DOMAIN r : ~Says(r[i], p, T)
    BY <1>3 DEF Extended
  <2> QED  BY <2>1 DEF Tracks
<1>4. ASSUME p \notin D, NEW i \in DOMAIN s, Says(s[i], p, T)
      PROVE  \E j \in DOMAIN s : j <= i /\ s[j].id = p /\ s[j].type = "NEW"
  <2>1. i \in DOMAIN r /\ r[i] = s[i]
    BY <1>1, <1>4
  <2>2. PICK j \in DOMAIN r : j <= i /\ r[j].id = p /\ r[j].type = "NEW"
    BY <2>1, <1>4 DEF Tracks
  <2> QED  BY <2>1, <2>2 DEF Extended
<1> QED  BY <1>2, <1>3, <1>4 DEF Tracks

LEMMA TracksSaid ==
  ASSUME NEW D, NEW c, NEW r, NEW s, NEW m, NEW p, NEW T, NEW new, NEW v, NEW b,
         Tracks(D, c, r, p, T, new, v), Extended(s, r, b), b = <<m>>, Says(m, p, T),
         p \in D \/ \E j \in DOMAIN r : r[j].id = p /\ r[j].type = "NEW"
  PROVE  Tracks(D, c, s, p, T, new, Said(m, new))
<1>1. DOMAIN b = {1} /\ b[1] = m
  OBVIOUS
<1>2. PICK e \in DOMAIN s : (\A j \in DOMAIN r : j < e) /\ s[e] = m
  BY <1>1 DEF Extended
<1>3. \A i \in DOMAIN s : i \in DOMAIN r \/ ((\A j \in DOMAIN r : j < i) /\ s[i] = m)
  BY <1>1 DEF Extended
<1>4. DOMAIN s \subseteq Nat \ {0} /\ \A i \in DOMAIN r : i \in DOMAIN s /\ s[i] = r[i]
  BY DEF Extended
<1>5. ASSUME NEW i \in DOMAIN s, Says(s[i], p, T), \A j \in DOMAIN s : j > i => ~Says(s[j], p, T)
      PROVE  Said(s[i], new) = Said(m, new)
  <2>1. CASE i \in DOMAIN r
    <3>1. i < e /\ e > i
      BY <2>1, <1>2, <1>4
    <3> QED  BY <3>1, <1>2, <1>5
  <2>2. CASE i \notin DOMAIN r
    BY <2>2, <1>3
  <2> QED  BY <2>1, <2>2
<1>6. ~(\A i \in DOMAIN s : ~Says(s[i], p, T))
  BY <1>2
<1>7. ASSUME p \notin D, NEW i \in DOMAIN s, Says(s[i], p, T)
      PROVE  \E j \in DOMAIN s : j <= i /\ s[j].id = p /\ s[j].type = "NEW"
  <2>1. CASE i \in DOMAIN r
    <3>1. PICK j \in DOMAIN r : j <= i /\ r[j].id = p /\ r[j].type = "NEW"
      BY <2>1, <1>4, <1>7 DEF Tracks
    <3> QED  BY <3>1, <1>4
  <2>2. CASE i \notin DOMAIN r
    <3>1. PICK j \in DOMAIN r : r[j].id = p /\ r[j].type = "NEW"
      BY <1>7
    <3>2. j < i /\ j \in Nat /\ i \in Nat
      BY <2>2, <1>3, <1>4
    <3> QED  BY <3>1, <3>2, <1>4
  <2> QED  BY <2>1, <2>2
<1> QED  BY <1>5, <1>6, <1>7 DEF Tracks

(* A result of which the client takes nothing for p, ...                   *)
LEMMA TracksPast ==
  ASSUME NEW D, NEW c, NEW r, NEW s, NEW p, NEW T, NEW new, NEW v, NEW E, NEW d,
         Tracks(D, c, r, p, T, new, v), Shortened(s, r), ~Says(r[1], p, T),
         D \subseteq E, r[1].id = p /\ r[1].type = "NEW" => p \in E,
         (IF p \in E THEN d ELSE new) = (IF p \in D THEN c ELSE new)
  PROVE  Tracks(E, d, s, p, T, new, v)
<1>1. ASSUME NEW i \in DOMAIN s, Says(s[i], p, T), \A j \in DOMAIN s : j > i => ~Says(s[j], p, T)
      PROVE  Said(s[i], new) = v
  <2>1. i + 1 \in DOMAIN r /\ r[i + 1] = s[i] /\ i \in Nat
    BY DEF Shortened
  <2>2. ASSUME NEW j \in DOMAIN r, j > i + 1 PROVE ~Says(r[j], p, T)
    <3>1. j # 1 /\ j \in Nat
      BY <2>1, <2>2 DEF Shortened
    <3>2. j - 1 \in DOMAIN s /\ s[j - 1] = r[j] /\ j - 1 > i
      BY <2>1, <2>2, <3>1 DEF Shortened
    <3> QED  BY <3>2, <1>1
  <2> QED  BY <2>1, <2>2, <1>1 DEF Tracks
<1>2. ASSUME \A i \in DOMAIN s : ~Says(s[i], p, T)
      PROVE  (IF p \in E THEN d ELSE new) = v
  <2>1. ASSUME NEW i \in DOMAIN r PROVE ~Says(r[i], p, T)
    <3>1. CASE i = 1
      BY <3>1
    <3>2. CASE i # 1
      BY <3>2, <1>2 DEF Shortened
    <3> QED  BY <3>1, <3>2
  <2> QED  BY <2>1 DEF Tracks
<1>3. ASSUME p \notin E, NEW i \in DOMAIN s, Says(s[i], p, T)
      PROVE  \E j \in DOMAIN s : j <= i /\ s[j].id = p /\ s[j].type = "NEW"
  <2>1. i + 1 \in DOMAIN r /\ r[i + 1] = s[i] /\ i \in Nat /\ p \notin D
    BY <1>3 DEF Shortened
  <2>2. PICK j \in DOMAIN r : j <= i + 1 /\ r[j].id = p /\ r[j].type = "NEW"
    BY <2>1, <1>3 DEF Tracks
  <2>3. j # 1 /\ j \in Nat
    BY <2>2, <1>3 DEF Shortened
  <2>4. j - 1 \in DOMAIN s /\ s[j - 1] = r[j] /\ j - 1 <= i
    BY <2>1, <2>2, <2>3 DEF Shortened
  <2> QED  BY <2>2, <2>4
<1> QED  BY <1>1, <1>2, <1>3 DEF Tracks

(* ... and one that tells a value of p, whom the client then knows.        *)
LEMMA TracksTaken ==
  ASSUME NEW D, NEW c, NEW r, NEW s, NEW p, NEW T, NEW new, NEW v, "NEW" \notin T,
         Tracks(D, c, r, p, T, new, v), Shortened(s, r), Says(r[1], p, T)
  PROVE  p \in D /\ Tracks(D, Said(r[1], new), s, p, T, new, v)
<1>1. p \in D
  <2> SUFFICES ASSUME p \notin D PROVE FALSE
    OBVIOUS
  <2>1. PICK j \in DOMAIN r : j <= 1 /\ r[j].id = p /\ r[j].type = "NEW"
    BY DEF Tracks, Shortened
  <2>2. j = 1
    BY <2>1 DEF Shortened
  <2> QED  BY <2>1, <2>2 DEF Says
<1>2. ASSUME NEW i \in DOMAIN s, Says(s[i], p, T), \A j \in DOMAIN s : j > i => ~Says(s[j], p, T)
      PROVE  Said(s[i], new) = v
  <2>1. i + 1 \in DOMAIN r /\ r[i + 1] = s[i] /\ i \in Nat
    BY DEF Shortened
  <2>2. ASSUME NEW j \in DOMAIN r, j > i + 1 PROVE ~Says(r[j], p, T)
    <3>1. j # 1 /\ j \in Nat
      BY <2>1, <2>2 DEF Shortened
    <3>2. j - 1 \in DOMAIN s /\ s[j - 1] = r[j] /\ j - 1 > i
      BY <2>1, <2>2, <3>1 DEF Shortened
    <3> QED  BY <3>2, <1>2
  <2> QED  BY <2>1, <2>2, <1>2 DEF Tracks
<1>3. ASSUME \A i \in DOMAIN s : ~Says(s[i], p, T)
      PROVE  Said(r[1], new) = v
  <2>1. ASSUME NEW j \in DOMAIN r, j > 1 PROVE ~Says(r[j], p, T)
    <3>1. j # 1 /\ j - 1 \in DOMAIN s /\ s[j - 1] = r[j]
      BY <2>1 DEF Shortened
    <3> QED  BY <3>1, <1>3
  <2>2. 1 \in DOMAIN r
    BY DEF Shortened
  <2> QED  BY <2>1, <2>2 DEF Tracks
<1> QED  BY <1>1, <1>2, <1>3 DEF Tracks

-----------------------------------------------------------------------------
(* What the server's steps keep.                                           *)

LEMMA OnceTail ==
  ASSUME NEW q, NEW s, NEW id, Once(q, id), Shortened(s, q)
  PROVE  Once(s, id) /\ (q[1] = "LOGIN" => \A d : Once(s, d))
<1>1. ASSUME NEW i \in DOMAIN s, NEW j \in DOMAIN s, s[i] = "LOGIN", s[j] = "LOGIN"
      PROVE  i = j /\ q[1] # "LOGIN" /\ id = NoId
  <2>1. /\ i + 1 \in DOMAIN q /\ q[i + 1] = "LOGIN" /\ i \in Nat \ {0}
        /\ j + 1 \in DOMAIN q /\ q[j + 1] = "LOGIN" /\ j \in Nat \ {0} /\ 1 \in DOMAIN q
    BY <1>1 DEF Shortened
  <2>2. i + 1 = j + 1 /\ id = NoId
    BY <2>1 DEF Once
  <2>3. q[1] = "LOGIN" => i + 1 = 1
    BY <2>1 DEF Once
  <2> QED  BY <2>1, <2>2, <2>3
<1> QED  BY <1>1 DEF Once

LEMMA Requested ==
  ASSUME Inv, requests' = requests \/ (requests # <<>> /\ requests' = Tail(requests))
  PROVE  /\ requests' \in Seq(Requests) /\ Once(requests', mPlayerId)
         /\ requests = <<>> => requests' = <<>>
<1>1. requests \in Seq(Requests) /\ Once(requests, mPlayerId)
  BY DEF Inv, Types, LoginOnce
<1>2. CASE requests # <<>> /\ requests' = Tail(requests)
  <2>1. requests' \in Seq(Requests) /\ Shortened(requests', requests)
    BY <1>1, <1>2, TailShortens
  <2> QED  BY <1>1, <1>2, <2>1, OnceTail
<1> QED  BY <1>1, <1>2

(* The results b go to the client, if it is connected.                     *)
LEMMA BroadcastKeeps ==
  ASSUME Inv, NEW b \in Seq(Message),
         \A k \in DOMAIN b : b[k].type # "LOGIN" /\ b[k].id \in playing,
         results' = IF Connected THEN results \o b ELSE results,
         UNCHANGED <<playing, mPlayerId, loading, view, since, fault>>,
         introduced \subseteq introduced', introduced' \subseteq playing,
         \A p \in introduced' \ introduced :
           \E k \in DOMAIN b : b[k].type = "NEW" /\ b[k].id = p,
         fuel' \in [Id -> Nat], resource' \in [Id -> Nat],
         requests' = requests \/ (requests # <<>> /\ requests' = Tail(requests)),
         Connected => Tracked'
  PROVE  Inv'
<1>1. /\ Types /\ Scenes /\ Unconnected /\ LoginOnce /\ HeardOf /\ First /\ AfterPlays
      /\ Coming /\ LoginPlaces /\ connections \in {0, 1} /\ results \in Seq(Message)
  BY DEF Inv, Types
<1>2. /\ requests' \in Seq(Requests) /\ Once(requests', mPlayerId)
      /\ requests = <<>> => requests' = <<>>
  BY Requested
<1>3. UNCHANGED <<scene, startsPosted, connections, m_MyPlayerId, m_PlayerList, placed>>
  BY DEF loading, view
<1>4. Scenes' /\ LoginPlaces' /\ AfterPlays'
  <2>1. Scenes' /\ AfterPlays'
    BY <1>1, <1>3 DEF Scenes, AfterPlays
  <2>2. LoginPlaces'
    BY <1>1, <1>3 DEF LoginPlaces
  <2> QED  BY <2>1, <2>2
<1>5. CASE ~Connected
  <2>1. connections = 0 /\ results' = results
    BY <1>1, <1>5 DEF Connected
  <2>2. /\ requests = <<>> /\ results = <<>> /\ m_PlayerList = <<>>
        /\ mPlayerId = NoId /\ m_MyPlayerId = NoId /\ \A p \in Id : since[p] = "before"
    BY <1>1, <2>1 DEF Unconnected
  <2>3. Types'
    BY <1>1, <1>2, <1>3, <2>1 DEF Types
  <2>4. Unconnected'
    BY <1>2, <1>3, <2>1, <2>2 DEF Unconnected
  <2>5. LoginOnce' /\ HeardOf' /\ First'
    BY <1>1, <1>2, <1>3, <2>1, <2>2 DEF LoginOnce, HeardOf, Heard, First
  <2>6. Coming' /\ Tracked'
    BY <1>1, <2>2 DEF Coming, Tracked, Types
  <2> QED  BY <1>4, <2>3, <2>4, <2>5, <2>6 DEF Inv
<1>6. CASE Connected
  <2>1. results' \in Seq(Message) /\ Extended(results', results, b)
    BY <1>1, <1>6, ConcatExtends
  <2>2. connections' # 0 /\ Tracked'
    BY <1>3, <1>6 DEF Connected
  <2>3. Types'
    BY <1>1, <1>2, <1>3, <2>1 DEF Types
  <2>4. Unconnected'
    BY <2>2 DEF Unconnected
  <2>5. LoginOnce'
    <3>1. mPlayerId' = mPlayerId /\ m_MyPlayerId' = m_MyPlayerId
      BY <1>3
    <3>2. ASSUME NEW i \in DOMAIN results', results'[i].type = "LOGIN"
          PROVE  results'[i].id = mPlayerId
      <4>1. i \in DOMAIN results /\ results'[i] = results[i]
        BY <2>1, <3>2 DEF Extended
      <4> QED  BY <1>1, <3>2, <4>1 DEF LoginOnce
    <3>3. ASSUME NEW i \in DOMAIN results, results[i].type = "LOGIN"
          PROVE  \E j \in DOMAIN results' : results'[j].type = "LOGIN"
      BY <2>1, <3>3 DEF Extended
    <3>4. mPlayerId # NoId /\ m_MyPlayerId = NoId =>
            \E i \in DOMAIN results' : results'[i].type = "LOGIN"
      BY <1>1, <3>3 DEF LoginOnce
    <3> QED  BY <1>2, <3>1, <3>2, <3>4 DEF LoginOnce
  <2>6. HeardOf'
    BY <1>1, <1>3, <2>1 DEF HeardOf, Heard, Extended
  <2>7. First'
    <3> SUFFICES ASSUME mPlayerId # NoId, m_MyPlayerId = NoId, since[mPlayerId] # "left"
                 PROVE  /\ mPlayerId \notin DOMAIN m_PlayerList
                        /\ \A i \in DOMAIN results' : results'[i].id = mPlayerId =>
                             \E j \in DOMAIN results' : j <= i /\ results'[j].type = "LOGIN"
      BY <1>3 DEF First
    <3>1. /\ mPlayerId \notin DOMAIN m_PlayerList
          /\ \A i \in DOMAIN results : results[i].id = mPlayerId =>
               \E j \in DOMAIN results : j <= i /\ results[j].type = "LOGIN"
      BY <1>1 DEF First
    <3>2. PICK k \in DOMAIN results : results[k].type = "LOGIN"
      BY <1>1 DEF LoginOnce
    <3>3. ASSUME NEW i \in DOMAIN results', results'[i].id = mPlayerId
          PROVE  \E j \in DOMAIN results' : j <= i /\ results'[j].type = "LOGIN"
      <4>1. CASE i \in DOMAIN results
        BY <4>1, <3>1, <3>3, <2>1 DEF Extended
      <4>2. CASE i \notin DOMAIN results
        <5>1. k < i /\ k \in DOMAIN results' /\ results'[k].type = "LOGIN"
          BY <4>2, <3>2, <2>1 DEF Extended
        <5>2. k \in Nat /\ i \in Nat
          BY <5>1, <2>1 DEF Extended
        <5> QED  BY <5>1, <5>2
      <4> QED  BY <4>1, <4>2
    <3> QED  BY <3>1, <3>3
  <2>8. ASSUME NEW p \in introduced', since[p] # "before"
        PROVE  \/ p \in DOMAIN m_PlayerList
               \/ \E i \in DOMAIN results' : results'[i].type = "NEW" /\ results'[i].id = p
    <3>1. CASE p \in introduced
      BY <3>1, <2>8, <1>1, <2>1 DEF Coming, Extended
    <3>2. CASE p \notin introduced
      <4>1. PICK k \in DOMAIN b : b[k].type = "NEW" /\ b[k].id = p
        BY <3>2
      <4>2. PICK i \in DOMAIN results' : results'[i] = b[k]
        BY <2>1 DEF Extended
      <4> QED  BY <4>1, <4>2
    <3> QED  BY <3>1, <3>2
  <2>9. Coming'
    BY <2>8, <1>3 DEF Coming
  <2> QED  BY <1>4, <2>2, <2>3, <2>4, <2>5, <2>6, <2>7, <2>9 DEF Inv
<1> QED  BY <1>5, <1>6

(* A result is broadcast as it is, except for a death of the client's own. *)
LEMMA ReceivedAll ==
  ASSUME NEW b \in Seq(Message)
  PROVE  /\ (\A i \in DOMAIN b : b[i].type # "DEAD") => Received(b) = b
         /\ Received(b) \in Seq(Message)
         /\ \A i \in DOMAIN Received(b) : \E k \in DOMAIN b : Received(b)[i] = b[k]
<1> DEFINE mine == {i \in DOMAIN b : b[i].type = "DEAD" /\ b[i].id = mPlayerId}
           n == Len(b)
<1>1. n \in Nat /\ DOMAIN b = 1 .. n
  BY LenProperties
<1>2. CASE mine = {}
  <2>1. Received(b) = b
    BY <1>2 DEF Received
  <2> QED  BY <2>1
<1>3. CASE mine # {}
  <2>1. ~(\A i \in DOMAIN b : b[i].type # "DEAD")
    BY <1>3
  <2> DEFINE e == CHOOSE i \in mine : TRUE   x == SubSeq(b, 1, e - 1)   y == SubSeq(b, e, n)
  <2>2. e \in 1 .. n
    <3>1. e \in mine
      BY <1>3
    <3> QED  BY <3>1, <1>1
  <2>3. Received(b) = x \o <<b[e]>> \o y
    BY <1>3 DEF Received, InsertAt
  <2> HIDE DEF e, mine
  <2>4. b[e] \in Message /\ <<b[e]>> \in Seq(Message)
    BY <2>2, <1>1, ElementOfSeq
  <2>5. /\ x \in Seq(Message) /\ Len(x) = e - 1
        /\ \A i \in 1 .. e - 1 : x[i] = b[i]
    <3>1. e - 1 \in 0 .. n
      BY <2>2, <1>1
    <3> DEFINE f == e - 1
    <3> HIDE DEF f
    <3>2. f \in 0 .. n /\ f \in Nat
      BY <3>1, <1>1 DEF f
    <3>3. /\ SubSeq(b, 1, f) \in Seq(Message) /\ Len(SubSeq(b, 1, f)) = f
          /\ \A i \in 1 .. f : SubSeq(b, 1, f)[i] = b[i]
      BY <3>2, <1>1
    <3> QED  BY <3>3 DEF f
  <2>6. /\ y \in Seq(Message) /\ Len(y) = n - e + 1
        /\ \A i \in 1 .. n - e + 1 : y[i] = b[e + i - 1]
    BY <2>2, <1>1
  <2> HIDE DEF x, y
  <2>7. x \o <<b[e]>> \in Seq(Message) /\ Extended(x \o <<b[e]>>, x, <<b[e]>>)
    BY <2>4, <2>5, ConcatExtends
  <2>8. (x \o <<b[e]>>) \o y \in Seq(Message) /\ Extended((x \o <<b[e]>>) \o y, x \o <<b[e]>>, y)
    BY <2>6, <2>7, ConcatExtends
  <2> DEFINE u == x \o <<b[e]>>   w == u \o y
  <2>9. \A i \in DOMAIN x : \E k \in DOMAIN b : x[i] = b[k]
    <3>1. DOMAIN x = 1 .. e - 1
      BY <2>5, LenProperties
    <3> QED  BY <3>1, <2>5, <2>2, <1>1
  <2>10. \A i \in DOMAIN y : \E k \in DOMAIN b : y[i] = b[k]
    <3>1. DOMAIN y = 1 .. n - e + 1
      BY <2>6, LenProperties
    <3>2. \A i \in 1 .. n - e + 1 : e + i - 1 \in 1 .. n
      BY <2>2, <1>1
    <3> QED  BY <3>1, <3>2, <2>6, <1>1
  <2>11. \A k \in DOMAIN <<b[e]>> : <<b[e]>>[k] = b[e]
    OBVIOUS
  <2>12. e \in DOMAIN b
    BY <2>2, <1>1
  <2> HIDE DEF u, w
  <2>13. \A i \in DOMAIN u : \E k \in DOMAIN b : u[i] = b[k]
    BY <2>7, <2>9, <2>11, <2>12 DEF Extended, u
  <2>14. Extended(w, u, y) /\ w \in Seq(Message)
    BY <2>8 DEF u, w
  <2>15. \A i \in DOMAIN w : \E k \in DOMAIN b : w[i] = b[k]
    BY <2>10, <2>13, <2>14 DEF Extended
  <2>16. Received(b) = w
    BY <2>3 DEF u, w
  <2> QED  BY <2>1, <2>14, <2>15, <2>16
<1> QED  BY <1>2, <1>3

LEMMA SilentTracked ==
  ASSUME Inv, NEW b \in Seq(Message), \A k \in DOMAIN b : b[k].type \notin FuelTypes \cup ResourceTypes,
         results' = results \o b, UNCHANGED <<m_PlayerList, fuel, resource, since>>
  PROVE  Tracked'
<1>1. Extended(results', results, b)
  BY ConcatExtends DEF Inv, Types
<1>2. ASSUME NEW p \in Id, since[p] = "after" PROVE FuelTracked(p)' /\ ResourceTracked(p)'
  <2>1. FuelTracked(p) /\ ResourceTracked(p)
    BY <1>2 DEF Inv, Tracked
  <2>2. \A k \in DOMAIN b : ~Says(b[k], p, FuelTypes) /\ ~Says(b[k], p, ResourceTypes)
    BY DEF Says
  <2>3. FuelTracked(p)'
    BY <1>1, <2>1, <2>2, TracksLonger DEF FuelTracked
  <2>4. ResourceTracked(p)'
    BY <1>1, <2>1, <2>2, TracksLonger DEF ResourceTracked
  <2> QED  BY <2>3, <2>4
<1> QED  BY <1>2 DEF Tracked

(* What the server says of a player is what it has from then on.           *)
LEMMA SaidTracked ==
  ASSUME Inv, NEW p \in introduced, NEW m \in Message, m.id = p,
         results' = results \o <<m>>, UNCHANGED <<m_PlayerList, since>>,
         \A q \in Id \ {p} : fuel'[q] = fuel[q] /\ resource'[q] = resource[q],
         fuel'[p] = IF m.type \in FuelTypes THEN Said(m, DEFAULT_FUEL) ELSE fuel[p],
         resource'[p] = IF m.type \in ResourceTypes THEN Said(m, 0) ELSE resource[p]
  PROVE  Tracked'
<1> DEFINE b == <<m>>
<1>1. b \in Seq(Message) /\ DOMAIN b = {1} /\ b[1] = m
  OBVIOUS
<1>2. results' = results \o b
  OBVIOUS
<1> HIDE DEF b
<1>0. results \in Seq(Message)
  BY DEF Inv, Types
<1>3. Extended(results', results, b)
  BY <1>0, <1>1, <1>2, ConcatExtends
<1>4. ASSUME NEW q \in Id, since[q] = "after" PROVE FuelTracked(q)' /\ ResourceTracked(q)'
  <2>1. FuelTracked(q) /\ ResourceTracked(q)
    BY <1>4 DEF Inv, Tracked
  <2>2. q = p => \/ q \in DOMAIN m_PlayerList
                 \/ \E j \in DOMAIN results : results[j].id = q /\ results[j].type = "NEW"
    BY <1>4 DEF Inv, Coming
  <2>3. b = <<m>>
    BY DEF b
  <2>4. FuelTracked(q)'
    <3>1. CASE Says(m, q, FuelTypes)
      <4>1. q = p /\ fuel'[q] = Said(m, DEFAULT_FUEL)
        BY <3>1 DEF Says
      <4>2. Tracks(DOMAIN m_PlayerList, m_PlayerList[q].fuel, results', q, FuelTypes,
                   DEFAULT_FUEL, Said(m, DEFAULT_FUEL))
        BY <1>3, <2>1, <2>2, <2>3, <3>1, <4>1, TracksSaid DEF FuelTracked
      <4> QED  BY <4>1, <4>2 DEF FuelTracked
    <3>2. CASE ~Says(m, q, FuelTypes)
      <4>1. fuel'[q] = fuel[q]
        BY <3>2 DEF Says
      <4>2. Tracks(DOMAIN m_PlayerList, m_PlayerList[q].fuel, results', q, FuelTypes,
                   DEFAULT_FUEL, fuel[q])
        BY <1>1, <1>3, <2>1, <3>2, TracksLonger DEF FuelTracked
      <4> QED  BY <4>1, <4>2 DEF FuelTracked
    <3> QED  BY <3>1, <3>2
  <2>5. ResourceTracked(q)'
    <3>1. CASE Says(m, q, ResourceTypes)
      <4>1. q = p /\ resource'[q] = Said(m, 0)
        BY <3>1 DEF Says
      <4>2. Tracks(DOMAIN m_PlayerList, m_PlayerList[q].resource, results', q, ResourceTypes,
                   0, Said(m, 0))
        BY <1>3, <2>1, <2>2, <2>3, <3>1, <4>1, TracksSaid DEF ResourceTracked
      <4> QED  BY <4>1, <4>2 DEF ResourceTracked
    <3>2. CASE ~Says(m, q, ResourceTypes)
      <4>1. resource'[q] = resource[q]
        BY <3>2 DEF Says
      <4>2. Tracks(DOMAIN m_PlayerList, m_PlayerList[q].resource, results', q, ResourceTypes,
                   0, resource[q])
        BY <1>1, <1>3, <2>1, <3>2, TracksLonger DEF ResourceTracked
      <4> QED  BY <4>1, <4>2 DEF ResourceTracked
    <3> QED  BY <3>1, <3>2
  <2> QED  BY <2>4, <2>5
<1> QED  BY <1>4 DEF Tracked

(* The server's steps, one by one.                                         *)

ViewStays == UNCHANGED <<loading, view, fault>>
RequestTaken == requests' = requests \/ (requests # <<>> /\ requests' = Tail(requests))

LEMMA OneMessage ==
  ASSUME NEW m \in Message, m.type # "DEAD", Deliver(<<m>>)
  PROVE  /\ results' = IF Connected THEN results \o <<m>> ELSE results
         /\ <<m>> \in Seq(Message) /\ \A k \in DOMAIN <<m>> : <<m>>[k] = m
<1> DEFINE b == <<m>>
<1>1. b \in Seq(Message) /\ \A k \in DOMAIN b : b[k] = m
  OBVIOUS
<1>2. Deliver(b)
  OBVIOUS
<1> HIDE DEF b
<1>3. Received(b) = b
  BY <1>1, ReceivedAll
<1> QED  BY <1>1, <1>2, <1>3 DEF Deliver, b

LEMMA ActKeeps ==
  ASSUME Inv, NEW p, NEW type, Act(p, type), ViewStays, RequestTaken
  PROVE  Inv'
<1>1. /\ p \in introduced /\ introduced' = introduced /\ UNCHANGED <<mPlayerId, since>>
      /\ introduced \subseteq playing /\ playing \subseteq Id
      /\ fuel \in [Id -> Nat] /\ resource \in [Id -> Nat]
  BY DEF Act, Inv, Types
<1>2. p \in playing /\ p \in Id
  BY <1>1
<1>3. ASSUME NEW m \in Message, m.id = p, m.type \notin {"DEAD", "LOGIN", "NEW"}, Deliver(<<m>>),
             playing' = playing, fuel' \in [Id -> Nat], resource' \in [Id -> Nat],
             \A q \in Id \ {p} : fuel'[q] = fuel[q] /\ resource'[q] = resource[q],
             fuel'[p] = IF m.type \in FuelTypes THEN Said(m, DEFAULT_FUEL) ELSE fuel[p],
             resource'[p] = IF m.type \in ResourceTypes THEN Said(m, 0) ELSE resource[p]
      PROVE  Inv'
  <2> DEFINE b == <<m>>
  <2>1. /\ results' = IF Connected THEN results \o b ELSE results
        /\ b \in Seq(Message) /\ \A k \in DOMAIN b : b[k] = m
    BY <1>3, OneMessage
  <2>2. Connected => Tracked'
    <3> SUFFICES ASSUME Connected PROVE Tracked'
      OBVIOUS
    <3>1. results' = results \o <<m>>
      BY <2>1
    <3>2. m_PlayerList' = m_PlayerList /\ since' = since
      BY <1>1 DEF ViewStays, view
    <3> HIDE DEF b
    <3> QED  BY <1>1, <1>3, <3>1, <3>2, SaidTracked
  <2> HIDE DEF b
  <2>3. \A k \in DOMAIN b : b[k].type # "LOGIN" /\ b[k].id \in playing
    BY <2>1, <1>2, <1>3
  <2> QED  BY <1>1, <1>3, <2>1, <2>2, <2>3, BroadcastKeeps DEF ViewStays, RequestTaken
<1>4. CASE type = "ACCELERATION" /\ Server!Spend(p) /\ Deliver(sent')
  <2> DEFINE m == Result("CHARACTER_STATE", p, fuel'[p])
  <2>1. PICK n \in 0 .. fuel[p] : fuel' = [fuel EXCEPT ![p] = n]
    BY <1>4 DEF Server!Spend
  <2>2. n \in Nat /\ fuel' \in [Id -> Nat] /\ fuel'[p] = n
    BY <1>1, <1>2, <2>1
  <2>3. Deliver(<<m>>) /\ playing' = playing /\ resource' = resource
    BY <1>4 DEF Server!Spend, Server!Result, Result
  <2>4. m \in Message /\ m.id = p /\ m.type = "CHARACTER_STATE" /\ m.value = n
    BY <1>2, <2>2 DEF Result, Message, ResultType
  <2> HIDE DEF m
  <2>5. \A q \in Id \ {p} : fuel'[q] = fuel[q]
    BY <1>1, <2>1
  <2>6. m.type \in FuelTypes /\ m.type \notin ResourceTypes /\ Said(m, DEFAULT_FUEL) = n
    BY <2>4 DEF FuelTypes, ResourceTypes, Said
  <2> QED  BY <1>1, <1>3, <2>2, <2>3, <2>4, <2>5, <2>6
<1>5. CASE type = "GATHER" /\ Server!Gather(p) /\ Deliver(sent')
  <2> DEFINE m == Result("GATHER", p, resource'[p])
  <2>1. PICK n \in resource[p] .. MaxResource : resource' = [resource EXCEPT ![p] = n]
    BY <1>5 DEF Server!Gather
  <2>2. n \in Nat /\ resource' \in [Id -> Nat] /\ resource'[p] = n
    <3>1. resource[p] \in Nat
      BY <1>1, <1>2
    <3>2. n \in Nat
      BY <3>1
    <3> QED  BY <1>1, <1>2, <2>1, <3>2
  <2>3. Deliver(<<m>>) /\ playing' = playing /\ fuel' = fuel
    BY <1>5 DEF Server!Gather, Server!Result, Result
  <2>4. m \in Message /\ m.id = p /\ m.type = "GATHER" /\ m.value = n
    BY <1>2, <2>2 DEF Result, Message, ResultType
  <2> HIDE DEF m
  <2>5. \A q \in Id \ {p} : resource'[q] = resource[q]
    BY <1>1, <2>1
  <2>6. m.type \notin FuelTypes /\ m.type \in ResourceTypes /\ Said(m, 0) = n
    BY <2>4 DEF FuelTypes, ResourceTypes, Said
  <2> QED  BY <1>1, <1>3, <2>2, <2>3, <2>4, <2>5, <2>6
<1>6. CASE type = "RESPAWN" /\ Server!Respawn(p) /\ Deliver(sent')
  <2> DEFINE m == Result("RESPAWN", p, 0)
  <2>1. /\ fuel' = [fuel EXCEPT ![p] = DEFAULT_FUEL] /\ resource' = [resource EXCEPT ![p] = 0]
        /\ Deliver(<<m>>) /\ playing' = playing
    BY <1>6 DEF Server!Respawn, Server!Result, Result
  <2>2. /\ fuel' \in [Id -> Nat] /\ fuel'[p] = DEFAULT_FUEL
        /\ resource' \in [Id -> Nat] /\ resource'[p] = 0
    BY <1>1, <1>2, <2>1, Constants
  <2>4. m \in Message /\ m.id = p /\ m.type = "RESPAWN"
    BY <1>2 DEF Result, Message, ResultType
  <2> HIDE DEF m
  <2>5. \A q \in Id \ {p} : fuel'[q] = fuel[q] /\ resource'[q] = resource[q]
    BY <1>1, <2>1
  <2>6. /\ m.type \in FuelTypes /\ m.type \in ResourceTypes
        /\ Said(m, DEFAULT_FUEL) = DEFAULT_FUEL /\ Said(m, 0) = 0
    BY <2>4 DEF FuelTypes, ResourceTypes, Said
  <2> QED  BY <1>3, <2>1, <2>2, <2>4, <2>5, <2>6
<1>7. CASE type = "ROTATION" /\ Server!Quiet /\ Deliver(<<Result("ROTATION", p, 0)>>)
  <2> DEFINE m == Result("ROTATION", p, 0)
  <2>1. Deliver(<<m>>) /\ playing' = playing /\ fuel' = fuel /\ resource' = resource
    BY <1>7 DEF Server!Quiet
  <2>4. m \in Message /\ m.id = p /\ m.type = "ROTATION"
    BY <1>2 DEF Result, Message, ResultType
  <2> HIDE DEF m
  <2>6. m.type \notin FuelTypes /\ m.type \notin ResourceTypes
    BY <2>4 DEF FuelTypes, ResourceTypes
  <2> QED  BY <1>1, <1>3, <2>1, <2>4, <2>6
<1> QED  BY <1>4, <1>5, <1>6, <1>7 DEF Act

LEMMA IntroduceKeeps ==
  ASSUME Inv, NEW p, Introduce(p), NEW b \in Seq(Message),
         \A k \in DOMAIN b : b[k].type \in {"NEW", "SYNC"} /\ b[k].id \in playing,
         \E k \in DOMAIN b : b[k].type = "NEW" /\ b[k].id = p,
         Deliver(b), UNCHANGED <<mPlayerId, since>>, ViewStays, RequestTaken
  PROVE  Inv'
<1>1. /\ p \in playing /\ UNCHANGED <<playing, fuel, resource>>
      /\ introduced' = introduced \cup {p} /\ introduced \subseteq playing
      /\ fuel \in [Id -> Nat] /\ resource \in [Id -> Nat]
  BY DEF Introduce, Server!Introduce, Inv, Types
<1>2. results' = IF Connected THEN results \o b ELSE results
  <2>1. Received(b) = b
    BY ReceivedAll
  <2> QED  BY <2>1 DEF Deliver
<1>3. Connected => Tracked'
  <2>1. \A k \in DOMAIN b : b[k].type \notin FuelTypes \cup ResourceTypes
    BY DEF FuelTypes, ResourceTypes
  <2>2. m_PlayerList' = m_PlayerList
    BY DEF ViewStays, view
  <2> QED  BY <1>1, <1>2, <2>1, <2>2, SilentTracked
<1>4. /\ introduced \subseteq introduced' /\ introduced' \subseteq playing
      /\ \A q \in introduced' \ introduced : q = p
  BY <1>1
<1>5. /\ \A k \in DOMAIN b : b[k].type # "LOGIN" /\ b[k].id \in playing
      /\ \A q \in introduced' \ introduced : \E k \in DOMAIN b : b[k].type = "NEW" /\ b[k].id = q
  BY <1>4
<1> QED  BY <1>1, <1>2, <1>3, <1>4, <1>5, BroadcastKeeps DEF ViewStays, RequestTaken

LEMMA Orders ==
  ASSUME NEW S, NEW order \in Server!Ascending(S)
  PROVE  DOMAIN order = 1 .. Cardinality(S) /\ \A i \in DOMAIN order : order[i] \in S
<1>1. Server!Cardinality(S) = Cardinality(S)
  BY DEF Server!Cardinality, Cardinality
<1>2. order \in [1 .. Server!Cardinality(S) -> S]
  BY DEF Server!Ascending
<1> QED  BY <1>1, <1>2

LEMMA Finite == \A S \in SUBSET Id : IsFiniteSet(S)
<1>1. IsFiniteSet(0 .. REAL_PLAYER_NUM - 1) /\ Id \subseteq 0 .. REAL_PLAYER_NUM - 1
  <2>1. /\ Id \subseteq Nat /\ (\A p \in Id : p < REAL_PLAYER_NUM)
        /\ REAL_PLAYER_NUM \in Nat
    BY ClientViewAssumption
  <2>2. 0 \in Int /\ REAL_PLAYER_NUM - 1 \in Int
    BY <2>1
  <2>3. Id \subseteq 0 .. REAL_PLAYER_NUM - 1
    BY <2>1
  <2> QED  BY <2>2, <2>3, FS_Interval
<1> QED  BY <1>1, FS_Subset

LEMMA DieKeeps ==
  ASSUME Inv, NEW S, Die(S)
  PROVE  Inv'
<1>1. /\ S \subseteq playing /\ UNCHANGED <<playing, fuel, resource, introduced, mPlayerId, since>>
      /\ playing \subseteq Id /\ introduced \subseteq playing
      /\ fuel \in [Id -> Nat] /\ resource \in [Id -> Nat]
      /\ ViewStays /\ requests' = requests /\ Deliver(sent')
  BY DEF Die, Server!Die, Inv, Types, ViewStays
<1>2. PICK order \in Server!Ascending(S) : sent' = [i \in DOMAIN order |-> Result("DEAD", order[i], 0)]
  <2>1. \E order \in Server!Ascending(S) :
          sent' = [i \in DOMAIN order |-> Server!Result("DEAD", order[i], 0)]
    BY DEF Die, Server!Die
  <2> QED  BY <2>1 DEF Server!Result, Result
<1>3. DOMAIN order = 1 .. Cardinality(S) /\ \A i \in DOMAIN order : order[i] \in S
  BY <1>2, Orders
<1> DEFINE b == [i \in DOMAIN order |-> Result("DEAD", order[i], 0)]
<1>4. \A k \in DOMAIN b : b[k].type = "DEAD" /\ b[k].id \in playing /\ b[k] \in Message
  BY <1>1, <1>3 DEF Result, Message, ResultType
<1>5. b \in Seq(Message)
  <2>1. Cardinality(S) \in Nat
    BY <1>1, Finite, FS_CardinalityType
  <2>2. b \in [1 .. Cardinality(S) -> Message]
    BY <1>3, <1>4
  <2> HIDE DEF b
  <2> QED  BY <2>1, <2>2
<1>6. Deliver(b)
  BY <1>1, <1>2
<1> HIDE DEF b
<1> DEFINE d == Received(b)
<1>7. /\ d \in Seq(Message)
      /\ \A k \in DOMAIN d : d[k].type = "DEAD" /\ d[k].id \in playing
  BY <1>4, <1>5, ReceivedAll
<1>8. results' = IF Connected THEN results \o d ELSE results
  BY <1>6 DEF Deliver
<1> HIDE DEF d
<1>9. Connected => Tracked'
  <2>1. \A k \in DOMAIN d : d[k].type \notin FuelTypes \cup ResourceTypes
    BY <1>7 DEF FuelTypes, ResourceTypes
  <2>2. m_PlayerList' = m_PlayerList
    BY <1>1 DEF ViewStays, view
  <2> QED  BY <1>1, <1>7, <1>8, <2>1, <2>2, SilentTracked
<1>10. \A k \in DOMAIN d : d[k].type # "LOGIN" /\ d[k].id \in playing
  BY <1>7
<1> QED  BY <1>1, <1>7, <1>8, <1>9, <1>10, BroadcastKeeps DEF ViewStays

(* A session's character is registered on an id the client has not heard   *)
(* of, unless somebody left it.                                            *)
LEMMA LoginParts ==
  ASSUME Inv, NEW p \in Id, Login(p)
  PROVE  /\ p \notin playing /\ playing' = playing \cup {p} /\ introduced' = introduced
         /\ fuel' \in [Id -> Nat] /\ resource' \in [Id -> Nat] /\ since' \in [Id -> Since]
         /\ \A q \in Id : \/ since'[q] = since[q]
                          \/ q = p /\ since[q] = "before" /\ since'[q] = "after" /\ Connected
         /\ Heard(p) => since[p] = "left"
         /\ \A q \in Id : since'[q] = "after" =>
              /\ Tracks(DOMAIN m_PlayerList, m_PlayerList[q].fuel, results, q, FuelTypes,
                        DEFAULT_FUEL, fuel'[q])
              /\ Tracks(DOMAIN m_PlayerList, m_PlayerList[q].resource, results, q, ResourceTypes,
                        0, resource'[q])
<1>1. /\ p \notin playing /\ playing' = playing \cup {p} /\ introduced' = introduced
      /\ fuel' = [fuel EXCEPT ![p] = DEFAULT_FUEL] /\ resource' = [resource EXCEPT ![p] = 0]
      /\ since' = IF Connected /\ since[p] = "before" THEN [since EXCEPT ![p] = "after"] ELSE since
  BY DEF Login, Server!Join
<1>2. /\ fuel \in [Id -> Nat] /\ resource \in [Id -> Nat] /\ since \in [Id -> Since]
      /\ HeardOf /\ AfterPlays /\ Tracked
  BY DEF Inv, Types
<1>3. fuel' \in [Id -> Nat] /\ resource' \in [Id -> Nat]
  BY <1>1, <1>2, Constants
<1>4. since' \in [Id -> Since]
  BY <1>1, <1>2 DEF Since
<1>5. \A q \in Id : \/ since'[q] = since[q]
                    \/ q = p /\ since[q] = "before" /\ since'[q] = "after" /\ Connected
  BY <1>1, <1>2
<1>6. Heard(p) => since[p] = "left"
  BY <1>1, <1>2 DEF HeardOf
<1>7. ASSUME NEW q \in Id, since'[q] = "after"
      PROVE  /\ Tracks(DOMAIN m_PlayerList, m_PlayerList[q].fuel, results, q, FuelTypes,
                       DEFAULT_FUEL, fuel'[q])
             /\ Tracks(DOMAIN m_PlayerList, m_PlayerList[q].resource, results, q, ResourceTypes,
                       0, resource'[q])
  <2>1. CASE q = p
    <3>1. ~Heard(q) /\ fuel'[q] = DEFAULT_FUEL /\ resource'[q] = 0
      BY <1>1, <1>2, <1>5, <1>6, <1>7, <2>1 DEF AfterPlays
    <3>2. q \notin DOMAIN m_PlayerList /\ \A i \in DOMAIN results : results[i].id # q
      BY <3>1 DEF Heard
    <3> QED  BY <3>1, <3>2 DEF Tracks, Says
  <2>2. CASE q # p
    <3>1. since[q] = "after" /\ fuel'[q] = fuel[q] /\ resource'[q] = resource[q]
      BY <1>1, <1>2, <1>5, <1>7, <2>2
    <3> QED  BY <3>1, <1>2 DEF Tracked, FuelTracked, ResourceTracked
  <2> QED  BY <2>1, <2>2
<1> QED  BY <1>1, <1>3, <1>4, <1>5, <1>6, <1>7

LEMMA OthersLogin ==
  ASSUME Inv, NEW p \in Id, p # mPlayerId, Login(p), ViewStays,
         UNCHANGED <<requests, results, mPlayerId>>
  PROVE  Inv'
<1>1. /\ Types /\ Scenes /\ Unconnected /\ LoginOnce /\ HeardOf /\ First /\ AfterPlays
      /\ Coming /\ LoginPlaces /\ connections \in {0, 1}
      /\ since \in [Id -> Since] /\ mPlayerId \in Id \cup {NoId} /\ m_MyPlayerId \in Id \cup {NoId}
  BY DEF Inv, Types
<1>2. /\ p \notin playing /\ playing' = playing \cup {p} /\ introduced' = introduced
      /\ fuel' \in [Id -> Nat] /\ resource' \in [Id -> Nat] /\ since' \in [Id -> Since]
      /\ \A q \in Id : \/ since'[q] = since[q]
                       \/ q = p /\ since[q] = "before" /\ since'[q] = "after" /\ Connected
  BY LoginParts
<1>3. UNCHANGED <<scene, startsPosted, connections, m_MyPlayerId, m_PlayerList, placed, fault>>
  BY DEF ViewStays, loading, view
<1>4. Types'
  BY <1>1, <1>2, <1>3 DEF Types
<1>5. Scenes' /\ LoginOnce'
  BY <1>1, <1>3 DEF Scenes, LoginOnce
<1>6. Unconnected'
  BY <1>1, <1>2, <1>3 DEF Unconnected, Connected
<1>7. HeardOf'
  BY <1>1, <1>2, <1>3 DEF HeardOf, Heard
<1>8. First'
  BY <1>1, <1>2, <1>3 DEF First
<1>9. AfterPlays'
  BY <1>1, <1>2 DEF AfterPlays
<1>10. Coming'
  <2>1. \A q \in introduced : q \in Id /\ q # p
    BY <1>1, <1>2 DEF Types
  <2> QED  BY <1>1, <1>2, <1>3, <2>1 DEF Coming
<1>11. LoginPlaces'
  BY <1>1, <1>2, <1>3 DEF LoginPlaces
<1>12. Tracked'
  BY <1>3, LoginParts DEF Tracked, FuelTracked, ResourceTracked
<1> QED  BY <1>4, <1>5, <1>6, <1>7, <1>8, <1>9, <1>10, <1>11, <1>12 DEF Inv

(* The client's own LOGIN is answered.                                     *)
LEMMA OwnLogin ==
  ASSUME Inv, requests # <<>>, requests' = Tail(requests), HandleLoginRequest, ViewStays
  PROVE  Inv'
<1>1. /\ Types /\ Scenes /\ Unconnected /\ LoginOnce /\ HeardOf /\ First /\ AfterPlays
      /\ Coming /\ LoginPlaces /\ connections \in {0, 1} /\ results \in Seq(Message)
      /\ since \in [Id -> Since] /\ m_MyPlayerId \in {mPlayerId, NoId}
      /\ requests \in Seq(Requests) /\ Once(requests, mPlayerId)
  BY DEF Inv, Types, LoginOnce
<1>2. PICK p \in Id : Login(p) /\ mPlayerId' = p /\ results' = Append(results, Result("LOGIN", p, 0))
  BY DEF HandleLoginRequest
<1>3. /\ p \notin playing /\ playing' = playing \cup {p} /\ introduced' = introduced
      /\ fuel' \in [Id -> Nat] /\ resource' \in [Id -> Nat] /\ since' \in [Id -> Since]
      /\ Heard(p) => since[p] = "left"
      /\ \A q \in Id : \/ since'[q] = since[q]
                       \/ q = p /\ since[q] = "before" /\ since'[q] = "after" /\ Connected
  BY <1>2, LoginParts
<1>4. UNCHANGED <<scene, startsPosted, connections, m_MyPlayerId, m_PlayerList, placed, fault>>
  BY DEF ViewStays, loading, view
<1>5. /\ requests' \in Seq(Requests) /\ Shortened(requests', requests) /\ requests[1] = "LOGIN"
      /\ 1 \in DOMAIN requests
  <2>1. requests' \in Seq(Requests) /\ Shortened(requests', requests) /\ Head(requests) = requests[1]
    BY <1>1, TailShortens
  <2> QED  BY <2>1 DEF HandleLoginRequest, Shortened
<1>6. mPlayerId = NoId /\ m_MyPlayerId = NoId /\ Once(requests', p) /\ connections # 0
  BY <1>1, <1>5, OnceTail DEF Once, Unconnected
<1> DEFINE m == Result("LOGIN", p, 0)   b == <<m>>
<1>7. m \in Message /\ m.type = "LOGIN" /\ m.id = p
  BY DEF Result, Message, ResultType
<1>8. results' = Append(results, m)
  BY <1>2
<1> HIDE DEF m
<1>9. results' \in Seq(Message) /\ Extended(results', results, b)
  BY <1>1, <1>7, <1>8, AppendExtends
<1>10. DOMAIN b = {1} /\ b[1] = m
  OBVIOUS
<1> HIDE DEF b
<1>11. /\ \A i \in DOMAIN results : i \in DOMAIN results' /\ results'[i] = results[i]
       /\ \A i \in DOMAIN results' : \/ i \in DOMAIN results
                                     \/ results'[i] = m
       /\ \E i \in DOMAIN results' : results'[i] = m
       /\ DOMAIN results' \subseteq Nat
  BY <1>9, <1>10 DEF Extended
<1>12. p # NoId
  BY Constants
<1>13. \A i \in DOMAIN results : results[i].type # "LOGIN"
  <2> SUFFICES ASSUME NEW i \in DOMAIN results, results[i].type = "LOGIN" PROVE FALSE
    OBVIOUS
  <2>1. results[i].id = NoId
    BY <1>1, <1>6 DEF LoginOnce
  <2>2. results[i] \in Message
    BY <1>1
  <2> QED  BY <2>1, <2>2, Constants DEF Message
<1>14. Types'
  BY <1>1, <1>2, <1>3, <1>4, <1>5, <1>6, <1>9 DEF Types
<1>15. Scenes' /\ Unconnected' /\ LoginPlaces'
  <2>1. Scenes'
    BY <1>1, <1>4 DEF Scenes
  <2>2. Unconnected'
    BY <1>4, <1>6 DEF Unconnected
  <2>3. LoginPlaces'
    BY <1>4, <1>6 DEF LoginPlaces
  <2> QED  BY <2>1, <2>2, <2>3
<1>16. LoginOnce'
  BY <1>2, <1>6, <1>7, <1>11, <1>13 DEF LoginOnce
<1>17. HeardOf'
  <2> SUFFICES ASSUME NEW q \in Id, Heard(q)' PROVE q \in playing' \/ since'[q] = "left"
    BY DEF HeardOf
  <2>1. CASE q = p
    BY <2>1, <1>3
  <2>2. CASE q # p
    <3>1. Heard(q)
      BY <2>2, <1>4, <1>7, <1>11 DEF Heard
    <3>2. since'[q] = since[q]
      BY <2>2, <1>3
    <3> QED  BY <3>1, <3>2, <1>1, <1>3 DEF HeardOf
  <2> QED  BY <2>1, <2>2
<1>18. First'
  <2> SUFFICES ASSUME since'[p] # "left"
               PROVE  /\ p \notin DOMAIN m_PlayerList
                      /\ \A i \in DOMAIN results' : results'[i].id = p => results'[i].type = "LOGIN"
    <3>1. DOMAIN results' \subseteq Nat
      BY <1>11
    <3>2. \A i \in DOMAIN results' : i <= i
      BY <3>1
    <3> QED  BY <3>2, <1>2, <1>4 DEF First
  <2>1. ~Heard(p)
    BY <1>3
  <2> QED  BY <2>1, <1>7, <1>11 DEF Heard
<1>19. AfterPlays'
  BY <1>1, <1>3 DEF AfterPlays
<1>20. Coming'
  <2>0. introduced \subseteq playing /\ playing \subseteq Id
    BY <1>1 DEF Types
  <2>1. \A q \in introduced : q \in Id /\ q # p
    BY <1>3, <2>0
  <2>2. ASSUME NEW q \in introduced, since'[q] # "before"
        PROVE  \/ q \in DOMAIN m_PlayerList
               \/ \E i \in DOMAIN results' : results'[i].type = "NEW" /\ results'[i].id = q
    <3>1. since[q] # "before"
      BY <1>3, <2>1, <2>2
    <3>2. \/ q \in DOMAIN m_PlayerList
          \/ \E i \in DOMAIN results : results[i].type = "NEW" /\ results[i].id = q
      BY <1>1, <3>1 DEF Coming
    <3> QED  BY <3>2, <1>11
  <2> QED  BY <1>3, <1>4, <2>2 DEF Coming
<1>21. ASSUME NEW q \in Id, since'[q] = "after" PROVE FuelTracked(q)' /\ ResourceTracked(q)'
  <2>1. /\ Tracks(DOMAIN m_PlayerList, m_PlayerList[q].fuel, results, q, FuelTypes,
                  DEFAULT_FUEL, fuel'[q])
        /\ Tracks(DOMAIN m_PlayerList, m_PlayerList[q].resource, results, q, ResourceTypes,
                  0, resource'[q])
    BY <1>2, <1>21, LoginParts
  <2>2. \A k \in DOMAIN b : ~Says(b[k], q, FuelTypes) /\ ~Says(b[k], q, ResourceTypes)
    BY <1>7, <1>10 DEF Says, FuelTypes, ResourceTypes
  <2>3. FuelTracked(q)'
    BY <1>4, <1>9, <2>1, <2>2, TracksLonger DEF FuelTracked
  <2>4. ResourceTracked(q)'
    BY <1>4, <1>9, <2>1, <2>2, TracksLonger DEF ResourceTracked
  <2> QED  BY <2>3, <2>4
<1>22. Tracked'
  BY <1>21 DEF Tracked
<1> QED  BY <1>14, <1>15, <1>16, <1>17, <1>18, <1>19, <1>20, <1>22 DEF Inv

LEMMA LeaveKeeps ==
  ASSUME Inv, NEW p \in Id, p # mPlayerId, Server!Leave(p), introduced' = introduced \ {p},
         since' = IF Connected THEN [since EXCEPT ![p] = "left"] ELSE since, ViewStays,
         UNCHANGED <<requests, results, mPlayerId>>
  PROVE  Inv'
<1>1. /\ Types /\ Scenes /\ Unconnected /\ LoginOnce /\ HeardOf /\ First /\ AfterPlays
      /\ Coming /\ Tracked /\ LoginPlaces /\ connections \in {0, 1}
      /\ since \in [Id -> Since] /\ mPlayerId \in Id \cup {NoId} /\ m_MyPlayerId \in Id \cup {NoId}
      /\ introduced \subseteq playing /\ playing \subseteq Id
  BY DEF Inv, Types
<1>2. /\ p \in playing /\ playing' = playing \ {p} /\ UNCHANGED <<fuel, resource>>
  BY DEF Server!Leave
<1>3. UNCHANGED <<scene, startsPosted, connections, m_MyPlayerId, m_PlayerList, placed, fault>>
  BY DEF ViewStays, loading, view
<1>4. /\ since' \in [Id -> Since] /\ \A q \in Id \ {p} : since'[q] = since[q]
      /\ Connected => since'[p] = "left"
      /\ ~Connected => since' = since
  BY <1>1 DEF Since
<1>5. /\ introduced' \subseteq introduced /\ introduced' \subseteq playing' /\ playing' \subseteq playing
      /\ p \notin introduced' /\ \A q \in introduced' : q \in Id \ {p}
  BY <1>1, <1>2
<1>6. ~Connected => /\ results = <<>> /\ m_PlayerList = <<>>
                    /\ \A q \in Id : since[q] = "before"
  BY <1>1 DEF Unconnected, Connected
<1>7. Types'
  BY <1>1, <1>2, <1>3, <1>4, <1>5 DEF Types
<1>8. Scenes' /\ LoginOnce'
  BY <1>1, <1>3 DEF Scenes, LoginOnce
<1>9. Unconnected'
  BY <1>1, <1>3, <1>4 DEF Unconnected, Connected
<1>10. HeardOf'
  <2> SUFFICES ASSUME NEW q \in Id, Heard(q) PROVE q \in playing' \/ since'[q] = "left"
    BY <1>3 DEF HeardOf, Heard
  <2>1. CASE q = p
    <3>1. Connected
      BY <1>6 DEF Heard
    <3> QED  BY <3>1, <2>1, <1>4
  <2>2. CASE q # p
    BY <2>2, <1>1, <1>2, <1>4 DEF HeardOf
  <2> QED  BY <2>1, <2>2
<1>11. First'
  BY <1>1, <1>3, <1>4 DEF First
<1>12. AfterPlays'
  <2>1. ASSUME NEW q \in Id, since'[q] = "after" PROVE q \in playing'
    <3>1. q # p
      BY <2>1, <1>4, <1>6
    <3> QED  BY <3>1, <2>1, <1>1, <1>2, <1>4 DEF AfterPlays
  <2> QED  BY <2>1 DEF AfterPlays
<1>13. Coming'
  BY <1>1, <1>3, <1>4, <1>5 DEF Coming
<1>14. Tracked'
  <2>1. ASSUME NEW q \in Id, since'[q] = "after" PROVE FuelTracked(q)' /\ ResourceTracked(q)'
    <3>1. since[q] = "after"
      BY <2>1, <1>4, <1>6
    <3>2. FuelTracked(q) /\ ResourceTracked(q)
      BY <3>1, <1>1 DEF Tracked
    <3> QED  BY <3>2, <1>2, <1>3 DEF FuelTracked, ResourceTracked
  <2> QED  BY <2>1 DEF Tracked
<1>15. LoginPlaces'
  BY <1>1, <1>3, <1>4 DEF LoginPlaces
<1> QED  BY <1>7, <1>8, <1>9, <1>10, <1>11, <1>12, <1>13, <1>14, <1>15 DEF Inv

LEMMA OthersKeep ==
  ASSUME Inv, NEW p \in Id, Others(p)
  PROVE  Inv'
<1>1. /\ p # mPlayerId /\ ViewStays /\ requests' = requests /\ RequestTaken
  BY DEF Others, ViewStays, RequestTaken
<1>2. CASE Login(p) /\ UNCHANGED <<results, mPlayerId>>
  BY <1>1, <1>2, OthersLogin
<1>3. CASE p \notin introduced /\ Introduce(p) /\ Deliver(sent') /\ UNCHANGED <<mPlayerId, since>>
  <2> DEFINE m == Result("NEW", p, 0)   b == <<m>>
  <2>1. m \in Message /\ m.type = "NEW" /\ m.id = p
    BY DEF Result, Message, ResultType
  <2>2. sent' = b /\ p \in playing
    BY <1>3 DEF Introduce, Server!Introduce, Server!Result, Result
  <2> HIDE DEF m
  <2>3. b \in Seq(Message) /\ DOMAIN b = {1} /\ b[1] = m
    BY <2>1
  <2> HIDE DEF b
  <2>4. /\ \A k \in DOMAIN b : b[k].type \in {"NEW", "SYNC"} /\ b[k].id \in playing
        /\ \E k \in DOMAIN b : b[k].type = "NEW" /\ b[k].id = p
        /\ Deliver(b)
    BY <1>3, <2>1, <2>2, <2>3
  <2> QED  BY <1>1, <1>3, <2>3, <2>4, IntroduceKeeps
<1>4. CASE /\ Server!Leave(p) /\ introduced' = introduced \ {p}
           /\ since' = IF Connected THEN [since EXCEPT ![p] = "left"] ELSE since
           /\ UNCHANGED <<mPlayerId, results>>
  BY <1>1, <1>4, LeaveKeeps
<1>5. CASE \E type \in RequestType : Act(p, type)
  BY <1>1, <1>5, ActKeeps
<1> QED  BY <1>2, <1>3, <1>4, <1>5 DEF Others

LEMMA HandleGameState ==
  ASSUME Inv, HandleGameStateRequest, ViewStays, RequestTaken
  PROVE  Inv'
<1> DEFINE p == mPlayerId   m == Result("NEW", p, 0)   a == <<m>>   S == playing \ {p}
<1>1. PICK order \in Server!Ascending(S) :
        Deliver(sent' \o [i \in DOMAIN order |-> Result("SYNC", order[i], 0)])
  BY DEF HandleGameStateRequest
<1>2. /\ Introduce(p) /\ UNCHANGED <<mPlayerId, since>> /\ p \in playing /\ sent' = a
  BY DEF HandleGameStateRequest, Introduce, Server!Introduce, Server!Result, Result
<1>3. playing \subseteq Id /\ p \in Id /\ S \in SUBSET Id
  BY <1>2 DEF Inv, Types
<1> DEFINE c == [i \in DOMAIN order |-> Result("SYNC", order[i], 0)]
<1>4. DOMAIN order = 1 .. Cardinality(S) /\ \A i \in DOMAIN order : order[i] \in S
  BY <1>1, Orders
<1>5. Cardinality(S) \in Nat
  BY <1>3, Finite, FS_CardinalityType
<1>6. \A k \in DOMAIN c : c[k].type = "SYNC" /\ c[k].id \in playing /\ c[k] \in Message
  <2>1. \A i \in DOMAIN order : order[i] \in Id /\ order[i] \in playing
    BY <1>3, <1>4
  <2> QED  BY <2>1 DEF Result, Message, ResultType
<1>7. c \in Seq(Message)
  <2>1. c \in [1 .. Cardinality(S) -> Message]
    BY <1>4, <1>6
  <2> HIDE DEF c, S
  <2> QED  BY <2>1, <1>5
<1>8. m \in Message /\ m.type = "NEW" /\ m.id = p
  BY <1>3 DEF Result, Message, ResultType
<1>9. Deliver(a \o c)
  BY <1>1, <1>2
<1> HIDE DEF m, c, S
<1>10. a \in Seq(Message) /\ DOMAIN a = {1} /\ a[1] = m
  BY <1>8
<1> HIDE DEF a
<1> DEFINE b == a \o c
<1>11. b \in Seq(Message) /\ Extended(b, a, c)
  BY <1>7, <1>10, ConcatExtends
<1>12. Deliver(b)
  BY <1>9
<1> HIDE DEF b
<1>13. \A k \in DOMAIN b : b[k].type \in {"NEW", "SYNC"} /\ b[k].id \in playing
  <2>1. ASSUME NEW k \in DOMAIN b PROVE b[k] = m \/ \E j \in DOMAIN c : b[k] = c[j]
    BY <1>10, <1>11 DEF Extended
  <2> QED  BY <2>1, <1>2, <1>6, <1>8
<1>14. \E k \in DOMAIN b : b[k].type = "NEW" /\ b[k].id = p
  <2>1. 1 \in DOMAIN b /\ b[1] = m
    BY <1>10, <1>11 DEF Extended
  <2> QED  BY <2>1, <1>8
<1> QED  BY <1>2, <1>11, <1>12, <1>13, <1>14, IntroduceKeeps

LEMMA HandleRequestKeeps ==
  ASSUME Inv, HandleRequest
  PROVE  Inv'
<1>1. /\ requests # <<>> /\ requests' = Tail(requests) /\ RequestTaken /\ ViewStays
  BY DEF HandleRequest, RequestTaken, ViewStays
<1>2. CASE HandleLoginRequest
  BY <1>1, <1>2, OwnLogin
<1>3. CASE HandleGameStateRequest
  BY <1>1, <1>3, HandleGameState
<1>4. CASE Act(mPlayerId, Head(requests))
  BY <1>1, <1>4, ActKeeps
<1>5. CASE Server!Quiet /\ UNCHANGED <<introduced, mPlayerId, since, results>>
  <2> DEFINE b == <<>>
  <2>1. /\ UNCHANGED <<playing, fuel, resource, introduced, mPlayerId, since, results>>
        /\ introduced \subseteq playing /\ fuel \in [Id -> Nat] /\ resource \in [Id -> Nat]
        /\ results \in Seq(Message)
    BY <1>5 DEF Server!Quiet, Inv, Types
  <2>2. b \in Seq(Message) /\ DOMAIN b = {} /\ results \o b = results
    <3>1. results \o <<>> = results
      BY <2>1, ConcatEmptySeq
    <3> QED  BY <3>1, EmptySeq
  <2> HIDE DEF b
  <2>3. results' = results \o b /\ m_PlayerList' = m_PlayerList
    BY <1>1, <2>1, <2>2 DEF ViewStays, view
  <2>4. Tracked'
    BY <2>1, <2>2, <2>3, SilentTracked
  <2>5. results' = IF Connected THEN results \o b ELSE results
    BY <2>1, <2>2
  <2> QED  BY <1>1, <2>1, <2>2, <2>4, <2>5, BroadcastKeeps DEF ViewStays, RequestTaken
<1> QED  BY <1>2, <1>3, <1>4, <1>5 DEF HandleRequest

-----------------------------------------------------------------------------
(* What the client's steps keep.                                           *)

LEMMA OnceAppend ==
  ASSUME NEW q \in Seq(Requests), NEW m \in Requests, m # "LOGIN", NEW id, Once(q, id)
  PROVE  Append(q, m) \in Seq(Requests) /\ Once(Append(q, m), id)
<1> DEFINE b == <<m>>   s == Append(q, m)
<1>1. s \in Seq(Requests) /\ Extended(s, q, b)
  BY AppendExtends
<1>2. DOMAIN b = {1} /\ b[1] = m
  OBVIOUS
<1> HIDE DEF b, s
<1>3. \A i \in DOMAIN s : s[i] = "LOGIN" => i \in DOMAIN q /\ q[i] = "LOGIN"
  BY <1>1, <1>2 DEF Extended
<1>4. Once(s, id)
  BY <1>3 DEF Once
<1> QED  BY <1>1, <1>4 DEF s

LEMMA RenderKeeps ==
  ASSUME Inv, RenderLoadingScene
  PROVE  Inv'
<1>1. /\ scene = "LOADING" /\ startsPosted' = 1
      /\ UNCHANGED <<playing, fuel, resource, introduced, mPlayerId, requests, results, scene,
                     connections, m_MyPlayerId, m_PlayerList, placed, fault, since>>
  BY DEF RenderLoadingScene, NoServerStep, server, view
<1>2. Types' /\ Scenes' /\ Unconnected'
  BY <1>1 DEF Inv, Types, Scenes, Unconnected
<1>3. LoginOnce' /\ HeardOf' /\ First'
  BY <1>1 DEF Inv, LoginOnce, HeardOf, Heard, First
<1>4. AfterPlays' /\ Coming' /\ LoginPlaces'
  BY <1>1 DEF Inv, AfterPlays, Coming, LoginPlaces
<1>5. Tracked'
  BY <1>1 DEF Inv, Tracked, FuelTracked, ResourceTracked
<1> QED  BY <1>2, <1>3, <1>4, <1>5 DEF Inv

LEMMA ChangeSceneKeeps ==
  ASSUME Inv, NEW outcome \in Outcome, ChangeScene(outcome)
  PROVE  Inv'
<1>1. /\ startsPosted' = startsPosted - 1 /\ startsPosted > 0 /\ scene' = "PLAY"
      /\ UNCHANGED <<playing, fuel, resource, introduced, mPlayerId, results,
                     m_MyPlayerId, m_PlayerList, placed, since>>
      /\ \/ connections' = connections + 1 /\ requests' = Append(requests, "LOGIN")
         \/ connections' = connections /\ requests' = requests
  BY DEF ChangeScene, NoServerStep, PlaySceneInit, Connect, Outcome, server, view
<1>2. /\ Types /\ Scenes /\ Unconnected /\ startsPosted \in {0, 1}
  BY DEF Inv, Types
<1>3. startsPosted' = 0 /\ connections = 0
  BY <1>1, <1>2 DEF Scenes
<1>4. /\ requests = <<>> /\ results = <<>> /\ m_PlayerList = <<>>
      /\ mPlayerId = NoId /\ m_MyPlayerId = NoId
      /\ \A p \in Id : since[p] = "before"
  BY <1>2, <1>3 DEF Unconnected
<1>5. /\ requests' \in Seq(Requests) /\ Once(requests', mPlayerId)
      /\ connections' \in {0, 1}
      /\ connections' = 0 => requests' = <<>>
  <2>1. CASE connections' = connections + 1 /\ requests' = Append(requests, "LOGIN")
    <3>1. requests' = <<"LOGIN">>
      BY <1>4, <2>1
    <3>2. "LOGIN" \in Requests
      BY DEF Requests
    <3>3. requests' \in Seq(Requests) /\ DOMAIN requests' = {1}
      BY <3>1, <3>2
    <3> QED  BY <1>3, <1>4, <2>1, <3>3 DEF Once
  <2>2. CASE connections' = connections /\ requests' = requests
    <3>1. <<>> \in Seq(Requests) /\ DOMAIN <<>> = {}
      BY EmptySeq
    <3> QED  BY <1>3, <1>4, <2>2, <3>1 DEF Once
  <2> QED  BY <1>1, <2>1, <2>2
<1>6. Types' /\ Scenes' /\ Unconnected'
  BY <1>1, <1>2, <1>3, <1>4, <1>5 DEF Types, Scenes, Unconnected
<1>7. LoginOnce' /\ First' /\ LoginPlaces'
  BY <1>1, <1>4, <1>5 DEF Inv, LoginOnce, First, LoginPlaces
<1>8. HeardOf' /\ AfterPlays' /\ Coming'
  BY <1>1 DEF Inv, HeardOf, Heard, AfterPlays, Coming
<1>9. Tracked'
  BY <1>1 DEF Inv, Tracked, FuelTracked, ResourceTracked
<1> QED  BY <1>6, <1>7, <1>8, <1>9 DEF Inv

LEMMA UpdatePlayersKeeps ==
  ASSUME Inv, NEW S, UpdatePlayers(S)
  PROVE  Inv'
<1>1. /\ m_PlayerList' = [p \in DOMAIN m_PlayerList |->
                            [m_PlayerList[p] EXCEPT !.alive = @ /\ p \notin S]]
      /\ UNCHANGED <<playing, fuel, resource, introduced, mPlayerId, requests, results, scene,
                     startsPosted, connections, m_MyPlayerId, placed, fault, since>>
  BY DEF UpdatePlayers, NoServerStep, server, loading
<1>2. /\ DOMAIN m_PlayerList \subseteq Id /\ m_PlayerList \in [DOMAIN m_PlayerList -> Copy]
  BY DEF Inv, Types
<1>3. DOMAIN m_PlayerList' = DOMAIN m_PlayerList
  BY <1>1
<1>4. ASSUME NEW p \in DOMAIN m_PlayerList
      PROVE  /\ m_PlayerList'[p] \in Copy /\ m_PlayerList'[p].fuel = m_PlayerList[p].fuel
             /\ m_PlayerList'[p].resource = m_PlayerList[p].resource
  <2> DEFINE c == m_PlayerList[p]
  <2>1. m_PlayerList'[p] = [c EXCEPT !.alive = c.alive /\ p \notin S] /\ c \in Copy
    BY <1>1, <1>2
  <2> HIDE DEF c
  <2>2. (c.alive /\ p \notin S) \in BOOLEAN
    OBVIOUS
  <2> QED  BY <2>1, <2>2 DEF Copy, c
<1>5. m_PlayerList' \in [DOMAIN m_PlayerList' -> Copy]
  BY <1>1, <1>3, <1>4
<1>6. connections = 0 => m_PlayerList' = <<>>
  <2> SUFFICES ASSUME connections = 0 PROVE m_PlayerList' = <<>>
    OBVIOUS
  <2>1. m_PlayerList = <<>>
    BY DEF Inv, Unconnected
  <2>2. DOMAIN m_PlayerList = {}
    BY <2>1
  <2> QED  BY <1>1, <2>1, <2>2
<1>7. Types' /\ Scenes' /\ Unconnected'
  BY <1>1, <1>2, <1>3, <1>5, <1>6 DEF Inv, Types, Scenes, Unconnected
<1>8. LoginOnce' /\ HeardOf' /\ First'
  BY <1>1, <1>3 DEF Inv, LoginOnce, HeardOf, Heard, First
<1>9. AfterPlays' /\ Coming' /\ LoginPlaces'
  BY <1>1, <1>3 DEF Inv, AfterPlays, Coming, LoginPlaces
<1>10. ASSUME NEW p \in Id, since[p] = "after" PROVE FuelTracked(p)' /\ ResourceTracked(p)'
  <2>1. FuelTracked(p) /\ ResourceTracked(p)
    BY <1>10 DEF Inv, Tracked
  <2> QED  BY <1>1, <1>3, <1>4, <2>1 DEF FuelTracked, ResourceTracked, Tracks
<1>11. Tracked'
  BY <1>1, <1>10 DEF Tracked
<1> QED  BY <1>7, <1>8, <1>9, <1>11 DEF Inv

LEMMA UpdatePlaySceneKeeps ==
  ASSUME Inv, NEW type \in RequestType, UpdatePlayScene(type)
  PROVE  Inv'
<1>1. /\ m_MyPlayerId # NoId
      /\ fault' # "NoDebris" \/ fault' = fault
      /\ UNCHANGED <<playing, fuel, resource, introduced, mPlayerId, results, scene,
                     startsPosted, connections, m_MyPlayerId, m_PlayerList, placed, since>>
      /\ requests' = requests \/ requests' = Append(requests, type)
  BY DEF UpdatePlayScene, NoServerStep, server, loading, view
<1>2. /\ requests \in Seq(Requests) /\ Once(requests, mPlayerId)
      /\ type \in Requests /\ type # "LOGIN"
  BY DEF Inv, Types, LoginOnce, Requests, RequestType
<1>3. requests' \in Seq(Requests) /\ Once(requests', mPlayerId)
  BY <1>1, <1>2, OnceAppend
<1>4. connections # 0
  BY DEF UpdatePlayScene, Inv, Unconnected
<1>5. Types' /\ Scenes' /\ Unconnected'
  BY <1>1, <1>3, <1>4 DEF Inv, Types, Scenes, Unconnected
<1>6. LoginOnce' /\ HeardOf' /\ First'
  BY <1>1, <1>3 DEF Inv, LoginOnce, HeardOf, Heard, First
<1>7. AfterPlays' /\ Coming' /\ LoginPlaces'
  BY <1>1 DEF Inv, AfterPlays, Coming, LoginPlaces
<1>8. Tracked'
  BY <1>1 DEF Inv, Tracked, FuelTracked, ResourceTracked
<1> QED  BY <1>5, <1>6, <1>7, <1>8 DEF Inv

(* The results: what becomes of the copies, ...                            *)
LEMMA SetFacts ==
  ASSUME Inv, NEW p, NEW player, Knows(p) => player \in Copy, Set(p, player)
  PROVE  /\ DOMAIN m_PlayerList' = DOMAIN m_PlayerList
         /\ m_PlayerList' \in [DOMAIN m_PlayerList' -> Copy]
         /\ \A q \in DOMAIN m_PlayerList :
              m_PlayerList'[q] = IF q = p THEN player ELSE m_PlayerList[q]
<1>1. m_PlayerList \in [DOMAIN m_PlayerList -> Copy]
  BY DEF Inv, Types
<1>2. CASE Knows(p)
  <2>1. m_PlayerList' = [m_PlayerList EXCEPT ![p] = player] /\ player \in Copy
    BY <1>2 DEF Set
  <2> QED  BY <1>1, <1>2, <2>1 DEF Knows
<1>3. CASE ~Knows(p)
  <2>1. m_PlayerList' = m_PlayerList
    BY <1>3 DEF Set
  <2> QED  BY <1>1, <1>3, <2>1 DEF Knows
<1> QED  BY <1>2, <1>3

LEMMA AddFacts ==
  ASSUME Inv, NEW p, m_PlayerList' = AddPlayer(p)
  PROVE  /\ DOMAIN m_PlayerList' = DOMAIN m_PlayerList \cup {p}
         /\ m_PlayerList' \in [DOMAIN m_PlayerList' -> Copy]
         /\ \A q \in DOMAIN m_PlayerList : m_PlayerList'[q] = m_PlayerList[q]
         /\ \A q \in DOMAIN m_PlayerList' \ DOMAIN m_PlayerList :
              m_PlayerList'[q].fuel = DEFAULT_FUEL /\ m_PlayerList'[q].resource = 0
<1>1. m_PlayerList \in [DOMAIN m_PlayerList -> Copy]
  BY DEF Inv, Types
<1>2. NewPlayer \in Copy /\ NewPlayer.fuel = DEFAULT_FUEL /\ NewPlayer.resource = 0
  BY Constants DEF NewPlayer, Copy
<1>3. /\ DOMAIN m_PlayerList' = DOMAIN m_PlayerList \cup {p}
      /\ m_PlayerList' = [q \in DOMAIN m_PlayerList' |-> IF Knows(q) THEN m_PlayerList[q]
                                                                     ELSE NewPlayer]
  BY DEF AddPlayer
<1>4. \A q \in DOMAIN m_PlayerList' :
        m_PlayerList'[q] = IF q \in DOMAIN m_PlayerList THEN m_PlayerList[q] ELSE NewPlayer
  BY <1>3 DEF Knows
<1>5. \A q \in DOMAIN m_PlayerList' : m_PlayerList'[q] \in Copy
  BY <1>1, <1>2, <1>4
<1> QED  BY <1>2, <1>3, <1>4, <1>5

(* The copy of a player the client knows has what the result says of it,   *)
(* any other stays; who is new has the values of a new player.             *)
Taken(h) ==
  /\ DOMAIN m_PlayerList \subseteq DOMAIN m_PlayerList'
  /\ DOMAIN m_PlayerList' \subseteq DOMAIN m_PlayerList \cup {h.id}
  /\ h.type = "NEW" => h.id \in DOMAIN m_PlayerList'
  /\ m_PlayerList' \in [DOMAIN m_PlayerList' -> Copy]
  /\ \A q \in DOMAIN m_PlayerList :
       /\ m_PlayerList'[q].fuel = IF Says(h, q, FuelTypes) THEN Said(h, DEFAULT_FUEL)
                                                           ELSE m_PlayerList[q].fuel
       /\ m_PlayerList'[q].resource = IF Says(h, q, ResourceTypes) THEN Said(h, 0)
                                                                   ELSE m_PlayerList[q].resource
  /\ \A q \in DOMAIN m_PlayerList' \ DOMAIN m_PlayerList :
       m_PlayerList'[q].fuel = DEFAULT_FUEL /\ m_PlayerList'[q].resource = 0

LEMMA TrackedTaken ==
  ASSUME Inv, results # <<>>, results' = Tail(results), Taken(results[1]),
         UNCHANGED <<fuel, resource, since>>
  PROVE  Tracked'
<1> DEFINE h == results[1]   D == DOMAIN m_PlayerList   E == DOMAIN m_PlayerList'
<1>1. Shortened(results', results)
  BY TailShortens DEF Inv, Types
<1>2. D \subseteq E /\ (h.type = "NEW" => h.id \in E)
  BY DEF Taken
<1>3. "NEW" \notin FuelTypes /\ "NEW" \notin ResourceTypes
  BY DEF FuelTypes, ResourceTypes
<1>4. ASSUME NEW q \in Id, since[q] = "after" PROVE FuelTracked(q)' /\ ResourceTracked(q)'
  <2>1. /\ Tracks(D, m_PlayerList[q].fuel, results, q, FuelTypes, DEFAULT_FUEL, fuel[q])
        /\ Tracks(D, m_PlayerList[q].resource, results, q, ResourceTypes, 0, resource[q])
    BY <1>4 DEF Inv, Tracked, FuelTracked, ResourceTracked
  <2>2. Tracks(E, m_PlayerList'[q].fuel, results', q, FuelTypes, DEFAULT_FUEL, fuel[q])
    <3>1. CASE Says(h, q, FuelTypes)
      <4>1. q \in D /\ Tracks(D, Said(h, DEFAULT_FUEL), results', q, FuelTypes, DEFAULT_FUEL, fuel[q])
        BY <1>1, <1>3, <2>1, <3>1, TracksTaken
      <4>2. q \in E /\ m_PlayerList'[q].fuel = Said(h, DEFAULT_FUEL)
        BY <1>2, <3>1, <4>1 DEF Taken
      <4> QED  BY <4>1, <4>2 DEF Tracks
    <3>2. CASE ~Says(h, q, FuelTypes)
      <4>1. (IF q \in E THEN m_PlayerList'[q].fuel ELSE DEFAULT_FUEL)
              = (IF q \in D THEN m_PlayerList[q].fuel ELSE DEFAULT_FUEL)
        BY <1>2, <3>2 DEF Taken
      <4> QED  BY <1>1, <1>2, <2>1, <3>2, <4>1, TracksPast
    <3> QED  BY <3>1, <3>2
  <2>3. Tracks(E, m_PlayerList'[q].resource, results', q, ResourceTypes, 0, resource[q])
    <3>1. CASE Says(h, q, ResourceTypes)
      <4>1. q \in D /\ Tracks(D, Said(h, 0), results', q, ResourceTypes, 0, resource[q])
        BY <1>1, <1>3, <2>1, <3>1, TracksTaken
      <4>2. q \in E /\ m_PlayerList'[q].resource = Said(h, 0)
        BY <1>2, <3>1, <4>1 DEF Taken
      <4> QED  BY <4>1, <4>2 DEF Tracks
    <3>2. CASE ~Says(h, q, ResourceTypes)
      <4>1. (IF q \in E THEN m_PlayerList'[q].resource ELSE 0)
              = (IF q \in D THEN m_PlayerList[q].resource ELSE 0)
        BY <1>2, <3>2 DEF Taken
      <4> QED  BY <1>1, <1>2, <2>1, <3>2, <4>1, TracksPast
    <3> QED  BY <3>1, <3>2
  <2> QED  BY <2>2, <2>3 DEF FuelTracked, ResourceTracked
<1> QED  BY <1>4 DEF Tracked

(* ... and of everything else.                                             *)
LEMMA TakenKeeps ==
  ASSUME Inv, results # <<>>, results' = Tail(results), Taken(results[1]),
         UNCHANGED <<server, loading, since>>, placed' \in BOOLEAN, LoginPlaces',
         IF results[1].type = "LOGIN"
         THEN m_MyPlayerId' = results[1].id /\ requests' = Append(requests, "GAME_STATE")
         ELSE m_MyPlayerId' = m_MyPlayerId /\ requests' = requests
  PROVE  Inv'
<1> DEFINE h == results[1]   D == DOMAIN m_PlayerList   E == DOMAIN m_PlayerList'
<1>1. /\ Types /\ Scenes /\ Unconnected /\ LoginOnce /\ HeardOf /\ First /\ AfterPlays /\ Coming
      /\ results \in Seq(Message) /\ requests \in Seq(Requests) /\ Once(requests, mPlayerId)
      /\ D \subseteq Id
  BY DEF Inv, Types, LoginOnce
<1>2. UNCHANGED <<playing, fuel, resource, introduced, mPlayerId, scene, startsPosted,
                  connections, since>>
  BY DEF server, loading
<1>3. /\ results' \in Seq(Message) /\ Shortened(results', results) /\ h \in Message
  BY <1>1, TailShortens
<1>4. /\ 1 \in DOMAIN results
      /\ \A i \in DOMAIN results' : i + 1 \in DOMAIN results /\ results'[i] = results[i + 1]
      /\ \A i \in DOMAIN results : i # 1 => i - 1 \in DOMAIN results' /\ results'[i - 1] = results[i]
      /\ DOMAIN results \subseteq Nat \ {0} /\ DOMAIN results' \subseteq Nat \ {0}
  BY <1>3 DEF Shortened
<1>5. /\ D \subseteq E /\ E \subseteq D \cup {h.id} /\ (h.type = "NEW" => h.id \in E)
      /\ m_PlayerList' \in [E -> Copy]
  BY DEF Taken
<1>6. h.id \in Id /\ h.id # NoId
  BY <1>3, Constants DEF Message
<1>7. h.type = "LOGIN" => h.id = mPlayerId
  BY <1>1, <1>4 DEF LoginOnce
<1>8. requests' \in Seq(Requests) /\ Once(requests', mPlayerId)
  <2>1. "GAME_STATE" \in Requests
    BY DEF Requests
  <2> QED  BY <1>1, <2>1, OnceAppend
<1>9. connections # 0
  BY <1>1 DEF Unconnected
<1>10. m_MyPlayerId' = NoId => m_MyPlayerId = NoId /\ h.type # "LOGIN"
  BY <1>6
<1>11. Types'
  <2>1. m_MyPlayerId' \in {mPlayerId, NoId}
    BY <1>1, <1>7 DEF Types
  <2>2. E \subseteq Id
    BY <1>1, <1>5, <1>6
  <2> QED  BY <1>1, <1>2, <1>3, <1>5, <1>8, <2>1, <2>2 DEF Types
<1>12. Scenes' /\ Unconnected' /\ AfterPlays'
  BY <1>1, <1>2, <1>9 DEF Scenes, Unconnected, AfterPlays
<1>13. LoginOnce'
  <2>1. \A i \in DOMAIN results' : results'[i].type = "LOGIN" => results'[i].id = mPlayerId
    BY <1>1, <1>4 DEF LoginOnce
  <2>2. ASSUME mPlayerId # NoId, m_MyPlayerId' = NoId
        PROVE  \E i \in DOMAIN results' : results'[i].type = "LOGIN"
    <3>1. PICK i \in DOMAIN results : results[i].type = "LOGIN"
      BY <1>1, <1>10, <2>2 DEF LoginOnce
    <3>2. i # 1
      BY <1>10, <2>2, <3>1
    <3> QED  BY <1>4, <3>1, <3>2
  <2> QED  BY <1>2, <1>8, <2>1, <2>2 DEF LoginOnce
<1>14. HeardOf'
  <2>1. ASSUME NEW p \in Id, Heard(p)' PROVE Heard(p)
    <3>1. CASE p \in E
      BY <1>4, <1>5, <3>1 DEF Heard
    <3>2. CASE \E i \in DOMAIN results' : results'[i].id = p
      BY <1>4, <3>2 DEF Heard
    <3> QED  BY <2>1, <3>1, <3>2 DEF Heard
  <2> QED  BY <1>1, <1>2, <2>1 DEF HeardOf
<1>15. First'
  <2> SUFFICES ASSUME mPlayerId # NoId, m_MyPlayerId' = NoId, since[mPlayerId] # "left"
               PROVE  /\ mPlayerId \notin E
                      /\ \A i \in DOMAIN results' : results'[i].id = mPlayerId =>
                           \E j \in DOMAIN results' : j <= i /\ results'[j].type = "LOGIN"
    BY <1>2 DEF First
  <2>1. /\ mPlayerId \notin D
        /\ \A i \in DOMAIN results : results[i].id = mPlayerId =>
             \E j \in DOMAIN results : j <= i /\ results[j].type = "LOGIN"
    BY <1>1, <1>10 DEF First
  <2>2. h.id # mPlayerId
    <3> SUFFICES ASSUME h.id = mPlayerId PROVE FALSE
      OBVIOUS
    <3>1. PICK j \in DOMAIN results : j <= 1 /\ results[j].type = "LOGIN"
      BY <1>4, <2>1
    <3>2. j = 1
      BY <1>4, <3>1
    <3> QED  BY <1>10, <3>1, <3>2
  <2>3. ASSUME NEW i \in DOMAIN results', results'[i].id = mPlayerId
        PROVE  \E j \in DOMAIN results' : j <= i /\ results'[j].type = "LOGIN"
    <3>1. PICK j \in DOMAIN results : j <= i + 1 /\ results[j].type = "LOGIN"
      BY <1>4, <2>1, <2>3
    <3>2. j # 1 /\ j \in Nat /\ i \in Nat
      BY <1>4, <1>10, <3>1
    <3>3. j - 1 \in DOMAIN results' /\ results'[j - 1].type = "LOGIN" /\ j - 1 <= i
      BY <1>4, <3>1, <3>2
    <3> QED  BY <3>3
  <2> QED  BY <1>5, <2>1, <2>2, <2>3
<1>16. Coming'
  <2>1. ASSUME NEW p \in introduced, since[p] # "before"
        PROVE  p \in E \/ \E i \in DOMAIN results' : results'[i].type = "NEW" /\ results'[i].id = p
    <3>1. CASE p \in D
      BY <1>5, <3>1
    <3>2. CASE p \notin D
      <4>1. PICK i \in DOMAIN results : results[i].type = "NEW" /\ results[i].id = p
        BY <1>1, <2>1, <3>2 DEF Coming
      <4> QED  BY <1>4, <1>5, <4>1
    <3> QED  BY <3>1, <3>2
  <2> QED  BY <1>2, <2>1 DEF Coming
<1>17. Tracked'
  BY <1>2, TrackedTaken
<1> QED  BY <1>11, <1>12, <1>13, <1>14, <1>15, <1>16, <1>17 DEF Inv

LEMMA HandleResultKeeps ==
  ASSUME Inv, HandleResult
  PROVE  Inv'
<1> DEFINE h == results[1]   p == h.id   n == h.value   D == DOMAIN m_PlayerList
<1>1. /\ fault = "none" /\ results # <<>> /\ results' = Tail(results)
      /\ UNCHANGED <<server, loading, since>>
  BY DEF HandleResult, NoServerStep
<1>2. /\ results \in Seq(Message) /\ D \subseteq Id /\ placed \in BOOLEAN /\ LoginPlaces
      /\ m_PlayerList \in [D -> Copy] /\ LoginOnce /\ First /\ m_MyPlayerId \in {mPlayerId, NoId}
      /\ since \in [Id -> Since]
  BY DEF Inv, Types
<1>3. h = Head(results) /\ h \in Message /\ 1 \in DOMAIN results
  <2>1. h = Head(results) /\ h \in Message /\ Shortened(results', results)
    BY <1>1, <1>2, TailShortens
  <2> QED  BY <2>1 DEF Shortened
<1>4. p \in Id /\ n \in Nat /\ p # NoId
  BY <1>3, Constants DEF Message
<1>5. ASSUME NEW player, Knows(p) => player \in Copy, Set(p, player), h.type # "NEW",
             p \in D => /\ player.fuel = IF h.type \in FuelTypes THEN Said(h, DEFAULT_FUEL)
                                                                 ELSE m_PlayerList[p].fuel
                        /\ player.resource = IF h.type \in ResourceTypes THEN Said(h, 0)
                                                                         ELSE m_PlayerList[p].resource
      PROVE  Taken(h)
  <2>1. /\ DOMAIN m_PlayerList' = D
        /\ m_PlayerList' \in [DOMAIN m_PlayerList' -> Copy]
        /\ \A q \in D : m_PlayerList'[q] = IF q = p THEN player ELSE m_PlayerList[q]
    BY <1>5, SetFacts
  <2> HIDE DEF h
  <2>2. ASSUME NEW q \in D
        PROVE  /\ m_PlayerList'[q].fuel = IF Says(h, q, FuelTypes) THEN Said(h, DEFAULT_FUEL)
                                                                   ELSE m_PlayerList[q].fuel
               /\ m_PlayerList'[q].resource = IF Says(h, q, ResourceTypes) THEN Said(h, 0)
                                                                   ELSE m_PlayerList[q].resource
    <3>1. CASE q = p
      BY <1>5, <2>1, <3>1 DEF Says
    <3>2. CASE q # p
      BY <2>1, <3>2 DEF Says
    <3> QED  BY <3>1, <3>2
  <2> QED  BY <1>5, <2>1, <2>2 DEF Taken
<1>6. ASSUME h.type \notin FuelTypes \cup ResourceTypes, m_PlayerList' = AddPlayer(p)
      PROVE  Taken(h)
  <2>1. /\ DOMAIN m_PlayerList' = D \cup {p}
        /\ m_PlayerList' \in [DOMAIN m_PlayerList' -> Copy]
        /\ \A q \in D : m_PlayerList'[q] = m_PlayerList[q]
        /\ \A q \in DOMAIN m_PlayerList' \ D :
             m_PlayerList'[q].fuel = DEFAULT_FUEL /\ m_PlayerList'[q].resource = 0
    BY <1>6, AddFacts
  <2> HIDE DEF h
  <2>2. \A q \in D : ~Says(h, q, FuelTypes) /\ ~Says(h, q, ResourceTypes)
    BY <1>6 DEF Says
  <2> QED  BY <2>1, <2>2 DEF Taken
<1>7. ASSUME Taken(h), h.type # "LOGIN", UNCHANGED <<requests, m_MyPlayerId, placed, fault>>
      PROVE  Inv'
  <2>1. LoginPlaces'
    BY <1>1, <1>2, <1>7 DEF LoginPlaces
  <2> QED  BY <1>1, <1>2, <1>7, <2>1, TakenKeeps
<1>8. CASE h.type = "LOGIN" /\ HandleLoginResult(p)
  <2>1. /\ m_MyPlayerId' = p /\ m_PlayerList' = AddPlayer(p) /\ placed' = (placed \/ ~Knows(p))
        /\ fault' = fault /\ requests' = Append(requests, "GAME_STATE")
    BY <1>8 DEF HandleLoginResult
  <2>2. Taken(h)
    BY <1>6, <1>8, <2>1 DEF FuelTypes, ResourceTypes
  <2>3. p = mPlayerId
    BY <1>2, <1>3, <1>8 DEF LoginOnce
  <2>4. placed' \in BOOLEAN
    BY <2>1
  <2>5. placed' \/ since[p] = "left"
    <3>1. CASE m_MyPlayerId = NoId
      BY <1>2, <1>4, <2>1, <2>3, <3>1 DEF First, Knows
    <3>2. CASE m_MyPlayerId # NoId
      BY <1>2, <2>1, <2>3, <3>2 DEF LoginPlaces
    <3> QED  BY <3>1, <3>2
  <2>6. LoginPlaces'
    BY <1>1, <2>1, <2>5 DEF LoginPlaces
  <2> QED  BY <1>1, <1>8, <2>1, <2>2, <2>4, <2>6, TakenKeeps
<1>9. CASE h.type = "GATHER" /\ HandleGatherResult(p, n)
  <2>1. /\ fault' = (IF placed THEN fault ELSE "NoDebris")
        /\ Set(p, [m_PlayerList[p] EXCEPT !.resource = n])
        /\ UNCHANGED <<requests, m_MyPlayerId, placed>>
    BY <1>9 DEF HandleGatherResult
  <2> DEFINE c == m_PlayerList[p]   player == [c EXCEPT !.resource = n]
  <2>2. Knows(p) => c \in Copy
    BY <1>2 DEF Knows
  <2>3. Set(p, player)
    BY <2>1
  <2> HIDE DEF c, h
  <2>4. Knows(p) => player \in Copy /\ player.fuel = c.fuel /\ player.resource = n
    BY <1>4, <2>2 DEF Copy
  <2> HIDE DEF player
  <2>5. h.type \notin FuelTypes /\ h.type \in ResourceTypes /\ Said(h, 0) = n
    BY <1>9 DEF FuelTypes, ResourceTypes, Said
  <2>6. Taken(h)
    BY <1>5, <1>9, <2>3, <2>4, <2>5 DEF Knows, c
  <2>7. LoginPlaces'
    BY <1>1, <1>2, <2>1 DEF LoginPlaces
  <2> QED  BY <1>1, <1>2, <1>9, <2>1, <2>6, <2>7, TakenKeeps DEF h
<1>10. CASE h.type = "ROTATION" /\ HandleTurnBodyResult(p)
            /\ UNCHANGED <<requests, m_MyPlayerId, placed, fault>>
  <2>1. Taken(h)
    BY <1>6, <1>10 DEF HandleTurnBodyResult, FuelTypes, ResourceTypes
  <2> QED  BY <1>7, <1>10, <2>1
<1>11. CASE h.type = "NEW" /\ HandleNewResult(p)
            /\ UNCHANGED <<requests, m_MyPlayerId, placed, fault>>
  <2>1. Taken(h)
    BY <1>6, <1>11 DEF HandleNewResult, FuelTypes, ResourceTypes
  <2> QED  BY <1>7, <1>11, <2>1
<1>12. CASE h.type = "SYNC" /\ HandleSyncResult(p)
            /\ UNCHANGED <<requests, m_MyPlayerId, placed, fault>>
  <2>1. m_PlayerList' = m_PlayerList
    BY <1>2, <1>4, <1>12, Constants DEF HandleSyncResult, Knows
  <2>2. \A q \in D : ~Says(h, q, FuelTypes) /\ ~Says(h, q, ResourceTypes)
    BY <1>12 DEF Says, FuelTypes, ResourceTypes
  <2>3. Taken(h)
    <3> HIDE DEF h
    <3> QED  BY <1>2, <1>12, <2>1, <2>2 DEF Taken
  <2> QED  BY <1>7, <1>12, <2>3
<1>13. CASE h.type = "CHARACTER_STATE" /\ HandleCharacterStateResult(p, n)
            /\ UNCHANGED <<requests, m_MyPlayerId, placed, fault>>
  <2> DEFINE c == m_PlayerList[p]   player == [c EXCEPT !.fuel = n]
  <2>2. Knows(p) => c \in Copy
    BY <1>2 DEF Knows
  <2>3. Set(p, player)
    BY <1>13 DEF HandleCharacterStateResult
  <2> HIDE DEF c, h
  <2>4. Knows(p) => player \in Copy /\ player.fuel = n /\ player.resource = c.resource
    BY <1>4, <2>2 DEF Copy
  <2> HIDE DEF player
  <2>5. h.type \in FuelTypes /\ h.type \notin ResourceTypes /\ Said(h, DEFAULT_FUEL) = n
    BY <1>13 DEF FuelTypes, ResourceTypes, Said
  <2>6. Taken(h)
    BY <1>5, <1>13, <2>3, <2>4, <2>5 DEF Knows, c
  <2> QED  BY <1>7, <1>13, <2>6
<1>14. CASE h.type = "DEAD" /\ HandleDeadResult(p)
            /\ UNCHANGED <<requests, m_MyPlayerId, placed, fault>>
  <2> DEFINE c == m_PlayerList[p]   player == [c EXCEPT !.alive = FALSE]
  <2>2. Knows(p) => c \in Copy
    BY <1>2 DEF Knows
  <2>3. Set(p, player)
    BY <1>14 DEF HandleDeadResult
  <2> HIDE DEF c, h
  <2>4. Knows(p) => player \in Copy /\ player.fuel = c.fuel /\ player.resource = c.resource
    BY <2>2 DEF Copy
  <2> HIDE DEF player
  <2>5. h.type \notin FuelTypes /\ h.type \notin ResourceTypes
    BY <1>14 DEF FuelTypes, ResourceTypes
  <2>6. Taken(h)
    BY <1>5, <1>14, <2>3, <2>4, <2>5 DEF Knows, c
  <2> QED  BY <1>7, <1>14, <2>6
<1>15. CASE h.type = "RESPAWN" /\ HandleRespawnResult(p)
            /\ UNCHANGED <<requests, m_MyPlayerId, placed, fault>>
  <2>1. /\ Set(p, NewPlayer) /\ NewPlayer \in Copy
        /\ NewPlayer.fuel = DEFAULT_FUEL /\ NewPlayer.resource = 0
    BY <1>15, Constants DEF HandleRespawnResult, NewPlayer, Copy
  <2>2. /\ h.type \in FuelTypes /\ h.type \in ResourceTypes
        /\ Said(h, DEFAULT_FUEL) = DEFAULT_FUEL /\ Said(h, 0) = 0
    BY <1>15 DEF FuelTypes, ResourceTypes, Said
  <2> HIDE DEF h
  <2>3. Taken(h)
    BY <1>5, <1>15, <2>1, <2>2
  <2> QED  BY <1>7, <1>15, <2>3
<1> QED  BY <1>3, <1>8, <1>9, <1>10, <1>11, <1>12, <1>13, <1>14, <1>15 DEF HandleResult

-----------------------------------------------------------------------------
LEMMA InitInv == Init => Inv
<1> SUFFICES ASSUME Init PROVE Inv
  OBVIOUS
<1>1. /\ playing = {} /\ fuel = [p \in Id |-> DEFAULT_FUEL] /\ resource = [p \in Id |-> 0]
      /\ introduced = {} /\ mPlayerId = NoId /\ requests = <<>> /\ results = <<>>
      /\ scene = "LOADING" /\ startsPosted = 0 /\ connections = 0
      /\ m_MyPlayerId = NoId /\ m_PlayerList = <<>> /\ placed = FALSE
      /\ fault = "none" /\ since = [p \in Id |-> "before"]
  BY DEF Init, Server!Init
<1>2. DOMAIN m_PlayerList = {} /\ DOMAIN requests = {} /\ DOMAIN results = {}
  BY <1>1
<1>3. requests \in Seq(Requests) /\ results \in Seq(Message)
  BY <1>1, EmptySeq
<1>4. m_PlayerList \in [DOMAIN m_PlayerList -> Copy]
  <2>1. m_PlayerList = [p \in {} |-> 0]
    BY <1>1, <1>2
  <2> QED  BY <1>2, <2>1
<1>5. Types
  BY <1>1, <1>2, <1>3, <1>4, Constants DEF Types, Since
<1>6. Scenes /\ Unconnected /\ LoginOnce /\ HeardOf
  BY <1>1, <1>2 DEF Scenes, Unconnected, LoginOnce, Once, HeardOf, Heard
<1>7. First /\ AfterPlays /\ Coming /\ Tracked /\ LoginPlaces
  BY <1>1 DEF First, AfterPlays, Coming, Tracked, LoginPlaces
<1> QED  BY <1>5, <1>6, <1>7 DEF Inv

LEMMA StepInv == Inv /\ [Next]_vars => Inv'
<1> SUFFICES ASSUME Inv, [Next]_vars PROVE Inv'
  OBVIOUS
<1>1. CASE RenderLoadingScene
  BY <1>1, RenderKeeps
<1>2. CASE \E outcome \in Outcome : ChangeScene(outcome)
  BY <1>2, ChangeSceneKeeps
<1>3. CASE HandleResult
  BY <1>3, HandleResultKeeps
<1>4. CASE \E S \in SUBSET Id : UpdatePlayers(S)
  BY <1>4, UpdatePlayersKeeps
<1>5. CASE \E type \in RequestType : UpdatePlayScene(type)
  BY <1>5, UpdatePlaySceneKeeps
<1>6. CASE HandleRequest
  BY <1>6, HandleRequestKeeps
<1>7. CASE \E p \in Id : Others(p)
  BY <1>7, OthersKeep
<1>8. CASE \E S \in SUBSET Id : Die(S)
  BY <1>8, DieKeeps
<1>9. CASE UNCHANGED vars
  <2>1. UNCHANGED <<playing, fuel, resource, introduced, mPlayerId, requests, results, scene,
                    startsPosted, connections, m_MyPlayerId, m_PlayerList, placed, fault, since>>
    BY <1>9 DEF vars, server, loading, view
  <2>2. Types' /\ Scenes' /\ Unconnected'
    BY <2>1 DEF Inv, Types, Scenes, Unconnected
  <2>3. LoginOnce' /\ HeardOf' /\ First'
    BY <2>1 DEF Inv, LoginOnce, HeardOf, Heard, First
  <2>4. AfterPlays' /\ Coming' /\ LoginPlaces'
    BY <2>1 DEF Inv, AfterPlays, Coming, LoginPlaces
  <2>5. Tracked'
    BY <2>1 DEF Inv, Tracked, FuelTracked, ResourceTracked
  <2> QED  BY <2>2, <2>3, <2>4, <2>5 DEF Inv
<1> QED  BY <1>1, <1>2, <1>3, <1>4, <1>5, <1>6, <1>7, <1>8, <1>9 DEF Next, Client

LEMMA InvImplies == Inv => ConnectsOnce /\ LoginPlaces /\ KnowsNewcomers /\ CaughtUp
<1> SUFFICES ASSUME Inv PROVE ConnectsOnce /\ LoginPlaces /\ KnowsNewcomers /\ CaughtUp
  OBVIOUS
<1>1. ConnectsOnce /\ LoginPlaces
  BY DEF Inv, Types, ConnectsOnce
<1>2. KnowsNewcomers
  <2>1. DOMAIN <<>> = {}
    OBVIOUS
  <2> QED  BY <2>1 DEF Inv, Coming, KnowsNewcomers
<1>3. ASSUME results = <<>>, NEW p \in introduced, since[p] = "after"
      PROVE  m_PlayerList[p].fuel = fuel[p] /\ m_PlayerList[p].resource = resource[p]
  <2>1. DOMAIN results = {} /\ p \in Id
    BY <1>3 DEF Inv, Types
  <2>2. p \in DOMAIN m_PlayerList
    BY <1>3, <2>1 DEF Inv, Coming
  <2>3. FuelTracked(p) /\ ResourceTracked(p)
    BY <1>3, <2>1 DEF Inv, Tracked
  <2> QED  BY <2>1, <2>2, <2>3 DEF FuelTracked, ResourceTracked, Tracks
<1>4. CaughtUp
  BY <1>3 DEF CaughtUp
<1> QED  BY <1>1, <1>2, <1>4

(* However often the loading scene is rendered, however the others come,   *)
(* act, die and go, and whenever the results arrive: the play scene        *)
(* connects once; its LOGIN places debris and camera, unless its id was    *)
(* somebody else's meanwhile; and once the client has handled what was     *)
(* sent to it, it knows who came after it, with the fuel and the resource  *)
(* the server has.                                                         *)
THEOREM ViewSafety == Spec => [](ConnectsOnce /\ LoginPlaces /\ KnowsNewcomers /\ CaughtUp)
<1>1. Inv /\ [Next]_vars => Inv'
  BY StepInv
<1> QED  BY InitInv, InvImplies, <1>1, PTL DEF Spec
=============================================================================
