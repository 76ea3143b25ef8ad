------------------------- MODULE NodeMapLoopProofs --------------------------
(***************************************************************************)
(* The loops of create_node_map compute CreateNodeMap: for every view, any *)
(* number of observers, and whatever each of them reports.                 *)
(*                                                                         *)
(* Halfway through a loop the dictionaries hold what the closed form adds  *)
(* for the instances that have been visited.  That is the inductive        *)
(* invariant, LoopInv; when nothing is left to visit it is the closed form *)
(* itself.                                                                 *)
(***************************************************************************)
EXTENDS NodeMapLoop, NodeMapProofs

\* The instances that the first loop puts in each dictionary.
OwnRole(c, role) == {n \in DOMAIN c : c[n].role = role}
OwnUp(c) == {n \in OwnRole(c, "primary") : c[n].conn}
OwnDown(c) == OwnRole(c, "primary") \ OwnUp(c)

\* The instances that hearing r adds to each dictionary of map.
Known(c, r) == DOMAIN r \cap DOMAIN c
HeardStandbys(c, map, r) ==
  {n \in Known(c, r) \ {Own} : /\ r[n].role = "standby"
                               /\ r[n].fetched >= c[n].fetched
                               /\ Seen(map.standbys, n) # "connected"}
HeardPrimaries(c, r) == {n \in Known(c, r) : r[n].role = "primary"}
HeardTrusted(c, r) == {n \in HeardPrimaries(c, r) \ {Own} : Near(r[n].fetched, c[n].fetched)}
HeardUp(c, map, r) ==
  {n \in HeardTrusted(c, r) : Seen(map.connected, n) = "connected" \/ r[n].conn}
HeardDown(c, map, r) == HeardTrusted(c, r) \ HeardUp(c, map, r)

LEMMA OwnMapFields ==
  ASSUME NEW c
  PROVE  /\ OwnMap(c, Order).standbys = Keep(c, OwnRole(c, "standby"))
         /\ OwnMap(c, Order).connected = Keep(c, OwnUp(c))
         /\ OwnMap(c, Order).disconnected = Keep(c, OwnDown(c))
         /\ OwnMap(c, Order).first =
              IF OwnDown(c) = {} THEN {} ELSE {Head(InOrder(Order, OwnDown(c)))}
         /\ OwnMap(c, Order).leak = {"none"}
BY DEF OwnMap, OwnRole, OwnUp, OwnDown

LEMMA HearFields ==
  ASSUME NEW c, NEW map, NEW r
  PROVE  /\ Hear(c, map, r).standbys = Update(map.standbys, r, HeardStandbys(c, map, r))
         /\ Hear(c, map, r).connected = Update(map.connected, r, HeardUp(c, map, r))
         /\ Hear(c, map, r).disconnected = Update(map.disconnected, r, HeardDown(c, map, r))
         /\ Hear(c, map, r).first = IF map.first = {} THEN HeardDown(c, map, r) ELSE map.first
         /\ Hear(c, map, r).leak = IF HeardPrimaries(c, r) = {} THEN map.leak
                                   ELSE {Seen(map.connected, n) : n \in HeardPrimaries(c, r)}
BY DEF Hear, HeardStandbys, HeardUp, HeardDown, HeardPrimaries, HeardTrusted, Known

\* What the closed form holds after each observer.
Heard(c, rs) ==
  CHOOSE heard :
    LET obs == [i \in 1..Len(rs) |-> [db |-> rs[i]]]
        order == [i \in 1..Len(rs) |-> i]
    IN /\ Hears(c, Order, obs, order, heard)
       /\ CreateNodeMap(c, Order, obs, order) = heard[Len(order)]

LEMMA HeardIs ==
  ASSUME NEW c, NEW rs, Len(rs) \in Nat
  PROVE  /\ Heard(c, rs)[0] = OwnMap(c, Order)
         /\ \A i \in 0..Len(rs) - 1 : Heard(c, rs)[i + 1] = Hear(c, Heard(c, rs)[i], rs[i + 1])
         /\ CreateNodeMap(c, Order, [i \in 1..Len(rs) |-> [db |-> rs[i]]], [i \in 1..Len(rs) |-> i])
              = Heard(c, rs)[Len(rs)]
<1> DEFINE obs == [i \in 1..Len(rs) |-> [db |-> rs[i]]]
           order == [i \in 1..Len(rs) |-> i]
           Is(heard) == /\ Hears(c, Order, obs, order, heard)
                        /\ CreateNodeMap(c, Order, obs, order) = heard[Len(order)]
           h == Heard(c, rs)
<1>1. Len(order) = Len(rs)
  OBVIOUS
<1>2. \E heard : Is(heard)
  <2> HIDE DEF obs, order
  <2> QED
    BY <1>1, HeardSteps
<1>3. Is(h)
  <2>1. h = CHOOSE heard : Is(heard)
    BY DEF Heard
  <2> HIDE DEF Is, h
  <2> QED
    BY <1>2, <2>1
<1> HIDE DEF h
<1>4. h = [i \in 0..Len(rs) |->
             IF i = 0 THEN OwnMap(c, Order) ELSE Hear(c, h[i - 1], obs[order[i]].db)]
  BY <1>1, <1>3 DEF Hears
<1>5. h[0] = OwnMap(c, Order)
  BY <1>4
<1>6. ASSUME NEW i \in 0..Len(rs) - 1
      PROVE  h[i + 1] = Hear(c, h[i], rs[i + 1])
  <2>1. i + 1 \in 0..Len(rs) /\ i + 1 # 0 /\ (i + 1) - 1 = i /\ i + 1 \in 1..Len(rs)
    OBVIOUS
  <2>2. obs[order[i + 1]].db = rs[i + 1]
    BY <2>1
  <2> HIDE DEF obs, order
  <2>3. h[i + 1] = Hear(c, h[(i + 1) - 1], obs[order[i + 1]].db)
    BY <1>4, <2>1
  <2> QED
    BY <2>1, <2>2, <2>3
<1>7. CreateNodeMap(c, Order, obs, order) = h[Len(rs)]
  BY <1>1, <1>3
<1> QED
  BY <1>5, <1>6, <1>7 DEF h

-----------------------------------------------------------------------------
(* Dictionaries.                                                           *)

LEMMA UpdateNothing ==
  ASSUME NEW f, f = [n \in DOMAIN f |-> f[n]], NEW g, NEW S, S = {}
  PROVE  Update(f, g, S) = f
BY DEF Update

\* Setting one more key of S.
LEMMA PutUpdates ==
  ASSUME NEW f, NEW g, NEW S, NEW rest, NEW n \in rest, n \in S
  PROVE  Put(Update(f, g, S \ rest), n, g[n]) = Update(f, g, S \ (rest \ {n}))
<1>1. S \ (rest \ {n}) = (S \ rest) \cup {n}
  OBVIOUS
<1>2. DOMAIN Update(f, g, S \ rest) \cup {n} = DOMAIN f \cup ((S \ rest) \cup {n})
  BY DEF Update
<1> QED
  BY <1>1, <1>2 DEF Put, Update

LEMMA PutKeeps ==
  ASSUME NEW c, NEW S, S \subseteq DOMAIN c, NEW rest, NEW n \in rest, n \in S
  PROVE  Put(Keep(c, S \ rest), n, c[n]) = Keep(c, S \ (rest \ {n}))
<1>1. S \ (rest \ {n}) = (S \ rest) \cup {n}
  OBVIOUS
<1>2. DOMAIN Keep(c, S \ rest) \cup {n} = DOMAIN c \cap ((S \ rest) \cup {n})
  BY DEF Keep
<1> QED
  BY <1>1, <1>2 DEF Put, Keep

\* The first of seq that is in S, if it is in D as well, is the first in D.
LEMMA FirstOfFewer ==
  ASSUME NEW T, NEW seq \in Seq(T), NEW S, NEW D, D \subseteq S,
         Head(InOrder(seq, S)) \in D, Listed(seq) \cap S # {}
  PROVE  Head(InOrder(seq, D)) = Head(InOrder(seq, S))
<1> DEFINE N == Len(seq)
           Taken(t, Q) == t = [i \in 0..N |->
                        IF i = 0 THEN <<>>
                        ELSE IF seq[i] \in Q THEN Append(t[i - 1], seq[i]) ELSE t[i - 1]]
<1>1. N \in Nat /\ \A i \in 1..N : seq[i] \in T
  OBVIOUS
<1>2. PICK all : Taken(all, S) /\ InOrder(seq, S) = all[N]
  BY <1>1, InOrderSteps
<1>3. PICK few : Taken(few, D) /\ InOrder(seq, D) = few[N]
  BY <1>1, InOrderSteps
<1>4. /\ all[0] = <<>> /\ few[0] = <<>>
      /\ \A i \in 0..N - 1 :
           /\ all[i + 1] = IF seq[i + 1] \in S THEN Append(all[i], seq[i + 1]) ELSE all[i]
           /\ few[i + 1] = IF seq[i + 1] \in D THEN Append(few[i], seq[i + 1]) ELSE few[i]
  <2>1. all[0] = <<>> /\ few[0] = <<>>
    BY <1>1, <1>2, <1>3
  <2>2. ASSUME NEW i \in 0..N - 1
        PROVE  /\ all[i + 1] = IF seq[i + 1] \in S THEN Append(all[i], seq[i + 1]) ELSE all[i]
               /\ few[i + 1] = IF seq[i + 1] \in D THEN Append(few[i], seq[i + 1]) ELSE few[i]
    <3>1. i + 1 \in 0..N /\ i + 1 # 0 /\ (i + 1) - 1 = i
      BY <1>1
    <3> QED
      BY <1>2, <1>3, <3>1
  <2> QED
    BY <2>1, <2>2
<1> HIDE DEF Taken
<1> DEFINE Same(i) == /\ all[i] \in Seq(T) /\ few[i] \in Seq(T)
                      /\ all[i] = <<>> => few[i] = <<>>
                      /\ all[i] # <<>> /\ Head(all[i]) \in D
                           => few[i] # <<>> /\ Head(few[i]) = Head(all[i])
           Good == {i \in 0..N : Same(i)}
<1>5. 0 \in Good
  <2>1. 0 \in 0..N /\ <<>> \in Seq(T)
    BY <1>1
  <2> QED
    BY <1>4, <2>1
<1>6. ASSUME NEW i \in 0..N - 1, i \in Good PROVE i + 1 \in Good
  <2>1. i + 1 \in 0..N /\ seq[i + 1] \in T
    BY <1>1
  <2>2. ASSUME NEW s \in Seq(T), NEW e \in T
        PROVE  /\ Append(s, e) \in Seq(T) /\ Append(s, e) # <<>>
               /\ s = <<>> => Head(Append(s, e)) = e
               /\ s # <<>> => Head(Append(s, e)) = Head(s)
    OBVIOUS
  <2> DEFINE e == seq[i + 1]
             a == all[i]
             b == few[i]
             a2 == all[i + 1]
             b2 == few[i + 1]
  <2>3. /\ a2 = IF e \in S THEN Append(a, e) ELSE a
        /\ b2 = IF e \in D THEN Append(b, e) ELSE b
    BY <1>4
  <2>4. /\ a \in Seq(T) /\ b \in Seq(T)
        /\ a = <<>> => b = <<>>
        /\ a # <<>> /\ Head(a) \in D => b # <<>> /\ Head(b) = Head(a)
    BY <1>6
  <2>5. e \in T
    BY <2>1
  <2>6. /\ a2 \in Seq(T) /\ b2 \in Seq(T)
        /\ a2 = <<>> => b2 = <<>>
        /\ a2 # <<>> /\ Head(a2) \in D => b2 # <<>> /\ Head(b2) = Head(a2)
    <3> HIDE DEF e, a, b, a2, b2
    <3>1. CASE e \notin S
      BY <2>3, <2>4, <3>1
    <3>2. CASE e \in S /\ e \notin D
      BY <2>2, <2>3, <2>4, <2>5, <3>2
    <3>3. CASE e \in D
      BY <2>2, <2>3, <2>4, <2>5, <3>3
    <3> QED
      BY <3>1, <3>2, <3>3
  <2> QED
    BY <2>1, <2>6
<1>7. N \in Good
  <2> HIDE DEF Good, N
  <2>1. \A i \in 0..N : i \in Good
    BY <1>1, <1>5, <1>6, UpTo
  <2> QED
    BY <1>1, <2>1
<1>8. all[N] # <<>>
  <2>1. Listed(InOrder(seq, S)) # {}
    BY InOrderKeeps
  <2>2. Listed(<<>>) = {}
    BY DEF Listed
  <2> QED
    BY <1>2, <2>1, <2>2
<1> QED
  BY <1>2, <1>3, <1>7, <1>8

-----------------------------------------------------------------------------
(* The inductive invariant.                                                *)

IsFun(f) == f = [n \in DOMAIN f |-> f[n]]

\* The dictionaries are dictionaries; the key list starts with a disconnected
\* master if there is one, and none of those is connected; master_node is only
\* ever looked up in connected_master_nodes.
ShapeInv ==
  /\ cluster \in Clusters /\ reports \in Reports /\ turn \in 0..Len(reports)
  /\ left \subseteq IF turn = 0 THEN DOMAIN cluster ELSE DOMAIN reports[turn]
  /\ IsFun(standbys) /\ IsFun(connected) /\ IsFun(disconnected)
  /\ downKeys \in Seq(DOMAIN disconnected)
  /\ downKeys = <<>> => DOMAIN disconnected = {}
  /\ \A n \in DOMAIN disconnected : ~disconnected[n].conn
  /\ DOMAIN connected = {} => masterNode = "none"

\* In the first loop: what OwnMap has of the instances visited.
OwnPart ==
  /\ standbys = Keep(cluster, OwnRole(cluster, "standby") \ left)
  /\ connected = Keep(cluster, OwnUp(cluster) \ left)
  /\ disconnected = Keep(cluster, OwnDown(cluster) \ left)
  /\ downKeys # <<>> => Head(downKeys) = Head(InOrder(Order, OwnDown(cluster)))
  /\ masterNode = "none"

\* In the second: what Hear has added to map of the instances visited.
HeardPart(map, r) ==
  /\ standbys = Update(map.standbys, r, HeardStandbys(cluster, map, r) \ left)
  /\ connected = Update(map.connected, r, HeardUp(cluster, map, r) \ left)
  /\ disconnected = Update(map.disconnected, r, HeardDown(cluster, map, r) \ left)
  /\ downKeys # <<>> =>
       Head(downKeys) \in IF map.first = {} THEN HeardDown(cluster, map, r) ELSE map.first
  /\ map.first # {} => downKeys # <<>>
  /\ masterNode \in IF HeardPrimaries(cluster, r) \ left = {} THEN map.leak
                    ELSE {Seen(map.connected, n) : n \in HeardPrimaries(cluster, r)}

LoopInv ==
  /\ ShapeInv
  /\ turn = 0 => OwnPart
  /\ turn > 0 => HeardPart(Heard(cluster, reports)[turn - 1], reports[turn])

\* What an instance may be recorded as: the entries of a view and of a report.
LEMMA Views ==
  ASSUME ShapeInv
  PROVE  /\ Len(reports) \in Nat /\ turn \in Nat
         /\ DOMAIN cluster \subseteq Listed(Order) /\ DOMAIN cluster \subseteq Names
         /\ Order \in Seq(Names)
         /\ \A n \in DOMAIN cluster : cluster[n] \in Entry(Names, Int, Int)
         /\ \A i \in 1..Len(reports) : \A n \in DOMAIN reports[i] :
              reports[i][n] \in Entry(Names, Int, Int)
<1>1. Len(reports) \in Nat /\ \A i \in 1..Len(reports) :
        reports[i] \in [DOMAIN reports[i] -> Entry(Names, Int, Int)]
  BY ViewsAssumption DEF ShapeInv
<1>2. DOMAIN cluster \subseteq Names /\ cluster \in [DOMAIN cluster -> Entry(Names, Int, Int)]
  BY ViewsAssumption DEF ShapeInv
<1>3. Names \subseteq Listed(Order) /\ Order \in Seq(Names)
  BY ViewsAssumption DEF Listed
<1>4. turn \in Nat
  BY <1>1 DEF ShapeInv
<1>5. \A n \in DOMAIN cluster : cluster[n] \in Entry(Names, Int, Int)
  BY <1>2
<1>6. \A i \in 1..Len(reports) : \A n \in DOMAIN reports[i] :
        reports[i][n] \in Entry(Names, Int, Int)
  BY <1>1
<1> QED
  BY <1>1, <1>2, <1>3, <1>4, <1>5, <1>6

LEMMA LoopInit == Init => LoopInv
<1> SUFFICES ASSUME Init PROVE LoopInv
  OBVIOUS
<1>1. Len(reports) \in Nat
  BY ViewsAssumption DEF Init
<1>2. IsFun(Empty) /\ DOMAIN Empty = {} /\ <<>> \in Seq(DOMAIN Empty)
  BY DEF IsFun, Empty
<1>3. ShapeInv
  BY <1>1, <1>2 DEF Init, ShapeInv
<1>4. ASSUME NEW S, S \subseteq DOMAIN cluster PROVE Empty = Keep(cluster, S \ DOMAIN cluster)
  BY DEF Empty, Keep
<1>5. OwnPart
  <2>1. /\ OwnRole(cluster, "standby") \subseteq DOMAIN cluster
        /\ OwnUp(cluster) \subseteq DOMAIN cluster
        /\ OwnDown(cluster) \subseteq DOMAIN cluster
    BY DEF OwnRole, OwnUp, OwnDown
  <2> QED
    BY <1>4, <2>1 DEF Init, OwnPart
<1> QED
  BY <1>3, <1>5 DEF LoopInv, Init

-----------------------------------------------------------------------------
(* The shape is kept.                                                      *)

LEMMA PutIsFun ==
  ASSUME NEW f, NEW n, NEW e
  PROVE  /\ IsFun(Put(f, n, e)) /\ DOMAIN Put(f, n, e) = DOMAIN f \cup {n}
         /\ Put(f, n, e)[n] = e
         /\ \A m \in DOMAIN f : m # n => Put(f, n, e)[m] = f[m]
BY DEF IsFun, Put

LEMMA PutDownShape ==
  ASSUME ShapeInv, NEW n, NEW e, ~e.conn, PutDown(n, e)
  PROVE  /\ IsFun(disconnected') /\ downKeys' \in Seq(DOMAIN disconnected')
         /\ downKeys' # <<>>
         /\ \A m \in DOMAIN disconnected' : ~disconnected'[m].conn
         /\ Head(downKeys') = IF downKeys = <<>> THEN n ELSE Head(downKeys)
<1>1. /\ IsFun(disconnected') /\ DOMAIN disconnected' = DOMAIN disconnected \cup {n}
      /\ disconnected'[n] = e
      /\ \A m \in DOMAIN disconnected : m # n => disconnected'[m] = disconnected[m]
  <2>1. disconnected' = Put(disconnected, n, e)
    BY DEF PutDown
  <2> QED
    BY <2>1 DEF IsFun, Put
<1>2. downKeys \in Seq(DOMAIN disconnected \cup {n})
  BY DEF ShapeInv
<1>3. /\ Append(downKeys, n) \in Seq(DOMAIN disconnected \cup {n}) /\ Append(downKeys, n) # <<>>
      /\ downKeys = <<>> => Head(Append(downKeys, n)) = n
      /\ downKeys # <<>> => Head(Append(downKeys, n)) = Head(downKeys)
  BY <1>2
<1>4. CASE n \in DOMAIN disconnected
  <2>1. downKeys' = downKeys /\ downKeys # <<>>
    BY <1>4 DEF PutDown, ShapeInv
  <2> QED
    BY <1>1, <1>2, <2>1 DEF ShapeInv
<1>5. CASE n \notin DOMAIN disconnected
  <2>1. downKeys' = Append(downKeys, n)
    BY <1>5 DEF PutDown
  <2> QED
    BY <1>1, <1>3, <2>1 DEF ShapeInv
<1> QED
  BY <1>4, <1>5

LEMMA OwnEntryStep ==
  ASSUME LoopInv, OwnEntry
  PROVE  LoopInv'
<1> DEFINE n == Head(InOrder(Order, left))
           e == cluster[n]
<1>1. /\ turn = 0 /\ left # {} /\ left \subseteq DOMAIN cluster
      /\ ShapeInv /\ OwnPart
  BY DEF LoopInv, ShapeInv, OwnEntry
<1>2. n \in left
  <2>1. Listed(Order) \cap left # {} /\ Order \in Seq(Names)
    BY <1>1, Views
  <2> QED
    BY <2>1, HeadInOrder
<1>3. /\ e.conn \in BOOLEAN /\ e.role \in {"standby", "primary", "unknown"}
      /\ n \in DOMAIN cluster
  BY <1>1, <1>2, Views DEF Entry
<1>4. /\ left' = left \ {n}
      /\ standbys' = IF e.role = "standby" THEN Put(standbys, n, e) ELSE standbys
      /\ connected' = IF e.role = "primary" /\ e.conn THEN Put(connected, n, e) ELSE connected
      /\ IF e.role = "primary" /\ ~e.conn THEN PutDown(n, e)
         ELSE UNCHANGED <<disconnected, downKeys>>
      /\ UNCHANGED <<cluster, reports, masterNode, turn>>
  BY DEF OwnEntry
<1>5. /\ n \in OwnRole(cluster, "standby") <=> e.role = "standby"
      /\ n \in OwnUp(cluster) <=> e.role = "primary" /\ e.conn
      /\ n \in OwnDown(cluster) <=> e.role = "primary" /\ ~e.conn
      /\ OwnRole(cluster, "standby") \subseteq DOMAIN cluster
      /\ OwnUp(cluster) \subseteq DOMAIN cluster
      /\ OwnDown(cluster) \subseteq DOMAIN cluster
  BY <1>3 DEF OwnRole, OwnUp, OwnDown
<1> HIDE DEF n, e
<1>6. ShapeInv'
  <2>1. IsFun(standbys')
    BY <1>1, <1>4 DEF ShapeInv, IsFun, Put
  <2>2. IsFun(connected') /\ (DOMAIN connected' = {} => masterNode' = "none")
    BY <1>1, <1>4 DEF OwnPart, ShapeInv, IsFun, Put
  <2>3. /\ IsFun(disconnected') /\ downKeys' \in Seq(DOMAIN disconnected')
        /\ downKeys' = <<>> => DOMAIN disconnected' = {}
        /\ \A m \in DOMAIN disconnected' : ~disconnected'[m].conn
    <3>1. CASE e.role = "primary" /\ ~e.conn
      <4>1. PutDown(n, e) /\ ~e.conn
        BY <1>4, <3>1
      <4> QED
        BY <1>1, <4>1, PutDownShape
    <3>2. CASE ~(e.role = "primary" /\ ~e.conn)
      <4>1. disconnected' = disconnected /\ downKeys' = downKeys
        BY <1>4, <3>2
      <4> QED
        BY <1>1, <4>1 DEF ShapeInv, IsFun
    <3> QED
      BY <3>1, <3>2
  <2>4. left' \subseteq DOMAIN cluster'
    BY <1>1, <1>4
  <2> QED
    BY <1>1, <1>4, <2>1, <2>2, <2>3, <2>4 DEF ShapeInv
<1>7. OwnPart'
  <2>1. standbys' = Keep(cluster, OwnRole(cluster, "standby") \ left')
    <3>1. CASE e.role = "standby"
      <4>1. standbys' = Put(Keep(cluster, OwnRole(cluster, "standby") \ left), n, cluster[n])
        BY <1>1, <1>4, <3>1 DEF OwnPart, e
      <4> QED
        BY <1>2, <1>4, <1>5, <3>1, <4>1, PutKeeps
    <3>2. CASE e.role # "standby"
      <4>1. OwnRole(cluster, "standby") \ left' = OwnRole(cluster, "standby") \ left
        BY <1>4, <1>5, <3>2
      <4> QED
        BY <1>1, <1>4, <3>2, <4>1 DEF OwnPart
    <3> QED
      BY <3>1, <3>2
  <2>2. connected' = Keep(cluster, OwnUp(cluster) \ left')
    <3>1. CASE n \in OwnUp(cluster)
      <4>1. connected' = Put(Keep(cluster, OwnUp(cluster) \ left), n, cluster[n])
        BY <1>1, <1>4, <1>5, <3>1 DEF OwnPart, e
      <4> QED
        BY <1>2, <1>4, <1>5, <3>1, <4>1, PutKeeps
    <3>2. CASE n \notin OwnUp(cluster)
      <4>1. OwnUp(cluster) \ left' = OwnUp(cluster) \ left
        BY <1>4, <3>2
      <4> QED
        BY <1>1, <1>4, <1>5, <3>2, <4>1 DEF OwnPart
    <3> QED
      BY <3>1, <3>2
  <2>3. disconnected' = Keep(cluster, OwnDown(cluster) \ left')
    <3>1. CASE n \in OwnDown(cluster)
      <4>1. disconnected' = Put(Keep(cluster, OwnDown(cluster) \ left), n, cluster[n])
        BY <1>1, <1>4, <1>5, <3>1 DEF OwnPart, PutDown, e
      <4> QED
        BY <1>2, <1>4, <1>5, <3>1, <4>1, PutKeeps
    <3>2. CASE n \notin OwnDown(cluster)
      <4>1. OwnDown(cluster) \ left' = OwnDown(cluster) \ left
        BY <1>4, <3>2
      <4> QED
        BY <1>1, <1>4, <1>5, <3>2, <4>1 DEF OwnPart
    <3> QED
      BY <3>1, <3>2
  <2>4. downKeys' # <<>> => Head(downKeys') = Head(InOrder(Order, OwnDown(cluster)))
    <3>1. CASE n \notin OwnDown(cluster)
      BY <1>1, <1>4, <1>5, <3>1 DEF OwnPart
    <3>2. CASE n \in OwnDown(cluster) /\ downKeys # <<>>
      <4>1. PutDown(n, e) /\ ~e.conn
        BY <1>4, <1>5, <3>2
      <4>2. Head(downKeys') = Head(downKeys)
        BY <1>1, <3>2, <4>1, PutDownShape
      <4> QED
        BY <1>1, <3>2, <4>2 DEF OwnPart
    <3>3. CASE n \in OwnDown(cluster) /\ downKeys = <<>>
      <4>1. PutDown(n, e) /\ ~e.conn
        BY <1>4, <1>5, <3>3
      <4>2. Head(downKeys') = n
        BY <1>1, <3>3, <4>1, PutDownShape
      <4>3. OwnDown(cluster) \subseteq left
        <5>1. DOMAIN Keep(cluster, OwnDown(cluster) \ left) = {}
          BY <1>1, <3>3 DEF OwnPart, ShapeInv
        <5>2. DOMAIN cluster \cap (OwnDown(cluster) \ left) = {}
          BY <5>1 DEF Keep
        <5> QED
          BY <1>5, <5>2
      <4>4. Order \in Seq(Names) /\ Listed(Order) \cap left # {}
        BY <1>1, Views
      <4>5. Head(InOrder(Order, left)) \in OwnDown(cluster)
        BY <3>3 DEF n
      <4>6. Head(InOrder(Order, OwnDown(cluster))) = Head(InOrder(Order, left))
        BY <4>3, <4>4, <4>5, FirstOfFewer
      <4> QED
        BY <4>2, <4>6 DEF n
    <3> QED
      BY <3>1, <3>2, <3>3
  <2>5. cluster' = cluster /\ masterNode' = "none"
    BY <1>1, <1>4 DEF OwnPart
  <2> QED
    BY <2>1, <2>2, <2>3, <2>4, <2>5 DEF OwnPart
<1> QED
  BY <1>1, <1>4, <1>6, <1>7 DEF LoopInv

\* After a whole turn, what the loop has is what the closed form has.
Agrees(map) ==
  /\ standbys = map.standbys /\ connected = map.connected /\ disconnected = map.disconnected
  /\ downKeys # <<>> => Head(downKeys) \in map.first
  /\ map.first # {} => downKeys # <<>>
  /\ masterNode \in map.leak

LEMMA TurnDone ==
  ASSUME LoopInv, left = {}
  PROVE  Agrees(Heard(cluster, reports)[turn])
<1>1. ShapeInv /\ Len(reports) \in Nat /\ turn \in 0..Len(reports)
  BY Views DEF LoopInv, ShapeInv
<1>2. CASE turn = 0
  <2> DEFINE map == OwnMap(cluster, Order)
  <2>1. Heard(cluster, reports)[turn] = map
    BY <1>1, <1>2, HeardIs
  <2>2. /\ map.standbys = Keep(cluster, OwnRole(cluster, "standby"))
        /\ map.connected = Keep(cluster, OwnUp(cluster))
        /\ map.disconnected = Keep(cluster, OwnDown(cluster))
        /\ map.first = IF OwnDown(cluster) = {} THEN {} ELSE {Head(InOrder(Order, OwnDown(cluster)))}
        /\ map.leak = {"none"}
    BY OwnMapFields
  <2> HIDE DEF map
  <2>3. \A S : S \ left = S
    OBVIOUS
  <2>4. OwnPart
    BY <1>2 DEF LoopInv
  <2>5. DOMAIN disconnected = OwnDown(cluster)
    BY <2>3, <2>4 DEF OwnPart, Keep, OwnDown, OwnRole
  <2>6. downKeys # <<>> <=> OwnDown(cluster) # {}
    <3>1. downKeys = <<>> => DOMAIN disconnected = {}
      BY <1>1 DEF ShapeInv
    <3>2. downKeys # <<>> => DOMAIN disconnected # {}
      BY <1>1 DEF ShapeInv
    <3> QED
      BY <2>5, <3>1, <3>2
  <2>7. Agrees(map)
    BY <2>2, <2>3, <2>4, <2>6 DEF Agrees, OwnPart
  <2> QED
    BY <2>1, <2>7
<1>3. CASE turn > 0
  <2> DEFINE old == Heard(cluster, reports)[turn - 1]
             r == reports[turn]
             map == Hear(cluster, old, r)
  <2>1. Heard(cluster, reports)[turn] = map
    <3>1. turn - 1 \in 0..Len(reports) - 1 /\ (turn - 1) + 1 = turn
      BY <1>1, <1>3
    <3> QED
      BY <1>1, <3>1, HeardIs
  <2>2. HeardPart(old, r)
    BY <1>3 DEF LoopInv
  <2>3. /\ map.standbys = Update(old.standbys, r, HeardStandbys(cluster, old, r))
        /\ map.connected = Update(old.connected, r, HeardUp(cluster, old, r))
        /\ map.disconnected = Update(old.disconnected, r, HeardDown(cluster, old, r))
        /\ map.first = IF old.first = {} THEN HeardDown(cluster, old, r) ELSE old.first
        /\ map.leak = IF HeardPrimaries(cluster, r) = {} THEN old.leak
                      ELSE {Seen(old.connected, n) : n \in HeardPrimaries(cluster, r)}
    <3> HIDE DEF old, r
    <3> QED
      BY HearFields
  <2> HIDE DEF map, old, r
  <2>4. \A S : S \ left = S
    OBVIOUS
  <2>5. HeardDown(cluster, old, r) \subseteq DOMAIN disconnected
    BY <2>2, <2>4 DEF HeardPart, Update
  <2>6. map.first # {} => downKeys # <<>>
    BY <1>1, <2>2, <2>3, <2>5 DEF HeardPart, ShapeInv
  <2>7. Agrees(map)
    BY <2>2, <2>3, <2>4, <2>6 DEF Agrees, HeardPart
  <2> QED
    BY <2>1, <2>7
<1> QED
  BY <1>1, <1>2, <1>3

LEMMA NextObserverStep ==
  ASSUME LoopInv, NextObserver
  PROVE  LoopInv'
<1> DEFINE map == Heard(cluster, reports)[turn]
           r == reports[turn + 1]
<1>1. /\ ShapeInv /\ Len(reports) \in Nat /\ turn \in Nat
      /\ Agrees(map)
  BY Views, TurnDone DEF LoopInv, NextObserver
<1>2. /\ turn < Len(reports) /\ turn' = turn + 1 /\ left' = DOMAIN r
      /\ UNCHANGED <<cluster, reports, standbys, connected, disconnected, downKeys, masterNode>>
  BY DEF NextObserver
<1>3. turn' > 0 /\ turn' \in 0..Len(reports) /\ turn' - 1 = turn
  BY <1>1, <1>2
<1>4. ShapeInv'
  BY <1>1, <1>2, <1>3 DEF ShapeInv, IsFun
<1> HIDE DEF map, r
<1>5. /\ HeardStandbys(cluster, map, r) \ left' = {}
      /\ HeardUp(cluster, map, r) \ left' = {}
      /\ HeardDown(cluster, map, r) \ left' = {}
      /\ HeardPrimaries(cluster, r) \ left' = {}
  BY <1>2 DEF HeardStandbys, HeardUp, HeardDown, HeardTrusted, HeardPrimaries, Known
<1>6. /\ Update(map.standbys, r, HeardStandbys(cluster, map, r) \ left') = standbys
      /\ Update(map.connected, r, HeardUp(cluster, map, r) \ left') = connected
      /\ Update(map.disconnected, r, HeardDown(cluster, map, r) \ left') = disconnected
  <2>1. /\ standbys = [n \in DOMAIN standbys |-> standbys[n]]
        /\ connected = [n \in DOMAIN connected |-> connected[n]]
        /\ disconnected = [n \in DOMAIN disconnected |-> disconnected[n]]
    BY <1>1 DEF ShapeInv, IsFun
  <2>2. /\ map.standbys = standbys /\ map.connected = connected
        /\ map.disconnected = disconnected
    BY <1>1 DEF Agrees
  <2> QED
    BY <1>5, <2>1, <2>2, UpdateNothing
<1>7. /\ Heard(cluster, reports)'[turn' - 1] = map
      /\ reports'[turn'] = r /\ cluster' = cluster
  BY <1>2, <1>3 DEF map, r
<1>8. HeardPart(Heard(cluster, reports)[turn - 1], reports[turn])'
  BY <1>1, <1>2, <1>5, <1>6, <1>7 DEF HeardPart, Agrees
<1> QED
  BY <1>3, <1>4, <1>8 DEF LoopInv

LEMMA ReportShape ==
  ASSUME ShapeInv, NEW n, ReportEntry(n)
  PROVE  ShapeInv'
<1> DEFINE e == reports[turn][n]
<1>1. /\ turn > 0 /\ turn \in 1..Len(reports) /\ n \in left /\ n \in DOMAIN reports[turn]
      /\ left' = left \ {n}
      /\ UNCHANGED <<cluster, reports, turn>>
      /\ e.role \in {"standby", "primary", "unknown"}
  <2>1. turn > 0 /\ n \in left /\ left' = left \ {n} /\ UNCHANGED <<cluster, reports, turn>>
    BY DEF ReportEntry
  <2>2. turn \in 1..Len(reports) /\ n \in DOMAIN reports[turn]
    BY <2>1, Views DEF ShapeInv
  <2>3. e \in Entry(Names, Int, Int)
    BY <2>2, Views
  <2> QED
    BY <2>1, <2>2, <2>3 DEF Entry
<1>2. CASE n \notin DOMAIN cluster \/ e.role = "unknown"
  <2>1. UNCHANGED <<standbys, connected, disconnected, downKeys, masterNode>>
    BY <1>2 DEF ReportEntry
  <2> QED
    BY <1>1, <2>1 DEF ShapeInv, IsFun
<1>3. CASE n \in DOMAIN cluster /\ e.role = "standby"
  <2>1. StandbyReported(n, e)
    BY <1>3 DEF ReportEntry
  <2> HIDE DEF e
  <2>2. IsFun(standbys') /\ UNCHANGED <<connected, disconnected, downKeys, masterNode>>
    BY <2>1 DEF StandbyReported, ShapeInv, IsFun, Put
  <2> QED
    BY <1>1, <2>2 DEF ShapeInv, IsFun
<1>4. CASE n \in DOMAIN cluster /\ e.role = "primary"
  <2>1. MasterReported(n, e)
    BY <1>4 DEF ReportEntry
  <2> HIDE DEF e
  <2>2. /\ standbys' = standbys
        /\ n \notin DOMAIN connected => masterNode' = "none"
        /\ \/ connected' = connected
           \/ connected' = Put(connected, n, e)
        /\ \/ UNCHANGED <<disconnected, downKeys>>
           \/ PutDown(n, e) /\ ~e.conn
    BY <2>1 DEF MasterReported
  <2>3. IsFun(connected') /\ DOMAIN connected \subseteq DOMAIN connected'
    BY <2>2 DEF ShapeInv, IsFun, Put
  <2>4. DOMAIN connected' = {} => masterNode' = "none"
    BY <2>2, <2>3
  <2>5. /\ IsFun(disconnected') /\ downKeys' \in Seq(DOMAIN disconnected')
        /\ downKeys' = <<>> => DOMAIN disconnected' = {}
        /\ \A m \in DOMAIN disconnected' : ~disconnected'[m].conn
    <3>1. CASE UNCHANGED <<disconnected, downKeys>>
      BY <3>1 DEF ShapeInv, IsFun
    <3>2. CASE PutDown(n, e) /\ ~e.conn
      BY <3>2, PutDownShape
    <3> QED
      BY <2>2, <3>1, <3>2
  <2> QED
    BY <1>1, <2>2, <2>3, <2>4, <2>5 DEF ShapeInv, IsFun
<1> QED
  BY <1>1, <1>2, <1>3, <1>4

LEMMA ReportEntryStep ==
  ASSUME LoopInv, NEW n, ReportEntry(n)
  PROVE  LoopInv'
<1> DEFINE map == Heard(cluster, reports)[turn - 1]
           r == reports[turn]
           e == r[n]
           S == HeardStandbys(cluster, map, r)
           U == HeardUp(cluster, map, r)
           D == HeardDown(cluster, map, r)
           P == HeardPrimaries(cluster, r)
<1>1. /\ ShapeInv /\ ShapeInv'
      /\ turn > 0 /\ n \in left /\ left' = left \ {n} /\ n \in DOMAIN r
      /\ UNCHANGED <<cluster, reports, turn>>
      /\ HeardPart(map, r)
      /\ e.role \in {"standby", "primary", "unknown"}
  <2>1. turn > 0 /\ n \in left /\ left' = left \ {n} /\ UNCHANGED <<cluster, reports, turn>>
    BY DEF ReportEntry
  <2>2. ShapeInv /\ ShapeInv' /\ HeardPart(map, r)
    BY <2>1, ReportShape DEF LoopInv
  <2>3. turn \in 1..Len(reports) /\ n \in DOMAIN reports[turn]
    BY <2>1, <2>2, Views DEF ShapeInv
  <2>4. e \in Entry(Names, Int, Int)
    BY <2>2, <2>3, Views
  <2> QED
    BY <2>1, <2>2, <2>3, <2>4 DEF Entry
<1>2. /\ n \notin DOMAIN cluster \/ e.role = "unknown" =>
           UNCHANGED <<standbys, connected, disconnected, downKeys, masterNode>>
      /\ n \in DOMAIN cluster /\ e.role = "standby" => StandbyReported(n, e)
      /\ n \in DOMAIN cluster /\ e.role = "primary" => MasterReported(n, e)
  BY <1>1 DEF ReportEntry
<1>3. /\ Heard(cluster, reports)'[turn' - 1] = map
      /\ reports'[turn'] = r /\ cluster' = cluster
  BY <1>1
<1>4. /\ n \in P <=> n \in DOMAIN cluster /\ e.role = "primary"
      /\ n \in S <=> /\ n \in DOMAIN cluster /\ e.role = "standby" /\ n # Own
                     /\ e.fetched >= cluster[n].fetched /\ Seen(map.standbys, n) # "connected"
      /\ n \in U <=> /\ n \in P /\ n # Own /\ Near(e.fetched, cluster[n].fetched)
                     /\ Seen(map.connected, n) = "connected" \/ e.conn
      /\ n \in D <=> /\ n \in P /\ n # Own /\ Near(e.fetched, cluster[n].fetched)
                     /\ ~(Seen(map.connected, n) = "connected" \/ e.conn)
  BY <1>1 DEF HeardPrimaries, HeardStandbys, HeardUp, HeardDown, HeardTrusted, Known
<1>5. U \subseteq P /\ D \subseteq P
  BY DEF HeardUp, HeardDown, HeardTrusted
\* An instance that has not been visited is as the observers before left it.
<1>6. Seen(standbys, n) = Seen(map.standbys, n) /\ Seen(connected, n) = Seen(map.connected, n)
  <2> HIDE DEF map, r
  <2>1. /\ standbys = Update(map.standbys, r, HeardStandbys(cluster, map, r) \ left)
        /\ connected = Update(map.connected, r, HeardUp(cluster, map, r) \ left)
    BY <1>1 DEF HeardPart
  <2>2. Seen(standbys, n) = Seen(map.standbys, n)
    BY <1>1, <2>1 DEF Update, Seen
  <2>3. Seen(connected, n) = Seen(map.connected, n)
    BY <1>1, <2>1 DEF Update, Seen
  <2> QED
    BY <2>2, <2>3
<1> HIDE DEF map, r, e, S, U, D, P
<1>7. standbys' = Update(map.standbys, r, S \ left')
  <2>1. CASE n \in S
    <3>1. StandbyReported(n, e) /\ Seen(standbys, n) # "connected"
      BY <1>2, <1>4, <1>6, <2>1
    <3>2. standbys' = Put(standbys, n, e)
      BY <1>4, <2>1, <3>1 DEF StandbyReported, Seen
    <3>3. standbys' = Put(Update(map.standbys, r, S \ left), n, r[n])
      BY <1>1, <3>2 DEF HeardPart, S, e
    <3> QED
      BY <1>1, <2>1, <3>3, PutUpdates
  <2>2. CASE n \notin S
    <3>1. standbys' = standbys
      <4>1. CASE n \in DOMAIN cluster /\ e.role = "standby"
        <5>1. ~(n # Own /\ e.fetched >= cluster[n].fetched /\ Seen(standbys, n) # "connected")
          BY <1>4, <1>6, <2>2, <4>1
        <5> QED
          BY <1>2, <4>1, <5>1 DEF StandbyReported, Seen
      <4>2. CASE ~(n \in DOMAIN cluster /\ e.role = "standby")
        BY <1>1, <1>2, <4>2 DEF MasterReported
      <4> QED
        BY <4>1, <4>2
    <3>2. S \ left' = S \ left
      BY <1>1, <2>2
    <3> QED
      BY <1>1, <3>1, <3>2 DEF HeardPart, S
  <2> QED
    BY <2>1, <2>2
<1>8. ASSUME n \in P
      PROVE  /\ masterNode' = Seen(map.connected, n)
             /\ n \in U => connected' = Put(connected, n, e) /\ UNCHANGED <<disconnected, downKeys>>
             /\ n \in D => PutDown(n, e) /\ ~e.conn /\ UNCHANGED connected
             /\ n \notin U /\ n \notin D => UNCHANGED <<connected, disconnected, downKeys>>
  <2>1. MasterReported(n, e)
    BY <1>2, <1>4, <1>8
  <2>2. n \in DOMAIN connected /\ connected[n].conn <=> Seen(map.connected, n) = "connected"
    BY <1>6 DEF Seen
  <2>3. masterNode' = Seen(connected, n)
    BY <2>1 DEF MasterReported, Seen
  <2>4. IF Near(e.fetched, cluster[n].fetched) /\ n # Own
        THEN IF Seen(map.connected, n) = "connected" \/ e.conn
             THEN connected' = Put(connected, n, e) /\ UNCHANGED <<disconnected, downKeys>>
             ELSE PutDown(n, e) /\ UNCHANGED connected
        ELSE UNCHANGED <<connected, disconnected, downKeys>>
    BY <2>1, <2>2 DEF MasterReported
  <2> QED
    BY <1>4, <1>6, <1>8, <2>3, <2>4
<1>9. n \notin P => UNCHANGED <<connected, disconnected, downKeys, masterNode>>
  BY <1>1, <1>2, <1>4 DEF StandbyReported
<1>10. connected' = Update(map.connected, r, U \ left')
  <2>1. CASE n \in U
    <3>1. connected' = Put(Update(map.connected, r, U \ left), n, r[n])
      BY <1>1, <1>4, <1>8, <2>1 DEF HeardPart, U, e
    <3> QED
      BY <1>1, <2>1, <3>1, PutUpdates
  <2>2. CASE n \notin U
    <3>1. connected' = connected
      BY <1>8, <1>9, <2>2
    <3>2. U \ left' = U \ left
      BY <1>1, <2>2
    <3> QED
      BY <1>1, <3>1, <3>2 DEF HeardPart, U
  <2> QED
    BY <2>1, <2>2
<1>11. disconnected' = Update(map.disconnected, r, D \ left')
  <2>1. CASE n \in D
    <3>1. disconnected' = Put(Update(map.disconnected, r, D \ left), n, r[n])
      BY <1>1, <1>4, <1>8, <2>1 DEF HeardPart, PutDown, D, e
    <3> QED
      BY <1>1, <2>1, <3>1, PutUpdates
  <2>2. CASE n \notin D
    <3>1. disconnected' = disconnected
      BY <1>8, <1>9, <2>2
    <3>2. D \ left' = D \ left
      BY <1>1, <2>2
    <3> QED
      BY <1>1, <3>1, <3>2 DEF HeardPart, D
  <2> QED
    BY <2>1, <2>2
<1>12. /\ downKeys' # <<>> => Head(downKeys') \in IF map.first = {} THEN D ELSE map.first
       /\ map.first # {} => downKeys' # <<>>
  <2>1. /\ downKeys # <<>> => Head(downKeys) \in IF map.first = {} THEN D ELSE map.first
        /\ map.first # {} => downKeys # <<>>
    BY <1>1 DEF HeardPart, D
  <2>2. CASE n \in D
    <3>1. PutDown(n, e) /\ ~e.conn
      BY <1>4, <1>8, <2>2
    <3>2. downKeys' # <<>> /\ Head(downKeys') = IF downKeys = <<>> THEN n ELSE Head(downKeys)
      BY <1>1, <3>1, PutDownShape
    <3> QED
      BY <2>1, <2>2, <3>2
  <2>3. CASE n \notin D
    <3>1. downKeys' = downKeys
      BY <1>8, <1>9, <2>3
    <3> QED
      BY <2>1, <3>1
  <2> QED
    BY <2>2, <2>3
<1>13. masterNode' \in IF P \ left' = {} THEN map.leak ELSE {Seen(map.connected, m) : m \in P}
  <2>1. CASE n \in P
    BY <1>1, <1>8, <2>1
  <2>2. CASE n \notin P
    <3>1. P \ left' = P \ left
      BY <1>1, <2>2
    <3> QED
      BY <1>1, <1>9, <2>2, <3>1 DEF HeardPart, P
  <2> QED
    BY <2>1, <2>2
<1>14. HeardPart(Heard(cluster, reports)[turn - 1], reports[turn])'
  BY <1>3, <1>7, <1>10, <1>11, <1>12, <1>13 DEF HeardPart, S, U, D, P
<1> QED
  BY <1>1, <1>14 DEF LoopInv

LEMMA LoopHolds == Spec => []LoopInv
<1>1. LoopInv /\ [Next]_vars => LoopInv'
  <2> SUFFICES ASSUME LoopInv, [Next]_vars PROVE LoopInv'
    OBVIOUS
  <2>1. CASE OwnEntry
    BY <2>1, OwnEntryStep
  <2>2. CASE NextObserver
    BY <2>2, NextObserverStep
  <2>3. CASE \E n \in left : ReportEntry(n)
    BY <2>3, ReportEntryStep
  <2>4. CASE UNCHANGED vars
    BY <2>4 DEF vars, LoopInv, ShapeInv, IsFun, OwnPart, HeardPart
  <2> QED
    BY <2>1, <2>2, <2>3, <2>4 DEF Next
<1> QED
  BY LoopInit, <1>1, PTL DEF Spec

-----------------------------------------------------------------------------
(* The properties.                                                         *)

\* pglookout.py:240-351.  Whatever the view and however many observers report
\* whatever they like in whatever order, create_node_map's loops end with the
\* dictionaries of the closed form, and return one of the masters it allows.
THEOREM ClosedForm == Spec => []LoopMatchesMap
<1>1. LoopInv => LoopMatchesMap
  <2> SUFFICES ASSUME LoopInv, Done PROVE LoopMatchesMap
    BY DEF LoopMatchesMap
  <2> DEFINE map == CreateNodeMap(cluster, Order, Observers, InTurn)
  <2>1. ShapeInv /\ Len(reports) \in Nat /\ turn = Len(reports) /\ left = {}
    BY Views DEF LoopInv, Done
  <2>2. map = Heard(cluster, reports)[turn]
    BY <2>1, HeardIs DEF Observers, InTurn
  <2>3. Agrees(map)
    BY <2>1, <2>2, TurnDone
  <2> HIDE DEF map
  <2>4. /\ DOMAIN connected = {} <=> connected = Empty
        /\ \A n \in DOMAIN disconnected : ~disconnected[n].conn
        /\ downKeys # <<>> => Head(downKeys) \in DOMAIN disconnected
        /\ DOMAIN connected = {} => masterNode = "none"
    BY <2>1 DEF ShapeInv, IsFun, Empty
  <2>5. Returned \in MasterPicks(map)
    <3>1. CASE connected = Empty /\ downKeys = <<>>
      <4>1. Returned = [instance |-> None, seen |-> "none"]
        <5>1. Cardinality(DOMAIN connected) = 0
          BY <2>4, <3>1, FS_EmptySet
        <5> QED
          BY <2>4, <3>1, <5>1 DEF Returned
      <4>2. DOMAIN map.connected = {} /\ map.first = {}
        BY <2>3, <2>4, <3>1 DEF Agrees
      <4> QED
        BY <4>1, <4>2 DEF MasterPicks
    <3>2. CASE connected = Empty /\ downKeys # <<>>
      <4>1. Returned = [instance |-> Head(downKeys), seen |-> "disconnected"]
        BY <2>4, <3>2 DEF Returned
      <4>2. DOMAIN map.connected = {} /\ Head(downKeys) \in map.first
        BY <2>3, <2>4, <3>2 DEF Agrees
      <4> QED
        BY <4>1, <4>2 DEF MasterPicks
    <3>3. CASE connected # Empty /\ Cardinality(DOMAIN connected) = 1
      <4> DEFINE n == CHOOSE m \in DOMAIN connected : TRUE
      <4>1. n \in DOMAIN connected
        BY <2>4, <3>3
      <4>2. Returned = [instance |-> n,
                        seen |-> IF connected[n].conn THEN "connected" ELSE "disconnected"]
        BY <3>3 DEF Returned
      <4> HIDE DEF n
      <4>3. Returned = [instance |-> n, seen |-> Seen(connected, n)]
        BY <4>1, <4>2 DEF Seen
      <4>4. MasterPicks(map) = {[instance |-> m, seen |-> Seen(connected, m)] : m \in DOMAIN connected}
        BY <2>3, <2>4, <3>3 DEF Agrees, MasterPicks
      <4> QED
        BY <4>1, <4>3, <4>4
    <3>4. CASE connected # Empty /\ Cardinality(DOMAIN connected) # 1
      <4>1. Returned = [instance |-> None, seen |-> masterNode]
        BY <3>4 DEF Returned
      <4>2. MasterPicks(map) = {[instance |-> None, seen |-> s] : s \in map.leak}
        BY <2>3, <2>4, <3>4 DEF Agrees, MasterPicks
      <4> QED
        BY <2>3, <4>1, <4>2 DEF Agrees
    <3> QED
      BY <3>1, <3>2, <3>3, <3>4
  <2> QED
    BY <2>3, <2>5 DEF LoopMatchesMap, Agrees, map
<1> QED
  BY LoopHolds, <1>1, PTL

\* A master somebody in contact with it was visited for is connected.
ContactInv ==
  /\ \A n \in DOMAIN cluster :
       (turn > 0 \/ n \notin left) /\ cluster[n].role = "primary" /\ cluster[n].conn
         => n \in DOMAIN connected
  /\ \A i \in 1..turn : \A n \in DOMAIN cluster \cap DOMAIN reports[i] :
       (/\ i < turn \/ n \notin left
        /\ n # Own /\ reports[i][n].role = "primary" /\ reports[i][n].conn
        /\ Near(reports[i][n].fetched, cluster[n].fetched))
       => n \in DOMAIN connected

\* pglookout.py:299-314.
THEOREM ContactCounts == Spec => []OneContactIsEnough
<1>1. Init => ContactInv
  BY DEF Init, ContactInv
<1>2. LoopInv /\ ContactInv /\ [Next]_vars => ContactInv'
  <2> SUFFICES ASSUME LoopInv, ContactInv, [Next]_vars PROVE ContactInv'
    OBVIOUS
  <2>1. ShapeInv /\ turn \in Nat /\ Len(reports) \in Nat
    BY Views DEF LoopInv
  <2>2. CASE OwnEntry
    <3> DEFINE n == Head(InOrder(Order, left))
               e == cluster[n]
    <3>1. /\ turn = 0 /\ turn' = 0 /\ cluster' = cluster /\ left' = left \ {n}
          /\ connected' = IF e.role = "primary" /\ e.conn THEN Put(connected, n, e) ELSE connected
      BY <2>2 DEF OwnEntry
    <3> HIDE DEF n
    <3>2. /\ DOMAIN connected \subseteq DOMAIN connected'
          /\ e.role = "primary" /\ e.conn => n \in DOMAIN connected'
      BY <3>1 DEF Put
    <3> QED
      BY <3>1, <3>2 DEF ContactInv
  <2>3. CASE NextObserver
    <3>1. /\ turn' = turn + 1 /\ left = {} /\ left' = DOMAIN reports[turn + 1]
          /\ UNCHANGED <<cluster, reports, connected>>
      BY <2>3 DEF NextObserver
    <3> QED
      BY <2>1, <3>1 DEF ContactInv
  <2>4. CASE \E n \in left : ReportEntry(n)
    <3> PICK n \in left : ReportEntry(n)
      BY <2>4
    <3> DEFINE e == reports[turn][n]
    <3>1. turn > 0 /\ left' = left \ {n} /\ UNCHANGED <<cluster, reports, turn>>
      BY DEF ReportEntry
    <3>2. /\ DOMAIN connected \subseteq DOMAIN connected'
          /\ (/\ n \in DOMAIN cluster /\ n # Own /\ e.role = "primary" /\ e.conn
              /\ Near(e.fetched, cluster[n].fetched))
             => n \in DOMAIN connected'
      <4>1. CASE n \notin DOMAIN cluster \/ e.role = "unknown"
        BY <4>1 DEF ReportEntry
      <4>2. CASE n \in DOMAIN cluster /\ e.role = "standby" /\ StandbyReported(n, e)
        BY <4>2 DEF StandbyReported
      <4>3. CASE n \in DOMAIN cluster /\ e.role = "primary" /\ MasterReported(n, e)
        BY <4>3 DEF MasterReported, Put
      <4> QED
        BY <4>1, <4>2, <4>3 DEF ReportEntry
    <3> QED
      BY <2>1, <3>1, <3>2 DEF ContactInv
  <2>5. CASE UNCHANGED vars
    BY <2>5 DEF vars, ContactInv
  <2> QED
    BY <2>2, <2>3, <2>4, <2>5 DEF Next
<1>3. LoopInv /\ ContactInv => OneContactIsEnough
  <2> SUFFICES ASSUME LoopInv, ContactInv, Done, NEW n \in DOMAIN cluster,
                      \/ cluster[n].role = "primary" /\ cluster[n].conn
                      \/ /\ n # Own
                         /\ \E i \in 1..Len(reports) :
                              /\ n \in DOMAIN reports[i]
                              /\ reports[i][n].role = "primary" /\ reports[i][n].conn
                              /\ Near(reports[i][n].fetched, cluster[n].fetched)
               PROVE  n \in DOMAIN connected
    BY DEF OneContactIsEnough
  <2>1. turn = Len(reports) /\ left = {}
    BY DEF Done
  <2> QED
    BY <2>1 DEF ContactInv
<1> QED
  BY LoopHolds, <1>1, <1>2, <1>3, PTL DEF Spec

\* Whoever this instance is connected to as a standby is recorded as it saw it,
\* and so is this instance itself wherever it is recorded.
OwnInv ==
  /\ \A n \in DOMAIN cluster :
       (turn > 0 \/ n \notin left) /\ cluster[n].role = "standby" /\ cluster[n].conn
         => n \in DOMAIN standbys /\ standbys[n] = cluster[n]
  /\ Own \in DOMAIN standbys => standbys[Own] = cluster[Own]
  /\ Own \in DOMAIN connected => connected[Own] = cluster[Own]
  /\ Own \in DOMAIN disconnected => disconnected[Own] = cluster[Own]

\* pglookout.py:294-298.
THEOREM OwnCounts == Spec => []OwnViewTrusted
<1>1. Init => OwnInv
  BY DEF Init, OwnInv, Empty
<1>2. LoopInv /\ OwnInv /\ [Next]_vars => OwnInv'
  <2> SUFFICES ASSUME LoopInv, OwnInv, [Next]_vars PROVE OwnInv'
    OBVIOUS
  <2>1. ShapeInv /\ turn \in Nat
    BY Views DEF LoopInv
  <2>2. CASE OwnEntry
    <3> DEFINE n == Head(InOrder(Order, left))
               e == cluster[n]
    <3>1. /\ turn = 0 /\ turn' = 0 /\ cluster' = cluster /\ left' = left \ {n}
          /\ standbys' = IF e.role = "standby" THEN Put(standbys, n, e) ELSE standbys
          /\ connected' = IF e.role = "primary" /\ e.conn THEN Put(connected, n, e) ELSE connected
          /\ disconnected' = disconnected \/ disconnected' = Put(disconnected, n, e)
      BY <2>2 DEF OwnEntry, PutDown
    <3> HIDE DEF n
    <3> QED
      BY <3>1 DEF OwnInv, Put
  <2>3. CASE NextObserver
    <3>1. /\ turn' = turn + 1 /\ left = {}
          /\ UNCHANGED <<cluster, standbys, connected, disconnected>>
      BY <2>3 DEF NextObserver
    <3> QED
      BY <2>1, <3>1 DEF OwnInv
  <2>4. CASE \E n \in left : ReportEntry(n)
    <3> PICK n \in left : ReportEntry(n)
      BY <2>4
    <3> DEFINE e == reports[turn][n]
    <3>1. turn > 0 /\ UNCHANGED <<cluster, reports, turn>>
      BY DEF ReportEntry
    <3>2. /\ \/ standbys' = standbys
             \/ /\ standbys' = Put(standbys, n, e) /\ n # Own
                /\ n \in DOMAIN standbys => ~standbys[n].conn
          /\ \/ connected' = connected
             \/ connected' = Put(connected, n, e) /\ n # Own
          /\ \/ disconnected' = disconnected
             \/ disconnected' = Put(disconnected, n, e) /\ n # Own
      <4>1. CASE n \notin DOMAIN cluster \/ e.role = "unknown"
        BY <4>1 DEF ReportEntry
      <4>2. CASE n \in DOMAIN cluster /\ e.role = "standby" /\ StandbyReported(n, e)
        BY <4>2 DEF StandbyReported
      <4>3. CASE n \in DOMAIN cluster /\ e.role = "primary" /\ MasterReported(n, e)
        BY <4>3 DEF MasterReported, PutDown
      <4> QED
        BY <4>1, <4>2, <4>3 DEF ReportEntry
    <3> QED
      BY <3>1, <3>2 DEF OwnInv, Put
  <2>5. CASE UNCHANGED vars
    BY <2>5 DEF vars, OwnInv
  <2> QED
    BY <2>2, <2>3, <2>4, <2>5 DEF Next
<1>3. LoopInv /\ OwnInv => OwnViewTrusted
  <2> SUFFICES ASSUME LoopInv, OwnInv, Done PROVE OwnViewTrusted
    BY DEF OwnViewTrusted
  <2>1. left = {}
    BY DEF Done
  <2> QED
    BY <2>1 DEF OwnInv, OwnViewTrusted
<1> QED
  BY LoopHolds, <1>1, <1>2, <1>3, PTL DEF Spec
=============================================================================
