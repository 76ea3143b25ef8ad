--------------------------- MODULE NodeMapProofs ----------------------------
(***************************************************************************)
(* What InOrder and create_node_map compute, for every view: sequences of  *)
(* any length, any number of observers and any reports.                    *)
(***************************************************************************)
EXTENDS NodeMap, FiniteSetTheorems, TLAPS

Listed(seq) == {seq[i] : i \in 1..Len(seq)}

-----------------------------------------------------------------------------
(* Induction.  A counterexample m would make i |-> i-1 an injection of the *)
(* counterexamples up to m into those below m, which are fewer.            *)

LEMMA UpTo ==
  ASSUME NEW N \in Nat, NEW S, 0 \in S, \A i \in 0..N - 1 : i \in S => i + 1 \in S
  PROVE  \A i \in 0..N : i \in S
<1> SUFFICES ASSUME NEW m \in 0..N, m \notin S PROVE FALSE
  OBVIOUS
<1> DEFINE D == {i \in 0..m : i \notin S}
           E == D \ {m}
           pred == [i \in D |-> i - 1]
<1>1. pred \in [D -> E]
  <2> SUFFICES ASSUME NEW i \in D PROVE i - 1 \in E
    OBVIOUS
  <2>1. i - 1 \in 0..N - 1 /\ i - 1 \in 0..m /\ i - 1 # m
    OBVIOUS
  <2>2. i - 1 \in S => (i - 1) + 1 \in S
    BY <2>1
  <2>3. (i - 1) + 1 = i
    OBVIOUS
  <2> QED
    BY <2>1, <2>2, <2>3
<1>2. IsFiniteSet(D) /\ IsFiniteSet(E) /\ Cardinality(E) < Cardinality(D)
  <2>1. D \in SUBSET (0..m) /\ m \in D
    OBVIOUS
  <2> HIDE DEF D
  <2>2. IsFiniteSet(D)
    <3>1. IsFiniteSet(0..m)
      BY FS_Interval
    <3> QED
      BY <2>1, <3>1, FS_Subset
  <2>3. IsFiniteSet(E) /\ Cardinality(E) = Cardinality(D) - 1
    BY <2>1, <2>2, FS_RemoveElement
  <2>4. Cardinality(D) \in Nat
    BY <2>2, FS_CardinalityType
  <2> QED
    BY <2>2, <2>3, <2>4
<1>3. PICK x \in D, y \in D : x # y /\ pred[x] = pred[y]
  <2> HIDE DEF D, E, pred
  <2> QED
    BY <1>1, <1>2, FS_PigeonHole
<1> QED
  BY <1>3

-----------------------------------------------------------------------------
(* InOrder, and create_node_map's loop over the observers: the function    *)
(* that each definition recurs on exists and is what it says it is.        *)

LEMMA InOrderSteps ==
  ASSUME NEW seq, Len(seq) \in Nat, NEW S
  PROVE  \E taken :
           /\ taken = [i \in 0..Len(seq) |->
                         IF i = 0 THEN <<>>
                         ELSE IF seq[i] \in S THEN Append(taken[i - 1], seq[i]) ELSE taken[i - 1]]
           /\ InOrder(seq, S) = taken[Len(seq)]
<1> DEFINE Upto(k, f) == f = [i \in 0..k |->
                         IF i = 0 THEN <<>>
                         ELSE IF seq[i] \in S THEN Append(f[i - 1], seq[i]) ELSE f[i - 1]]
           N == Len(seq)
           Ks == {k \in 0..N : \E f : Upto(k, f)}
<1>1. 0 \in Ks
  <2>1. Upto(0, [i \in 0..0 |-> <<>>])
    OBVIOUS
  <2> HIDE DEF Upto
  <2> QED
    BY <2>1
<1>2. ASSUME NEW k \in 0..N - 1, k \in Ks PROVE k + 1 \in Ks
  <2>1. PICK f : Upto(k, f)
    BY <1>2
  <2> DEFINE next == IF seq[k + 1] \in S THEN Append(f[k], seq[k + 1]) ELSE f[k]
             g == [i \in 0..k + 1 |-> IF i = k + 1 THEN next ELSE f[i]]
  <2>2. ASSUME NEW i \in 0..k + 1
        PROVE  g[i] = IF i = 0 THEN <<>>
                      ELSE IF seq[i] \in S THEN Append(g[i - 1], seq[i]) ELSE g[i - 1]
    <3>1. CASE i = k + 1
      BY <3>1
    <3>2. CASE i \in 0..k /\ i # 0
      <4>1. f[i] = IF seq[i] \in S THEN Append(f[i - 1], seq[i]) ELSE f[i - 1]
        BY <2>1, <3>2
      <4>2. g[i] = f[i] /\ g[i - 1] = f[i - 1]
        BY <3>2
      <4> QED
        BY <3>2, <4>1, <4>2
    <3>3. CASE i = 0
      <4>1. f[0] = <<>>
        BY <2>1
      <4>2. g[0] = f[0]
        OBVIOUS
      <4> QED
        BY <3>3, <4>1, <4>2
    <3> QED
      BY <3>1, <3>2, <3>3
  <2>3. Upto(k + 1, g)
    <3> HIDE DEF next
    <3> QED
      BY <2>2
  <2> HIDE DEF Upto, g
  <2> QED
    BY <2>3
<1>3. N \in Ks
  <2> HIDE DEF Ks, N
  <2> SUFFICES \A i \in 0..N : i \in Ks
    BY DEF N
  <2> QED
    BY <1>1, <1>2, UpTo DEF N
<1>4. PICK g : Upto(N, g)
  BY <1>3
<1>5. Upto(N, CHOOSE f : Upto(N, f))
  <2> HIDE DEF Upto
  <2> QED
    BY <1>4
<1> QED
  BY <1>5 DEF InOrder
\* heard is what create_node_map holds after each of its observers.
Hears(cluster, order, observers, obsOrder, heard) ==
  heard = [i \in 0..Len(obsOrder) |->
             IF i = 0 THEN OwnMap(cluster, order)
             ELSE Hear(cluster, heard[i - 1], observers[obsOrder[i]].db)]

\* CreateNodeMap is the last of them.
LEMMA HeardSteps ==
  ASSUME NEW cluster, NEW order, NEW observers, NEW obsOrder, Len(obsOrder) \in Nat
  PROVE  \E heard :
           /\ Hears(cluster, order, observers, obsOrder, heard)
           /\ CreateNodeMap(cluster, order, observers, obsOrder) = heard[Len(obsOrder)]
<1> DEFINE Upto(k, f) == f = [i \in 0..k |->
                         IF i = 0 THEN OwnMap(cluster, order)
                         ELSE Hear(cluster, f[i - 1], observers[obsOrder[i]].db)]
           N == Len(obsOrder)
           Ks == {k \in 0..N : \E f : Upto(k, f)}
<1>1. 0 \in Ks
  <2>1. Upto(0, [i \in 0..0 |-> OwnMap(cluster, order)])
    OBVIOUS
  <2> HIDE DEF Upto
  <2> QED
    BY <2>1
<1>2. ASSUME NEW k \in 0..N - 1, k \in Ks PROVE k + 1 \in Ks
  <2>1. PICK f : Upto(k, f)
    BY <1>2
  <2> DEFINE next == Hear(cluster, f[k], observers[obsOrder[k + 1]].db)
             g == [i \in 0..k + 1 |-> IF i = k + 1 THEN next ELSE f[i]]
  <2>2. ASSUME NEW i \in 0..k + 1
        PROVE  g[i] = IF i = 0 THEN OwnMap(cluster, order)
                      ELSE Hear(cluster, g[i - 1], observers[obsOrder[i]].db)
    <3>1. CASE i = k + 1
      BY <3>1
    <3>2. CASE i \in 0..k /\ i # 0
      <4>1. f[i] = Hear(cluster, f[i - 1], observers[obsOrder[i]].db)
        BY <2>1, <3>2
      <4>2. g[i] = f[i] /\ g[i - 1] = f[i - 1]
        BY <3>2
      <4> QED
        BY <3>2, <4>1, <4>2
    <3>3. CASE i = 0
      <4>1. f[0] = OwnMap(cluster, order)
        BY <2>1
      <4>2. g[0] = f[0]
        OBVIOUS
      <4> QED
        BY <3>3, <4>1, <4>2
    <3> QED
      BY <3>1, <3>2, <3>3
  <2>3. Upto(k + 1, g)
    <3> HIDE DEF next
    <3> QED
      BY <2>2
  <2> HIDE DEF Upto, g
  <2> QED
    BY <2>3
<1>3. N \in Ks
  <2> HIDE DEF Ks, N
  <2> SUFFICES \A i \in 0..N : i \in Ks
    BY DEF N
  <2> QED
    BY <1>1, <1>2, UpTo DEF N
<1>4. PICK g : Upto(N, g)
  BY <1>3
<1>5. Upto(N, CHOOSE f : Upto(N, f))
  <2> HIDE DEF Upto
  <2> QED
    BY <1>4
<1> QED
  BY <1>5 DEF CreateNodeMap, Hears

-----------------------------------------------------------------------------
(* What InOrder returns.                                                   *)

LEMMA AppendLists ==
  ASSUME NEW T, NEW s \in Seq(T), NEW e \in T
  PROVE  Append(s, e) \in Seq(T) /\ Listed(Append(s, e)) = Listed(s) \cup {e}
<1>1. Append(s, e) \in Seq(T) /\ Len(Append(s, e)) = Len(s) + 1 /\ Len(s) \in Nat
  OBVIOUS
<1>2. \A i \in 1..Len(s) : Append(s, e)[i] = s[i]
  OBVIOUS
<1>3. Append(s, e)[Len(s) + 1] = e
  OBVIOUS
<1>4. 1..(Len(s) + 1) = 1..Len(s) \cup {Len(s) + 1}
  BY <1>1
<1> QED
  BY <1>1, <1>2, <1>3, <1>4 DEF Listed

LEMMA InOrderKeeps ==
  ASSUME NEW T, NEW seq \in Seq(T), NEW S
  PROVE  /\ InOrder(seq, S) \in Seq(T \cap S)
         /\ Listed(InOrder(seq, S)) = Listed(seq) \cap S
<1>1. Len(seq) \in Nat /\ \A i \in 1..Len(seq) : seq[i] \in T
  OBVIOUS
<1>2. PICK taken :
        /\ taken = [i \in 0..Len(seq) |->
                      IF i = 0 THEN <<>>
                      ELSE IF seq[i] \in S THEN Append(taken[i - 1], seq[i]) ELSE taken[i - 1]]
        /\ InOrder(seq, S) = taken[Len(seq)]
  BY <1>1, InOrderSteps
<1>3. taken[0] = <<>>
  BY <1>1, <1>2
<1>4. ASSUME NEW i \in 0..Len(seq) - 1
      PROVE  taken[i + 1] = IF seq[i + 1] \in S THEN Append(taken[i], seq[i + 1]) ELSE taken[i]
  <2>1. i + 1 \in 0..Len(seq) /\ i + 1 # 0 /\ (i + 1) - 1 = i
    BY <1>1
  <2> QED
    BY <1>2, <2>1
<1> DEFINE Good == {i \in 0..Len(seq) : /\ taken[i] \in Seq(T \cap S)
                                       /\ Listed(taken[i]) = {seq[j] : j \in 1..i} \cap S}
<1>5. 0 \in Good
  <2>1. Listed(<<>>) = {} /\ <<>> \in Seq(T \cap S)
    BY DEF Listed
  <2>2. {seq[j] : j \in 1..0} = {}
    OBVIOUS
  <2>3. 0 \in 0..Len(seq)
    BY <1>1
  <2> QED
    BY <1>3, <2>1, <2>2, <2>3
<1>6. ASSUME NEW i \in 0..Len(seq) - 1, i \in Good PROVE i + 1 \in Good
  <2>1. {seq[j] : j \in 1..(i + 1)} = {seq[j] : j \in 1..i} \cup {seq[i + 1]}
    <3>1. 1..(i + 1) = 1..i \cup {i + 1}
      BY <1>1
    <3> QED
      BY <3>1
  <2>2. i + 1 \in 0..Len(seq) /\ i + 1 \in 1..Len(seq)
    BY <1>1
  <2>3. CASE seq[i + 1] \in S
    <3>1. seq[i + 1] \in T \cap S
      BY <1>1, <2>2, <2>3
    <3>2. taken[i + 1] = Append(taken[i], seq[i + 1])
      BY <1>4, <2>3
    <3>3. taken[i + 1] \in Seq(T \cap S) /\ Listed(taken[i + 1]) = Listed(taken[i]) \cup {seq[i + 1]}
      BY <1>6, <3>1, <3>2, AppendLists
    <3> QED
      BY <1>6, <2>1, <2>2, <2>3, <3>3
  <2>4. CASE seq[i + 1] \notin S
    <3>1. taken[i + 1] = taken[i]
      BY <1>4, <2>4
    <3> QED
      BY <1>6, <2>1, <2>2, <2>4, <3>1
  <2> QED
    BY <2>3, <2>4
<1>7. Len(seq) \in Good
  <2> HIDE DEF Good
  <2>1. \A i \in 0..Len(seq) : i \in Good
    BY <1>1, <1>5, <1>6, UpTo
  <2> QED
    BY <1>1, <2>1
<1>8. Listed(taken[Len(seq)]) = Listed(seq) \cap S
  BY <1>7 DEF Listed
<1> QED
  BY <1>2, <1>7, <1>8

\* The first of what InOrder keeps is one of what was asked for.
LEMMA HeadInOrder ==
  ASSUME NEW T, NEW seq \in Seq(T), NEW S, Listed(seq) \cap S # {}
  PROVE  Head(InOrder(seq, S)) \in S
<1> DEFINE kept == InOrder(seq, S)
<1>1. kept \in Seq(T \cap S) /\ Listed(kept) # {}
  BY InOrderKeeps
<1> HIDE DEF kept
<1>2. Len(kept) \in Nat /\ Len(kept) # 0
  BY <1>1 DEF Listed
<1>3. Head(kept) = kept[1] /\ kept[1] \in T \cap S
  BY <1>1, <1>2
<1> QED
  BY <1>3 DEF kept

-----------------------------------------------------------------------------
(* What create_node_map returns, after any number of observers.            *)

\* Every node of the map is one of cluster_state; the candidates for the first
\* disconnected master are disconnected masters, and there is one if there are
\* any; a master with an own connection is there whatever the observers say.
MapInv(cluster, map) ==
  /\ DOMAIN map.standbys \subseteq DOMAIN cluster
  /\ DOMAIN map.connected \subseteq DOMAIN cluster
  /\ DOMAIN map.disconnected \subseteq DOMAIN cluster
  /\ map.first \subseteq DOMAIN map.disconnected
  /\ DOMAIN map.disconnected # {} => map.first # {}
  /\ \A n \in DOMAIN cluster :
       cluster[n].role = "primary" /\ cluster[n].conn => n \in DOMAIN map.connected

LEMMA OwnMapInv ==
  ASSUME NEW cluster, NEW T, NEW order \in Seq(T), DOMAIN cluster \subseteq Listed(order)
  PROVE  MapInv(cluster, OwnMap(cluster, order))
<1> DEFINE with(role) == {n \in DOMAIN cluster : cluster[n].role = role}
           up == {n \in with("primary") : cluster[n].conn}
           down == with("primary") \ up
           map == OwnMap(cluster, order)
<1>1. /\ map.standbys = Keep(cluster, with("standby"))
      /\ map.connected = Keep(cluster, up)
      /\ map.disconnected = Keep(cluster, down)
      /\ map.first = IF down = {} THEN {} ELSE {Head(InOrder(order, down))}
  BY DEF OwnMap
<1>2. down # {} => Head(InOrder(order, down)) \in down
  <2>1. down \subseteq Listed(order)
    OBVIOUS
  <2> HIDE DEF down
  <2> QED
    BY <2>1, HeadInOrder
<1> HIDE DEF map
<1>3. /\ DOMAIN map.standbys = with("standby")
      /\ DOMAIN map.connected = up
      /\ DOMAIN map.disconnected = down
  BY <1>1 DEF Keep
<1> QED
  BY <1>1, <1>2, <1>3 DEF MapInv, map

LEMMA HearInv ==
  ASSUME NEW cluster, NEW map, MapInv(cluster, map), NEW reports
  PROVE  MapInv(cluster, Hear(cluster, map, reports))
<1> DEFINE known == DOMAIN reports \cap DOMAIN cluster
           standby == {n \in known \ {Own} : /\ reports[n].role = "standby"
                                             /\ reports[n].fetched >= cluster[n].fetched
                                             /\ Seen(map.standbys, n) # "connected"}
           primary == {n \in known : reports[n].role = "primary"}
           trusted == {n \in primary \ {Own} : Near(reports[n].fetched, cluster[n].fetched)}
           up == {n \in trusted : Seen(map.connected, n) = "connected" \/ reports[n].conn}
           down == trusted \ up
           next == Hear(cluster, map, reports)
<1>1. /\ next.standbys = Update(map.standbys, reports, standby)
      /\ next.connected = Update(map.connected, reports, up)
      /\ next.disconnected = Update(map.disconnected, reports, down)
      /\ next.first = IF map.first = {} THEN down ELSE map.first
  BY DEF Hear
<1>2. standby \subseteq DOMAIN cluster /\ up \subseteq DOMAIN cluster /\ down \subseteq DOMAIN cluster
  OBVIOUS
<1> HIDE DEF next, standby, up, down
<1>3. /\ DOMAIN next.standbys = DOMAIN map.standbys \cup standby
      /\ DOMAIN next.connected = DOMAIN map.connected \cup up
      /\ DOMAIN next.disconnected = DOMAIN map.disconnected \cup down
  BY <1>1 DEF Update
<1> QED
  BY <1>1, <1>2, <1>3 DEF MapInv, next

LEMMA CreateNodeMapInv ==
  ASSUME NEW cluster, NEW T, NEW order \in Seq(T), DOMAIN cluster \subseteq Listed(order),
         NEW observers, NEW obsOrder, Len(obsOrder) \in Nat
  PROVE  MapInv(cluster, CreateNodeMap(cluster, order, observers, obsOrder))
<1>1. PICK heard :
        /\ Hears(cluster, order, observers, obsOrder, heard)
        /\ CreateNodeMap(cluster, order, observers, obsOrder) = heard[Len(obsOrder)]
  BY HeardSteps
<1> DEFINE Good == {i \in 0..Len(obsOrder) : MapInv(cluster, heard[i])}
<1>2. 0 \in Good
  <2>1. heard[0] = OwnMap(cluster, order)
    BY <1>1 DEF Hears
  <2> QED
    BY <2>1, OwnMapInv
<1>3. ASSUME NEW i \in 0..Len(obsOrder) - 1, i \in Good PROVE i + 1 \in Good
  <2>1. i + 1 \in 0..Len(obsOrder) /\ i + 1 # 0 /\ (i + 1) - 1 = i
    OBVIOUS
  <2>2. heard[i + 1] = Hear(cluster, heard[i], observers[obsOrder[i + 1]].db)
    BY <1>1, <2>1 DEF Hears
  <2>3. MapInv(cluster, heard[i + 1])
    BY <1>3, <2>2, HearInv
  <2> QED
    BY <2>1, <2>3
<1>4. Len(obsOrder) \in Good
  <2> HIDE DEF Good
  <2>1. \A i \in 0..Len(obsOrder) : i \in Good
    BY <1>2, <1>3, UpTo
  <2> QED
    BY <2>1
<1> QED
  BY <1>1, <1>4

\* pglookout.py:316-351: the current master that create_node_map names is a node
\* of cluster_state.
LEMMA PicksKnown ==
  ASSUME NEW cluster, NEW map, MapInv(cluster, map), NEW pick \in MasterPicks(map)
  PROVE  pick.instance \in DOMAIN cluster \cup {None}
<1>1. CASE DOMAIN map.connected = {} /\ map.first = {}
  BY <1>1 DEF MasterPicks
<1>2. CASE DOMAIN map.connected = {} /\ map.first # {}
  <2>1. PICK n \in map.first : pick = [instance |-> n, seen |-> "disconnected"]
    BY <1>2 DEF MasterPicks
  <2> QED
    BY <2>1 DEF MapInv
<1>3. CASE DOMAIN map.connected # {} /\ Cardinality(DOMAIN map.connected) = 1
  <2>1. PICK n \in DOMAIN map.connected : pick = [instance |-> n, seen |-> Seen(map.connected, n)]
    BY <1>3 DEF MasterPicks
  <2> QED
    BY <2>1 DEF MapInv
<1>4. CASE DOMAIN map.connected # {} /\ Cardinality(DOMAIN map.connected) # 1
  <2>1. PICK s \in map.leak : pick = [instance |-> None, seen |-> s]
    BY <1>4 DEF MasterPicks
  <2> QED
    BY <2>1
<1> QED
  BY <1>1, <1>2, <1>3, <1>4
=============================================================================
