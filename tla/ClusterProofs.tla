--------------------------- MODULE ClusterProofs ----------------------------
(***************************************************************************)
(* Proofs about Cluster, for any number of nodes and daemons, any networks *)
(* and any bounds; OneSuccessor, which follows from RivalsAgree where a    *)
(* majority of the standbys is all of them, for up to three nodes.  Before *)
(* that, what keeps any two that decide from both promoting themselves.    *)
(***************************************************************************)
EXTENDS Cluster, FiniteSetTheorems, TLAPS

\* What is proved about create_node_map.  Own plays no part in what is used here.
Maps == INSTANCE NodeMapProofs WITH Own <- InitPrimary, PollInterval <- 1

Standbys(d) == {n \in Nodes : view[d][n].role = "standby"}
Known(d) == {n \in Standbys(d) : view[d][n].conn}

\* What d believes to be the order of the nodes, and what it is.
SeesBehind(d, n) ==
  view[d][n].lsn < view[d][d].lsn \/ (view[d][n].lsn = view[d][d].lsn /\ n <= d)
Outranks(m, n) == lsn[n] < lsn[m] \/ (lsn[n] = lsn[m] /\ n <= m)

-----------------------------------------------------------------------------
(* Two daemons that decide alone, whatever brought them to their views.    *)

\* The decision of the one beside p, with settings of its own.
At(p, limit, lag) ==
  INSTANCE FailoverDecision WITH Own <- p, PollInterval <- 1, FreshLimit <- limit, FailoverLag <- lag

\* Of two candidates that both daemons know, at the same positions, only one
\* can be the furthest along.
LEMMA OneFurthest ==
  ASSUME NEW p \in Nat, NEW q \in Nat, NEW limitP, NEW limitQ, NEW lagP, NEW lagQ,
         NEW Cp, NEW Cq, NEW posP, NEW posQ,
         p \in Cq, q \in Cp,
         posP[p] \in Int, posP[q] \in Int,
         posQ[p] = posP[p], posQ[q] = posP[q],
         At(p, limitP, lagP)!IsFurthest(p, Cp, posP), At(q, limitQ, lagQ)!IsFurthest(q, Cq, posQ)
  PROVE  p = q
<1>1. posP[q] < posP[p] \/ (posP[q] = posP[p] /\ q <= p)
  BY DEF At!IsFurthest
<1>2. posQ[p] < posQ[q] \/ (posQ[p] = posQ[q] /\ p <= q)
  BY DEF At!IsFurthest
<1> QED
  BY <1>1, <1>2

\* pglookout.py:646-653, "to make sure pglookouts running on all standbys make
\* the same decision".  Whatever their maps, observers, clocks and settings: if
\* each counts the other among its candidates and both know the same positions
\* of the two, they do not both promote themselves.
THEOREM NeverBothPromote ==
  ASSUME NEW p \in Nat, NEW q \in Nat, NEW limitP, NEW limitQ, NEW lagP, NEW lagQ,
         NEW mapP, NEW mapQ, NEW pickP, NEW pickQ, NEW obsP, NEW obsQ,
         NEW neverP, NEW neverQ, NEW nowP, NEW nowQ,
         NEW maintenanceP, NEW maintenanceQ,
         At(p, limitP, lagP)!PromotesItself(mapP, pickP, obsP, neverP, maintenanceP, nowP),
         At(q, limitQ, lagQ)!PromotesItself(mapQ, pickQ, obsQ, neverQ, maintenanceQ, nowQ),
         q \in At(p, limitP, lagP)!Candidates(mapP.standbys, neverP, nowP),
         p \in At(q, limitQ, lagQ)!Candidates(mapQ.standbys, neverQ, nowQ),
         mapP.standbys[p].lsn \in Int, mapP.standbys[q].lsn \in Int,
         mapQ.standbys[p].lsn = mapP.standbys[p].lsn,
         mapQ.standbys[q].lsn = mapP.standbys[q].lsn
  PROVE  p = q
<1> DEFINE Cp == At(p, limitP, lagP)!Candidates(mapP.standbys, neverP, nowP)
           Cq == At(q, limitQ, lagQ)!Candidates(mapQ.standbys, neverQ, nowQ)
           posP == [n \in DOMAIN mapP.standbys |-> mapP.standbys[n].lsn]
           posQ == [n \in DOMAIN mapQ.standbys |-> mapQ.standbys[n].lsn]
<1>1. At(p, limitP, lagP)!IsFurthest(p, Cp, posP) /\ At(q, limitQ, lagQ)!IsFurthest(q, Cq, posQ)
  BY DEF At!PromotesItself
<1>2. p \in Cp /\ q \in Cq
  BY <1>1 DEF At!IsFurthest
<1>3. /\ p \in DOMAIN mapP.standbys /\ q \in DOMAIN mapP.standbys
      /\ p \in DOMAIN mapQ.standbys /\ q \in DOMAIN mapQ.standbys
  BY <1>2 DEF At!Candidates
<1>4. /\ posP[p] \in Int /\ posP[q] \in Int
      /\ posQ[p] = posP[p] /\ posQ[q] = posP[q]
  BY <1>3
<1> HIDE DEF Cp, Cq, posP, posQ
<1>5. p \in Cq /\ q \in Cp
  BY DEF Cp, Cq
<1> QED
  BY <1>1, <1>4, <1>5, OneFurthest

\* A set has no fewer members than two disjoint parts of it.
LEMMA DisjointParts ==
  ASSUME NEW S, IsFiniteSet(S), NEW A \in SUBSET S, NEW B \in SUBSET S, A \cap B = {}
  PROVE  /\ Cardinality(A) \in Nat /\ Cardinality(B) \in Nat /\ Cardinality(S) \in Nat
         /\ Cardinality(A) + Cardinality(B) <= Cardinality(S)
<1>1. /\ IsFiniteSet(A) /\ IsFiniteSet(B)
      /\ A \cup B \in SUBSET S
  BY FS_Subset
<1>2. Cardinality(A \cup B) <= Cardinality(S)
  BY <1>1, FS_Subset
<1>3. Cardinality(A \cup B) = Cardinality(A) + Cardinality(B) - Cardinality(A \cap B)
  BY <1>1, FS_Union
<1>4. /\ Cardinality(A \cap B) = 0
      /\ Cardinality(A) \in Nat /\ Cardinality(B) \in Nat /\ Cardinality(S) \in Nat
  BY <1>1, FS_EmptySet, FS_CardinalityType
<1> QED
  BY <1>2, <1>3, <1>4

\* pglookout.py:659-688.  The instances on the two sides of a partition know of
\* the same standbys and observers, but none of these is a candidate or connected
\* on both sides.  If both promote themselves all the same, never_promote_these_nodes
\* lists a node that is no standby: the +1 for the master, whom neither side has,
\* makes more than half of both together out of their halves, and only line 661,
\* which subtracts the length of the list without looking, can take it away again.
THEOREM OneSidePromotes ==
  ASSUME NEW p, NEW q, NEW limitP, NEW limitQ, NEW lagP, NEW lagQ,
         NEW mapP, NEW mapQ, NEW pickP, NEW pickQ, NEW obsP, NEW obsQ,
         NEW never, NEW nowP, NEW nowQ, NEW maintenanceP, NEW maintenanceQ,
         IsFiniteSet(never),
         IsFiniteSet(DOMAIN mapP.standbys), DOMAIN mapQ.standbys = DOMAIN mapP.standbys,
         IsFiniteSet(DOMAIN obsP), DOMAIN obsQ = DOMAIN obsP,
         At(p, limitP, lagP)!PromotesItself(mapP, pickP, obsP, never, maintenanceP, nowP),
         At(q, limitQ, lagQ)!PromotesItself(mapQ, pickQ, obsQ, never, maintenanceQ, nowQ),
         At(p, limitP, lagP)!Candidates(mapP.standbys, never, nowP)
           \cap At(q, limitQ, lagQ)!Candidates(mapQ.standbys, never, nowQ) = {},
         {o \in DOMAIN obsP : obsP[o].conn} \cap {o \in DOMAIN obsQ : obsQ[o].conn} = {}
  PROVE  \E n \in never : n \notin DOMAIN mapP.standbys
<1> DEFINE standbys == DOMAIN mapP.standbys
           observers == DOMAIN obsP
           electable == standbys \ never
           knownP == At(p, limitP, lagP)!Candidates(mapP.standbys, never, nowP)
           knownQ == At(q, limitQ, lagQ)!Candidates(mapQ.standbys, never, nowQ)
           reachedP == {o \in DOMAIN obsP : obsP[o].conn}
           reachedQ == {o \in DOMAIN obsQ : obsQ[o].conn}
<1> SUFFICES ASSUME never \subseteq standbys PROVE FALSE
  OBVIOUS
<1>1. /\ At(p, limitP, lagP)!KnowsEnough(Cardinality(knownP), Cardinality(standbys),
           Cardinality(never), Cardinality(observers), Cardinality(reachedP))
      /\ At(q, limitQ, lagQ)!KnowsEnough(Cardinality(knownQ), Cardinality(standbys),
           Cardinality(never), Cardinality(observers), Cardinality(reachedQ))
  BY DEF At!PromotesItself, At!Cardinality, Cardinality
<1>2. /\ knownP \in SUBSET electable /\ knownQ \in SUBSET electable /\ knownP \cap knownQ = {}
  BY DEF At!Candidates
<1>3. /\ reachedP \in SUBSET observers /\ reachedQ \in SUBSET observers
      /\ reachedP \cap reachedQ = {}
  OBVIOUS
<1>4. IsFiniteSet(standbys) /\ IsFiniteSet(observers) /\ never \subseteq standbys
  OBVIOUS
<1> HIDE DEF standbys, observers, knownP, knownQ, reachedP, reachedQ
<1>5. /\ IsFiniteSet(electable)
      /\ Cardinality(electable) = Cardinality(standbys) - Cardinality(never)
  <2>1. /\ IsFiniteSet(electable)
        /\ Cardinality(electable) = Cardinality(standbys) - Cardinality(standbys \cap never)
    BY <1>4, FS_Difference
  <2>2. standbys \cap never = never
    BY <1>4
  <2> QED
    BY <2>1, <2>2
<1> HIDE DEF electable
<1>6. /\ Cardinality(knownP) \in Nat /\ Cardinality(knownQ) \in Nat
      /\ Cardinality(knownP) + Cardinality(knownQ) <= Cardinality(electable)
  BY <1>2, <1>5, DisjointParts
<1>7. /\ Cardinality(reachedP) \in Nat /\ Cardinality(reachedQ) \in Nat
      /\ Cardinality(observers) \in Nat
      /\ Cardinality(reachedP) + Cardinality(reachedQ) <= Cardinality(observers)
  BY <1>3, <1>4, DisjointParts
<1>8. Cardinality(standbys) \in Nat /\ Cardinality(never) \in Nat
  BY <1>4, FS_Subset, FS_CardinalityType
<1> QED
  BY <1>1, <1>5, <1>6, <1>7, <1>8 DEF At!KnowsEnough

\* pglookout.py:661.  And it does take it away: with a master that has gone on the
\* list, each of two standbys that reach nobody knows enough to fail over.
THEOREM ListedMasterSplits ==
  ASSUME NEW p, NEW q, NEW master, p # q,
         NEW limitP, NEW limitQ, NEW lagP, NEW lagQ
  PROVE  /\ At(p, limitP, lagP)!KnowsEnough(
              Cardinality({p}), Cardinality({p, q}), Cardinality({master}), 0, 0)
         /\ At(q, limitQ, lagQ)!KnowsEnough(
              Cardinality({q}), Cardinality({p, q}), Cardinality({master}), 0, 0)
<1>1. Cardinality({p}) = 1 /\ Cardinality({q}) = 1 /\ Cardinality({master}) = 1
  BY FS_Singleton
<1>2. Cardinality({p, q}) = 2
  <2>1. IsFiniteSet({p}) /\ Cardinality({p}) = 1 /\ q \notin {p} /\ {p} \cup {q} = {p, q}
    BY FS_Singleton
  <2> QED
    BY <2>1, FS_AddElement
<1> QED
  BY <1>1, <1>2 DEF At!KnowsEnough

-----------------------------------------------------------------------------
(* The node map of a daemon that has no observers, and its decision.       *)

LEMMA OwnMapOnly ==
  ASSUME NEW d PROVE Map(d) = Maps!OwnMap(view[d], order[d])
<1> DEFINE map == Daemon(d)!OwnMap(view[d], order[d])
           Heard(f) == f = [i \in 0..Len(<<>>) |->
                              IF i = 0 THEN map
                              ELSE Daemon(d)!Hear(view[d], f[i - 1], ([o \in {} |-> 0])[(<<>>)[i]].db)]
<1>1. Heard([i \in 0..Len(<<>>) |-> map])
  OBVIOUS
<1>2. Heard(CHOOSE f : Heard(f))
  <2> HIDE DEF Heard
  <2> QED
    BY <1>1
<1>3. Map(d) = map
  BY <1>2 DEF Map, Daemon!CreateNodeMap
<1>4. map = Maps!OwnMap(view[d], order[d])
  BY Zenon DEF Daemon!OwnMap, Maps!OwnMap, Daemon!InOrder, Maps!InOrder, Daemon!Keep, Maps!Keep
<1> QED
  BY <1>3, <1>4

LEMMA MapFields ==
  ASSUME TypeOK, NEW d \in Daemons
  PROVE  /\ DOMAIN Map(d).standbys = Standbys(d)
         /\ \A n \in Standbys(d) : Map(d).standbys[n] = view[d][n]
         /\ DOMAIN Map(d).connected = {n \in Nodes : view[d][n].role = "primary" /\ view[d][n].conn}
         /\ DOMAIN Map(d).disconnected =
              {n \in Nodes : view[d][n].role = "primary" /\ ~view[d][n].conn}
         /\ \A n \in DOMAIN Map(d).disconnected : Map(d).disconnected[n] = view[d][n]
         /\ Map(d).first \subseteq DOMAIN Map(d).disconnected
         /\ DOMAIN Map(d).disconnected # {} => Map(d).first # {}
<1> DEFINE cluster == view[d]
           with(role) == {n \in DOMAIN cluster : cluster[n].role = role}
           up == {n \in with("primary") : cluster[n].conn}
           down == with("primary") \ up
           map == Map(d)
<1>1. /\ map.standbys = Maps!Keep(cluster, with("standby"))
      /\ map.connected = Maps!Keep(cluster, up)
      /\ map.disconnected = Maps!Keep(cluster, down)
  BY OwnMapOnly DEF Maps!OwnMap
<1>2. DOMAIN cluster = Nodes
  BY DEF TypeOK
<1>3. order[d] \in Seq(Nodes) /\ Nodes \subseteq Maps!Listed(order[d])
  BY OrdersAssumption DEF OrdersAssumption, TypeOK, Maps!Listed
<1>4. Maps!MapInv(cluster, map)
  BY <1>2, <1>3, OwnMapOnly, Maps!OwnMapInv
<1>5. map.first \subseteq DOMAIN map.disconnected /\ (DOMAIN map.disconnected # {} => map.first # {})
  BY <1>4 DEF Maps!MapInv
<1>6. with("standby") = Standbys(d)
  BY <1>2 DEF Standbys
<1> HIDE DEF map
<1>7. /\ DOMAIN map.standbys = with("standby")
      /\ \A n \in with("standby") : map.standbys[n] = cluster[n]
  BY <1>1 DEF Maps!Keep
<1>8. /\ DOMAIN map.connected = up
      /\ DOMAIN map.disconnected = down
      /\ \A n \in down : map.disconnected[n] = cluster[n]
  BY <1>1 DEF Maps!Keep
<1>9. /\ up = {n \in Nodes : view[d][n].role = "primary" /\ view[d][n].conn}
      /\ down = {n \in Nodes : view[d][n].role = "primary" /\ ~view[d][n].conn}
  BY <1>2
<1> HIDE DEF up, down, with, cluster
<1> QED
  BY <1>5, <1>6, <1>7, <1>8, <1>9 DEF map, cluster

\* The master that check_cluster_state is told of is a node; without a connected
\* one, it is a master that was lost, if one was.
LEMMA Picks ==
  ASSUME TypeOK, NEW d \in Daemons, NEW pick \in Daemon(d)!MasterPicks(Map(d))
  PROVE  /\ pick.instance \in Nodes \cup {None}
         /\ DOMAIN Map(d).connected = {} /\ DOMAIN Map(d).disconnected # {} =>
              pick.instance \in DOMAIN Map(d).disconnected
<1> DEFINE map == Map(d)
           up == DOMAIN map.connected
<1>1. /\ up \subseteq Nodes /\ DOMAIN map.disconnected \subseteq Nodes
      /\ map.first \subseteq DOMAIN map.disconnected
      /\ DOMAIN map.disconnected # {} => map.first # {}
  BY MapFields
<1> HIDE DEF map
<1>2. CASE up = {} /\ map.first = {}
  <2>1. pick = [instance |-> None, seen |-> "none"]
    BY <1>2 DEF Daemon!MasterPicks, map
  <2> QED
    BY <1>1, <1>2, <2>1 DEF map
<1>3. CASE up = {} /\ map.first # {}
  <2>1. PICK n \in map.first : pick = [instance |-> n, seen |-> "disconnected"]
    BY <1>3 DEF Daemon!MasterPicks, map
  <2> QED
    BY <1>1, <2>1 DEF map
<1>4. CASE up # {} /\ Daemon(d)!Cardinality(up) = 1
  <2>1. PICK n \in up : pick = [instance |-> n, seen |-> Daemon(d)!Seen(map.connected, n)]
    BY <1>4 DEF Daemon!MasterPicks, map
  <2> QED
    BY <1>1, <1>4, <2>1 DEF map
<1>5. CASE up # {} /\ Daemon(d)!Cardinality(up) # 1
  <2>1. PICK s \in map.leak : pick = [instance |-> None, seen |-> s]
    BY <1>5 DEF Daemon!MasterPicks, map
  <2> QED
    BY <1>5, <2>1 DEF map
<1> QED
  BY <1>2, <1>3, <1>4, <1>5

\* Whose positions it compares: those of the standbys it has reached.
LEMMA CandidatesKnown ==
  ASSUME TypeOK, NEW d \in Daemons
  PROVE  Daemon(d)!Candidates(Map(d).standbys, {}, 0) = Known(d)
<1>1. DOMAIN Map(d).standbys = Standbys(d) /\ \A n \in Standbys(d) : Map(d).standbys[n] = view[d][n]
  BY MapFields
<1>2. \A n \in Standbys(d) : view[d][n].fetched = 0
  <2>1. \A n \in Nodes : view[d][n].fetched \in {0}
    BY DEF TypeOK, Entries
  <2> QED
    BY <2>1 DEF Standbys
<1> QED
  BY <1>1, <1>2 DEF Daemon!Candidates, Known

\* The decision, said of what the daemon has polled.
LEMMA Decision ==
  ASSUME TypeOK, NEW d \in Daemons, NEW pick
  PROVE  Promotes(d, pick) <=>
           /\ \A n \in Nodes : view[d][n].role = "primary" => ~view[d][n].conn
           /\ ~Daemon(d)!RecentContact(Map(d), pick, 0)
           /\ d \in Known(d) /\ \A n \in Known(d) : SeesBehind(d, n)
           /\ 2 * Cardinality(Known(d)) >= Cardinality(Standbys(d)) + 1
<1> DEFINE map == Map(d)
           never == {}
           noObservers == [o \in {} |-> 0]
           candidates == Daemon(d)!Candidates(map.standbys, never, 0)
           position == [n \in DOMAIN map.standbys |-> map.standbys[n].lsn]
           enough == Daemon(d)!KnowsEnough(Cardinality(candidates), Cardinality(DOMAIN map.standbys),
                       Cardinality(never), Cardinality(DOMAIN noObservers),
                       Cardinality({o \in DOMAIN noObservers : noObservers[o].conn}))
<1>1. Promotes(d, pick) <=>
        /\ DOMAIN map.connected = {}
        /\ ~Daemon(d)!RecentContact(map, pick, 0)
        /\ Daemon(d)!IsFurthest(d, candidates, position)
        /\ enough
  BY DEF Promotes, Daemon!PromotesItself, Daemon!Cardinality, Cardinality
<1>2. DOMAIN map.standbys = Standbys(d) /\ \A n \in Standbys(d) : map.standbys[n] = view[d][n]
  BY MapFields
<1>4. candidates = Known(d)
  BY CandidatesKnown
<1>5. \A n \in Standbys(d) : position[n] = view[d][n].lsn
  BY <1>2
<1>6. Known(d) \subseteq Standbys(d)
  BY DEF Known
<1> HIDE DEF candidates, position
<1>7. Daemon(d)!IsFurthest(d, candidates, position) <=>
        d \in Known(d) /\ \A n \in Known(d) : SeesBehind(d, n)
  BY <1>4, <1>5, <1>6 DEF Daemon!IsFurthest, SeesBehind
<1>8. enough <=> 2 * Cardinality(Known(d)) >= Cardinality(Standbys(d)) + 1
  <2>1. DOMAIN noObservers = {} /\ {o \in DOMAIN noObservers : noObservers[o].conn} = {}
    OBVIOUS
  <2>2. Cardinality({}) = 0
    BY FS_EmptySet
  <2>3. Cardinality(Known(d)) \in Nat /\ Cardinality(Standbys(d)) \in Nat
    <3>1. IsFiniteSet(Known(d)) /\ IsFiniteSet(Standbys(d))
      <4>1. Known(d) \in SUBSET Nodes /\ Standbys(d) \in SUBSET Nodes
        BY DEF Known, Standbys
      <4> QED
        BY <4>1, NodesAssumption, FS_Subset DEF NodesAssumption
    <3> QED
      BY <3>1, FS_CardinalityType
  <2> HIDE DEF noObservers
  <2> QED
    BY <1>2, <1>4, <2>1, <2>2, <2>3 DEF Daemon!KnowsEnough
<1>9. DOMAIN map.connected = {} <=> \A n \in Nodes : view[d][n].role = "primary" => ~view[d][n].conn
  <2>1. DOMAIN map.connected = {n \in Nodes : view[d][n].role = "primary" /\ view[d][n].conn}
    BY MapFields
  <2> HIDE DEF map
  <2> QED
    BY <2>1
<1> HIDE DEF enough, map
<1> QED
  BY <1>1, <1>7, <1>8, <1>9 DEF map
-----------------------------------------------------------------------------
(* Types.                                                                  *)

LEMMA AgeTypes ==
  ASSUME NEW entry \in Entries PROVE Older(entry) \in Entries
<1>1. CASE entry.contact \in Ages \ {-FailoverLag}
  <2>1. entry.contact - 1 \in Ages
    BY <1>1, BoundsAssumption DEF BoundsAssumption, Ages
  <2> QED
    BY <1>1, <2>1 DEF Older, Entries
<1>2. CASE entry.contact \notin Ages \ {-FailoverLag}
  BY <1>2 DEF Older
<1> QED
  BY <1>1, <1>2

LEMMA ReadingType ==
  ASSUME lsn \in [Nodes -> 0..MaxLsn], NEW n \in Nodes PROVE Reading(n) \in Entries
<1>1. 0 \in Ages /\ 0 \in 0..MaxLsn /\ lsn[n] \in 0..MaxLsn
  BY BoundsAssumption DEF BoundsAssumption, Ages
<1> QED
  BY <1>1 DEF Reading, Entries

LEMMA PolledType ==
  ASSUME TypeOK, NEW d \in Daemons, NEW n \in Nodes PROVE Polled(d, n) \in Entries
<1>1. view[d][n] \in Entries /\ Reading(n) \in Entries
  BY ReadingType DEF TypeOK
<1>2. [view[d][n] EXCEPT !.conn = FALSE] \in Entries
  BY <1>1 DEF Entries
<1> QED
  BY <1>1, <1>2 DEF Polled

LEMMA TypeInitial == Init => TypeOK
<1> SUFFICES ASSUME Init PROVE TypeOK
  OBVIOUS
<1>1. lsn \in [Nodes -> 0..MaxLsn]
  BY BoundsAssumption DEF BoundsAssumption, Init
<1>2. view \in [Daemons -> [Nodes -> Entries]]
  BY <1>1, ReadingType DEF Init
<1>3. 0 \in 0..MaxFaults
  BY BoundsAssumption DEF BoundsAssumption
<1> QED
  BY <1>1, <1>2, <1>3, NodesAssumption DEF NodesAssumption, Init, TypeOK

LEMMA TypeStep == ASSUME TypeOK, [Next]_vars PROVE TypeOK'
<1> USE DEF vars, world, daemons, history
<1>1. ASSUME NEW d \in Daemons, Round(d) PROVE TypeOK'
  <2>1. \A n \in Nodes : Polled(d, n) \in Entries
    BY PolledType
  <2>2. view' \in [Daemons -> [Nodes -> Entries]]
    BY <1>1, <2>1 DEF Round, TypeOK
  <2> QED
    BY <1>1, <2>2 DEF Round, TypeOK
<1>2. ASSUME NEW d \in Daemons, NEW n \in Nodes, Poll(d, n) PROVE TypeOK'
  <2>1. Polled(d, n) \in Entries
    BY PolledType
  <2>2. view' \in [Daemons -> [Nodes -> Entries]]
    BY <1>2, <2>1 DEF Poll, TypeOK
  <2>3. unpolled' \in [Daemons -> SUBSET Nodes]
    BY <1>2 DEF Poll, TypeOK
  <2> QED
    BY <1>2, <2>2, <2>3 DEF Poll, TypeOK
<1>3. ASSUME NEW d \in Daemons, Check(d) PROVE TypeOK'
  <2>1. Reached(d) \in SUBSET Nodes
    BY DEF TypeOK, Reached
  <2>2. PICK pick \in Daemon(d)!MasterPicks(Map(d)) :
          /\ currentMaster' = [currentMaster EXCEPT
                ![d] = IF pick.instance = None THEN currentMaster[d] ELSE pick.instance]
          /\ \/ /\ phase' = [phase EXCEPT ![d] = "refreshing"]
                /\ unpolled' = [unpolled EXCEPT ![d] = Nodes]
                /\ steady' = [steady EXCEPT ![d] = Reached(d)]
                /\ raced' = raced \ ({d} \ promoted)
             \/ UNCHANGED <<phase, unpolled, steady, raced>>
    BY <1>3 DEF Check, Refreshed
  <2>3. pick.instance \in Nodes \cup {None}
    BY Picks
  <2>4. currentMaster' \in [Daemons -> Nodes \cup {None}]
    BY <2>2, <2>3 DEF TypeOK
  <2>5. /\ phase' \in [Daemons -> {"idle", "refreshing", "promoting"}]
        /\ unpolled' \in [Daemons -> SUBSET Nodes]
        /\ steady' \in [Daemons -> SUBSET Nodes]
        /\ raced' \subseteq Daemons
    <3>1. CASE UNCHANGED <<phase, unpolled, steady, raced>>
      BY <3>1 DEF TypeOK
    <3>2. CASE ~UNCHANGED <<phase, unpolled, steady, raced>>
      <4>1. /\ phase' = [phase EXCEPT ![d] = "refreshing"]
            /\ unpolled' = [unpolled EXCEPT ![d] = Nodes]
            /\ steady' = [steady EXCEPT ![d] = Reached(d)]
            /\ raced' = raced \ ({d} \ promoted)
        BY <2>2, <3>2
      <4> QED
        BY <2>1, <4>1 DEF TypeOK
    <3> QED
      BY <3>1, <3>2
  <2> QED
    BY <1>3, <2>4, <2>5 DEF Check, TypeOK
<1>4. ASSUME NEW d \in Daemons, Recheck(d) PROVE TypeOK'
  <2>1. /\ phase' \in [Daemons -> {"idle", "refreshing", "promoting"}]
        /\ steady' \in [Daemons -> SUBSET Nodes]
    BY <1>4 DEF Recheck, TypeOK
  <2>2. rivals' \in [Daemons -> SUBSET Nodes]
    <3>1. Known(d) \in SUBSET Nodes
      BY DEF Known, Standbys
    <3>2. rivals' = rivals \/ rivals' = [rivals EXCEPT ![d] = Known(d)]
      BY <1>4, CandidatesKnown DEF Recheck
    <3> QED
      BY <3>1, <3>2 DEF TypeOK
  <2> QED
    BY <1>4, <2>1, <2>2 DEF Recheck, TypeOK
<1>5. ASSUME NEW d \in Daemons, RunFailoverCommand(d) PROVE TypeOK'
  <2>1. /\ phase' \in [Daemons -> {"idle", "refreshing", "promoting"}]
        /\ steady' \in [Daemons -> SUBSET Nodes]
        /\ primary' \subseteq Nodes /\ promoted' \subseteq Daemons
    BY <1>5 DEF RunFailoverCommand, TypeOK
  <2> QED
    BY <1>5, <2>1 DEF RunFailoverCommand, TypeOK
<1>6. ASSUME NEW n \in Nodes, NodeDies(n) PROVE TypeOK'
  <2>1. faults' \in 0..MaxFaults
    BY <1>6, BoundsAssumption DEF BoundsAssumption, NodeDies, TypeOK
  <2>2. steady' \in [Daemons -> SUBSET Nodes]
    BY <1>6 DEF NodeDies, TypeOK
  <2> QED
    BY <1>6, <2>1, <2>2 DEF NodeDies, TypeOK
<1>7. ASSUME NEW n \in Nodes, Replicate(n) PROVE TypeOK'
  <2>1. lsn' \in [Nodes -> 0..MaxLsn]
    BY <1>7, BoundsAssumption DEF BoundsAssumption, Replicate, TypeOK
  <2>2. steady' \in [Daemons -> SUBSET Nodes] /\ raced' \subseteq Daemons
    BY <1>7 DEF Replicate, TypeOK
  <2> QED
    BY <1>7, <2>1, <2>2 DEF Replicate, TypeOK
<1>8. ASSUME NEW parts \in Networks, Partition(parts) PROVE TypeOK'
  <2>1. faults' \in 0..MaxFaults
    BY <1>8, BoundsAssumption DEF BoundsAssumption, Partition, TypeOK
  <2>2. steady' \in [Daemons -> SUBSET Nodes]
    BY <1>8 DEF Partition, TypeOK
  <2> QED
    BY <1>8, <2>1, <2>2 DEF Partition, TypeOK
<1>9. CASE Tick
  <2>1. view' \in [Daemons -> [Nodes -> Entries]]
    BY <1>9, AgeTypes DEF Tick, TypeOK
  <2> QED
    BY <1>9, <2>1 DEF Tick, TypeOK
<1>10. CASE UNCHANGED vars
  BY <1>10 DEF TypeOK
<1> QED
  BY <1>1, <1>2, <1>3, <1>4, <1>5, <1>6, <1>7, <1>8, <1>9, <1>10 DEF Next, DaemonStep

\* Every variable stays within its type: in particular the master a check is told
\* of, current_master, is always a node of the configuration.
THEOREM TypeCorrect == Spec => []TypeOK
  BY TypeInitial, TypeStep, PTL DEF Spec
-----------------------------------------------------------------------------
(* What a step does to what a daemon knows, to its phase, to the databases *)
(* and to the history: each action once, for both invariants below.        *)

LEMMA OlderKeeps ==
  ASSUME NEW entry \in Entries
  PROVE  /\ Older(entry).conn = entry.conn /\ Older(entry).role = entry.role
         /\ Older(entry).lsn = entry.lsn
         /\ entry.contact \in Ages => Older(entry).contact \in Ages
<1>1. CASE entry.contact \in Ages \ {-FailoverLag}
  <2>1. entry.contact - 1 \in Ages
    BY <1>1, BoundsAssumption DEF BoundsAssumption, Ages
  <2>2. Older(entry) = [entry EXCEPT !.contact = entry.contact - 1]
    BY <1>1 DEF Older
  <2> QED
    BY <2>1, <2>2 DEF Entries
<1>2. CASE entry.contact \notin Ages \ {-FailoverLag}
  BY <1>2 DEF Older
<1> QED
  BY <1>1, <1>2

LEMMA PolledKeeps ==
  ASSUME TypeOK, NEW d \in Daemons, NEW n \in Nodes
  PROVE  /\ n \in Reached(d) => Polled(d, n) = Reading(n)
         /\ n \notin Reached(d) => /\ Polled(d, n).conn = FALSE
                                   /\ Polled(d, n).role = view[d][n].role
                                   /\ Polled(d, n).lsn = view[d][n].lsn
                                   /\ Polled(d, n).contact = view[d][n].contact
  BY DEF Polled, TypeOK, Entries

\* An entry stays, or ages, or is what a poll leaves behind.
LEMMA ViewStep ==
  ASSUME TypeOK, [Next]_vars, NEW d \in Daemons, NEW n \in Nodes
  PROVE  \/ /\ view'[d][n] = view[d][n] \/ view'[d][n] = Older(view[d][n])
            /\ n \in unpolled[d] => n \in unpolled'[d]
         \/ /\ view'[d][n] = Polled(d, n)
            /\ UNCHANGED <<alive, primary, lsn, network, phase, promoted, steady, raced>>
<1> USE DEF vars, world, daemons, history, TypeOK
<1>1. ASSUME NEW e \in Daemons, Round(e) PROVE view'[d][n] = view[d][n] \/ view'[d][n] = Polled(d, n)
  BY <1>1 DEF Round
<1>2. ASSUME NEW e \in Daemons, NEW m \in Nodes, Poll(e, m)
      PROVE  \/ view'[d][n] = view[d][n] /\ (n \in unpolled[d] => n \in unpolled'[d])
             \/ view'[d][n] = Polled(d, n)
  <2>1. CASE e = d /\ m = n
    BY <1>2, <2>1 DEF Poll
  <2>2. CASE e = d /\ m # n
    BY <1>2, <2>2 DEF Poll
  <2>3. CASE e # d
    BY <1>2, <2>3 DEF Poll
  <2> QED
    BY <2>1, <2>2, <2>3
<1>3. ASSUME NEW e \in Daemons, Check(e)
      PROVE  view'[d][n] = view[d][n] /\ (n \in unpolled[d] => n \in unpolled'[d])
  <2>1. view' = view /\ (unpolled' = unpolled \/ unpolled' = [unpolled EXCEPT ![e] = Nodes])
    BY <1>3 DEF Check, Refreshed
  <2> QED
    BY <2>1
<1>4. CASE Tick
  BY <1>4 DEF Tick
<1>5. ASSUME NEW e \in Daemons, Recheck(e) \/ RunFailoverCommand(e)
      PROVE  view' = view /\ unpolled' = unpolled
  BY <1>5 DEF Recheck, RunFailoverCommand
<1>6. ASSUME NEW m \in Nodes, NodeDies(m) \/ Replicate(m) PROVE view' = view /\ unpolled' = unpolled
  BY <1>6 DEF NodeDies, Replicate
<1>7. ASSUME NEW parts \in Networks, Partition(parts) PROVE view' = view /\ unpolled' = unpolled
  BY <1>7 DEF Partition
<1>8. ASSUME NEW e \in Daemons, Round(e) \/ \E m \in Nodes : Poll(e, m)
      PROVE  UNCHANGED <<alive, primary, lsn, network, phase, promoted, steady, raced>>
  BY <1>8 DEF Round, Poll
<1>9. ASSUME NEW e \in Daemons, Round(e) PROVE unpolled' = unpolled
  BY <1>9 DEF Round
<1>10. CASE UNCHANGED vars
  BY <1>10
<1>11. CASE \E e \in Daemons : DaemonStep(e)
  BY <1>1, <1>2, <1>3, <1>5, <1>8, <1>9, <1>11 DEF DaemonStep
<1> QED
  BY <1>4, <1>6, <1>7, <1>10, <1>11 DEF Next, Tick

\* A daemon starts refreshing with nobody polled, and promotes itself by its
\* decision once everybody is.
LEMMA PhaseStep ==
  ASSUME TypeOK, [Next]_vars, NEW d \in Daemons
  PROVE  /\ phase'[d] = "refreshing" =>
              phase[d] = "refreshing" \/ (phase[d] = "idle" /\ unpolled'[d] = Nodes)
         /\ phase'[d] = "promoting" /\ phase[d] # "promoting" =>
              /\ phase[d] = "refreshing" /\ unpolled[d] = {}
              /\ \E pick : Promotes(d, pick)
              /\ UNCHANGED <<world, view, unpolled, promoted, raced>>
              /\ rivals' = [rivals EXCEPT ![d] = Known(d)]
<1> USE DEF vars, world, daemons, history, TypeOK
<1>1. ASSUME NEW e \in Daemons, Round(e) \/ (\E n \in Nodes : Poll(e, n)) PROVE phase' = phase
  BY <1>1 DEF Round, Poll
<1>2. ASSUME NEW e \in Daemons, Check(e)
      PROVE  phase' = phase \/ (phase[e] = "idle" /\ phase' = [phase EXCEPT ![e] = "refreshing"]
                                /\ unpolled' = [unpolled EXCEPT ![e] = Nodes])
  BY <1>2 DEF Check, Refreshed
<1>3. ASSUME NEW e \in Daemons, Recheck(e)
      PROVE  \/ phase' = [phase EXCEPT ![e] = "idle"]
             \/ /\ phase' = [phase EXCEPT ![e] = "promoting"]
                /\ phase[e] = "refreshing" /\ unpolled[e] = {}
                /\ \E pick : Promotes(e, pick)
                /\ UNCHANGED <<world, view, unpolled, promoted, raced>>
                /\ rivals' = [rivals EXCEPT ![e] = Known(e)]
  BY <1>3, CandidatesKnown DEF Recheck
<1>4. ASSUME NEW e \in Daemons, RunFailoverCommand(e) PROVE phase' = [phase EXCEPT ![e] = "idle"]
  BY <1>4 DEF RunFailoverCommand
<1>5. ASSUME NEW n \in Nodes, NodeDies(n) \/ Replicate(n) PROVE phase' = phase
  BY <1>5 DEF NodeDies, Replicate
<1>6. ASSUME NEW parts \in Networks, Partition(parts) PROVE phase' = phase
  BY <1>6 DEF Partition
<1>7. CASE Tick \/ UNCHANGED vars
  BY <1>7 DEF Tick
<1>8. CASE \E e \in Daemons : DaemonStep(e)
  <2>1. PICK e \in Daemons : DaemonStep(e)
    BY <1>8
  <2>2. CASE Check(e)
    BY <1>2, <2>2
  <2>3. CASE Recheck(e)
    BY <1>3, <2>3
  <2>4. CASE RunFailoverCommand(e)
    BY <1>4, <2>4
  <2>5. CASE Round(e) \/ \E n \in Nodes : Poll(e, n)
    BY <1>1, <2>5
  <2> QED
    BY <2>1, <2>2, <2>3, <2>4, <2>5 DEF DaemonStep
<1> QED
  BY <1>5, <1>6, <1>7, <1>8 DEF Next

\* Only a decision to promote itself changes whom a daemon has compared.
LEMMA RivalsStep ==
  ASSUME TypeOK, [Next]_vars
  PROVE  \/ rivals' = rivals
         \/ \E e \in Daemons : /\ phase[e] = "refreshing" /\ unpolled[e] = {}
                               /\ \E pick : Promotes(e, pick)
                               /\ rivals' = [rivals EXCEPT ![e] = Known(e)]
<1> USE DEF vars, world, daemons, history
<1>1. ASSUME NEW e \in Daemons, DaemonStep(e), ~Recheck(e) PROVE rivals' = rivals
  BY <1>1 DEF DaemonStep, Round, Poll, Check, RunFailoverCommand
<1>2. ASSUME NEW e \in Daemons, Recheck(e)
      PROVE  \/ rivals' = rivals
             \/ /\ phase[e] = "refreshing" /\ unpolled[e] = {}
                /\ \E pick : Promotes(e, pick)
                /\ rivals' = [rivals EXCEPT ![e] = Known(e)]
  BY <1>2, CandidatesKnown DEF Recheck
<1>3. ASSUME NEW n \in Nodes, NodeDies(n) \/ Replicate(n) PROVE rivals' = rivals
  BY <1>3 DEF NodeDies, Replicate
<1>4. ASSUME NEW parts \in Networks, Partition(parts) PROVE rivals' = rivals
  BY <1>4 DEF Partition
<1>5. CASE Tick \/ UNCHANGED vars
  BY <1>5 DEF Tick
<1> QED
  BY <1>1, <1>2, <1>3, <1>4, <1>5 DEF Next

\* A promotion is for good.
LEMMA PrimaryStays ==
  ASSUME [Next]_vars PROVE primary \subseteq primary'
<1> USE DEF vars, world, daemons, history
<1>1. ASSUME NEW d \in Daemons, DaemonStep(d) PROVE primary \subseteq primary'
  BY <1>1 DEF DaemonStep, Round, Poll, Check, Recheck, RunFailoverCommand
<1>2. ASSUME NEW n \in Nodes, NodeDies(n) \/ Replicate(n) PROVE primary' = primary
  BY <1>2 DEF NodeDies, Replicate
<1>3. ASSUME NEW parts \in Networks, Partition(parts) PROVE primary' = primary
  BY <1>3 DEF Partition
<1>4. CASE Tick \/ UNCHANGED vars
  BY <1>4 DEF Tick
<1> QED
  BY <1>1, <1>2, <1>3, <1>4 DEF Next

\* Positions only grow.
LEMMA PositionsGrow ==
  ASSUME TypeOK, [Next]_vars, NEW n \in Nodes
  PROVE  lsn[n] \in Nat /\ lsn'[n] \in Nat /\ lsn[n] <= lsn'[n]
<1> USE DEF vars, world, daemons, history
<1>1. lsn[n] \in Nat
  BY BoundsAssumption DEF BoundsAssumption, TypeOK
<1>2. lsn' = lsn \/ \E m \in Nodes : lsn' = [lsn EXCEPT ![m] = lsn[m] + 1]
  <2>1. ASSUME NEW d \in Daemons, DaemonStep(d) PROVE lsn' = lsn
    BY <2>1 DEF DaemonStep, Round, Poll, Check, Recheck, RunFailoverCommand
  <2>2. ASSUME NEW m \in Nodes, NodeDies(m) \/ Replicate(m)
        PROVE  lsn' = lsn \/ lsn' = [lsn EXCEPT ![m] = lsn[m] + 1]
    BY <2>2 DEF NodeDies, Replicate
  <2>3. ASSUME NEW parts \in Networks, Partition(parts) PROVE lsn' = lsn
    BY <2>3 DEF Partition
  <2>4. CASE Tick \/ UNCHANGED vars
    BY <2>4 DEF Tick
  <2> QED
    BY <2>1, <2>2, <2>3, <2>4 DEF Next
<1> QED
  BY <1>1, <1>2 DEF TypeOK

\* A node that a daemon has been able to reach all along has neither changed
\* position nor promoted itself, and is still there; or the request is this step.
LEMMA SteadyStep ==
  ASSUME TypeOK, [Next]_vars, NEW d \in Daemons, NEW n \in steady'[d]
  PROVE  \/ /\ n \in steady[d]
            /\ lsn'[n] = lsn[n]
            /\ n \in primary' => n \in primary
            /\ n \in alive => n \in alive'
            /\ network[n] = network[d] => network'[n] = network'[d]
         \/ /\ n \in Reached(d) /\ UNCHANGED world
            /\ phase'[d] = "refreshing" /\ unpolled'[d] = Nodes
<1> USE DEF vars, world, daemons, history, TypeOK
<1>1. ASSUME NEW e \in Daemons, Round(e) \/ (\E m \in Nodes : Poll(e, m))
      PROVE  UNCHANGED <<world, steady>>
  BY <1>1 DEF Round, Poll
<1>2. ASSUME NEW e \in Daemons, Check(e)
      PROVE  UNCHANGED <<world, steady>> \/ ( /\ UNCHANGED world
                                              /\ phase' = [phase EXCEPT ![e] = "refreshing"]
                                              /\ unpolled' = [unpolled EXCEPT ![e] = Nodes]
                                              /\ steady' = [steady EXCEPT ![e] = Reached(e)])
  BY <1>2 DEF Check, Refreshed
<1>3. ASSUME NEW e \in Daemons, Recheck(e)
      PROVE  UNCHANGED world /\ (steady' = steady \/ steady' = [steady EXCEPT ![e] = {}])
  BY <1>3 DEF Recheck
<1>4. ASSUME NEW e \in Daemons, RunFailoverCommand(e)
      PROVE  /\ UNCHANGED <<alive, lsn, network>> /\ primary' \subseteq primary \cup {e}
             /\ n \in steady[d] /\ n # e
  BY <1>4 DEF RunFailoverCommand
<1>5. ASSUME NEW m \in Nodes, NodeDies(m)
      PROVE  UNCHANGED <<primary, lsn, network>> /\ alive' = alive \ {m} /\ n \in steady[d] /\ n # m
  BY <1>5 DEF NodeDies
<1>6. ASSUME NEW m \in Nodes, Replicate(m)
      PROVE  /\ UNCHANGED <<alive, primary, network>>
             /\ lsn' = [lsn EXCEPT ![m] = lsn[m] + 1] /\ n \in steady[d] /\ n # m
  BY <1>6 DEF Replicate
<1>7. ASSUME NEW parts \in Networks, Partition(parts)
      PROVE  /\ UNCHANGED <<alive, primary, lsn>> /\ network' = parts
             /\ n \in steady[d] /\ parts[n] = parts[d]
  BY <1>7 DEF Partition
<1>8. CASE Tick \/ UNCHANGED vars
  BY <1>8 DEF Tick
<1>9. CASE \E e \in Daemons : DaemonStep(e)
  <2>1. PICK e \in Daemons : DaemonStep(e)
    BY <1>9
  <2>2. CASE Check(e)
    BY <1>2, <2>2
  <2>3. CASE Recheck(e)
    BY <1>3, <2>3
  <2>4. CASE RunFailoverCommand(e)
    BY <1>4, <2>4
  <2>5. CASE Round(e) \/ \E m \in Nodes : Poll(e, m)
    BY <1>1, <2>5
  <2> QED
    BY <2>1, <2>2, <2>3, <2>4, <2>5 DEF DaemonStep
<1>10. CASE \E m \in Nodes : NodeDies(m) \/ Replicate(m)
  BY <1>5, <1>6, <1>10
<1> QED
  BY <1>7, <1>8, <1>9, <1>10 DEF Next

-----------------------------------------------------------------------------
(* No laggard is promoted.                                                 *)

\* What makes it inductive: a steady node is within reach; a refreshing daemon
\* that has polled a steady standby knows its position; and nobody is believed
\* to be further than it is.
LagInv ==
  /\ TypeOK
  /\ \A d \in Daemons : steady[d] \subseteq Reached(d)
  /\ \A d \in Daemons : phase[d] = "refreshing" =>
       \A n \in (steady[d] \ unpolled[d]) \ primary :
         n \in Known(d) /\ view[d][n].lsn = lsn[n]
  /\ \A d \in Daemons : \A n \in Nodes : view[d][n].lsn <= lsn[n]
  /\ NoLaggardPromoted

LEMMA LagInitial == Init => LagInv
<1> SUFFICES ASSUME Init PROVE LagInv
  OBVIOUS
<1>1. TypeOK
  BY TypeInitial
<1>2. \A d \in Daemons : steady[d] = {} /\ phase[d] = "idle"
  BY DEF Init
<1>3. ASSUME NEW d \in Daemons, NEW n \in Nodes PROVE view[d][n].lsn <= lsn[n]
  <2>1. view[d][n] = Reading(n)
    BY DEF Init
  <2>2. lsn[n] \in Nat
    BY <1>1, BoundsAssumption DEF BoundsAssumption, TypeOK
  <2> QED
    BY <2>1, <2>2 DEF Reading
<1> QED
  BY <1>1, <1>2, <1>3 DEF LagInv, NoLaggardPromoted

LEMMA LagStep == ASSUME LagInv, [Next]_vars PROVE LagInv'
<1> USE DEF LagInv
<1>1. TypeOK'
  BY TypeStep
<1>2. ASSUME NEW d \in Daemons, NEW n \in steady'[d] PROVE n \in Reached(d)'
  <2>1. n \in Reached(d)
    BY SteadyStep
  <2> QED
    BY <2>1, SteadyStep DEF Reached, world
<1>3. ASSUME NEW d \in Daemons, NEW n \in Nodes PROVE view'[d][n].lsn <= lsn'[n]
  <2>1. view[d][n] \in Entries /\ view[d][n].lsn \in Nat
    BY BoundsAssumption DEF BoundsAssumption, TypeOK, Entries
  <2>2. lsn[n] \in Nat /\ lsn'[n] \in Nat /\ lsn[n] <= lsn'[n]
    BY PositionsGrow
  <2>3. view[d][n].lsn <= lsn[n]
    OBVIOUS
  <2>4. Older(view[d][n]).lsn = view[d][n].lsn
    BY <2>1, OlderKeeps
  <2>5. Polled(d, n).lsn \in {view[d][n].lsn, lsn[n], 0}
    <3>1. Reading(n).lsn = lsn[n] \/ Reading(n).lsn = 0
      BY DEF Reading
    <3>2. Polled(d, n) = Reading(n) \/ Polled(d, n).lsn = view[d][n].lsn
      BY PolledKeeps
    <3> QED
      BY <3>1, <3>2
  <2>6. view'[d][n].lsn \in {view[d][n].lsn, lsn[n], 0}
    BY <2>4, <2>5, ViewStep
  <2> QED
    BY <2>1, <2>2, <2>3, <2>6
<1>4. ASSUME NEW d \in Daemons, phase'[d] = "refreshing",
             NEW n \in (steady'[d] \ unpolled'[d]) \ primary'
      PROVE  n \in Known(d)' /\ view'[d][n].lsn = lsn'[n]
  <2>1. n \in Nodes
    BY <1>1 DEF TypeOK
  <2>2. phase[d] = "refreshing" /\ unpolled'[d] # Nodes
    BY <1>4, <2>1, PhaseStep
  <2>3. n \in steady[d] /\ lsn'[n] = lsn[n]
    BY <2>2, SteadyStep
  <2>4. CASE /\ view'[d][n] = view[d][n] \/ view'[d][n] = Older(view[d][n])
             /\ n \in unpolled[d] => n \in unpolled'[d]
    <3>1. n \notin primary
      BY PrimaryStays
    <3>2. n \in Known(d) /\ view[d][n].lsn = lsn[n]
      BY <2>2, <2>3, <2>4, <3>1
    <3>3. view[d][n] \in Entries
      BY <2>1 DEF TypeOK
    <3>4. view'[d][n].conn = view[d][n].conn /\ view'[d][n].role = view[d][n].role
            /\ view'[d][n].lsn = view[d][n].lsn
      BY <2>4, <3>3, OlderKeeps
    <3> QED
      BY <2>1, <2>3, <3>2, <3>4 DEF Known, Standbys
  <2>5. CASE view'[d][n] = Polled(d, n) /\ UNCHANGED <<primary, lsn>>
    <3>1. n \in Reached(d)
      BY <2>3
    <3>2. view'[d][n] = Reading(n) /\ n \notin primary
      BY <2>1, <2>5, <3>1, PolledKeeps
    <3> QED
      BY <2>1, <2>5, <3>2 DEF Reading, Known, Standbys
  <2> QED
    BY <2>1, <2>4, <2>5, ViewStep
<1>5. ASSUME NEW d \in Daemons, phase'[d] = "promoting", NEW n \in steady'[d] \ primary'
      PROVE  lsn'[n] < lsn'[d] \/ (lsn'[n] = lsn'[d] /\ n <= d)
  <2>1. n \in Nodes /\ d \in Nodes
    BY <1>1, NodesAssumption DEF NodesAssumption, TypeOK
  <2>2. n \in steady[d] /\ lsn'[n] = lsn[n] /\ n \notin primary
    BY <1>5, SteadyStep, PrimaryStays
  <2>3. lsn[n] \in Nat /\ lsn[d] \in Nat /\ lsn'[d] \in Nat /\ lsn[d] <= lsn'[d]
    BY <2>1, PositionsGrow
  <2>4. lsn[n] < lsn[d] \/ (lsn[n] = lsn[d] /\ n <= d)
    <3>1. CASE phase[d] = "promoting"
      BY <2>2, <3>1 DEF NoLaggardPromoted
    <3>2. CASE phase[d] # "promoting"
      <4>1. phase[d] = "refreshing" /\ unpolled[d] = {} /\ \E pick : Promotes(d, pick)
        BY <1>5, <3>2, PhaseStep
      <4>2. n \in Known(d) /\ view[d][n].lsn = lsn[n]
        BY <2>2, <4>1
      <4>3. SeesBehind(d, n)
        BY <4>1, <4>2, Decision
      <4>4. view[d][d].lsn <= lsn[d] /\ view[d][d].lsn \in Nat
        BY <2>1, BoundsAssumption DEF BoundsAssumption, TypeOK, Entries
      <4> QED
        BY <2>3, <4>2, <4>3, <4>4 DEF SeesBehind
    <3> QED
      BY <3>1, <3>2
  <2> QED
    BY <2>2, <2>3, <2>4
<1>6. NoLaggardPromoted'
  BY <1>5 DEF NoLaggardPromoted
<1> QED
  BY <1>1, <1>2, <1>3, <1>4, <1>6

\* pglookout.py:588-653: the instance never promotes itself over a standby that
\* it could reach all along and that holds more WAL, or as much and a higher
\* name; whatever the others do, and however the network is cut.
THEOREM LaggardsWait == Spec => []NoLaggardPromoted
<1>1. LagInv => NoLaggardPromoted
  BY DEF LagInv
<1> QED
  BY LagInitial, LagStep, <1>1, PTL DEF Spec

-----------------------------------------------------------------------------
(* One successor among any two that compared themselves with each other.   *)

\* A primary is the first one or promoted itself; who promoted itself and is
\* alive is one; and daemons know primaries for what they are, in the end.
Roles ==
  /\ InitPrimary \in primary /\ primary \subseteq {InitPrimary} \cup promoted
  /\ promoted \cap alive \subseteq primary
  /\ \A d \in Daemons : /\ view[d][InitPrimary].role = "primary"
                        /\ \A n \in Nodes : \/ n \in Standbys(d)
                                            \/ /\ view[d][n].role = "primary" /\ n \in primary
                                               /\ view[d][n].contact \in Ages

\* Nobody promotes itself a second time.
OnlyOnce ==
  \A d \in Daemons :
    /\ phase[d] = "promoting" => d \notin primary \cup promoted
    /\ phase[d] = "refreshing" /\ d \in (primary \cup promoted) \ unpolled[d] => d \notin Known(d)

\* The positions that a daemon has polled are right, unless it was overtaken.
Current ==
  \A d \in Daemons \ raced : phase[d] # "idle" =>
    \A n \in Known(d) \ unpolled[d] : view[d][n].lsn = lsn[n]

\* Who promotes itself outranks all those it compared itself with.
Ahead ==
  \A d \in Daemons \ raced : phase[d] = "promoting" => \A n \in rivals[d] : Outranks(d, n)

\* A daemon that still takes for a standby who has promoted itself, is outranked
\* if it was one of those the other compared itself with.
Outranked ==
  \A d \in Daemons \ (raced \cup primary \cup promoted) : phase[d] = "refreshing" =>
    \A e \in (Known(d) \cap promoted) \ (raced \cup unpolled[d] \cup {d}) :
      d \in rivals[e] => Outranks(e, d)

SuccessorInv == TypeOK /\ Roles /\ OnlyOnce /\ Current /\ Ahead /\ Outranked /\ RivalsAgree

\* Only failover_command changes who is a primary, or has promoted itself.
LEMMA PromotedStep ==
  ASSUME TypeOK, [Next]_vars
  PROVE  \/ UNCHANGED <<primary, promoted>> /\ alive' \subseteq alive
         \/ \E e \in Daemons :
              /\ phase[e] = "promoting" /\ phase' = [phase EXCEPT ![e] = "idle"]
              /\ primary' = (IF e \in alive THEN primary \cup {e} ELSE primary)
              /\ promoted' = promoted \cup {e}
              /\ UNCHANGED <<alive, lsn, network, view, unpolled, raced>>
<1> USE DEF vars, world, daemons, history
<1>1. ASSUME NEW d \in Daemons, DaemonStep(d), ~RunFailoverCommand(d)
      PROVE  UNCHANGED <<alive, primary, promoted>>
  BY <1>1 DEF DaemonStep, Round, Poll, Check, Recheck
<1>2. ASSUME NEW d \in Daemons, RunFailoverCommand(d)
      PROVE  /\ phase[d] = "promoting" /\ phase' = [phase EXCEPT ![d] = "idle"]
             /\ primary' = (IF d \in alive THEN primary \cup {d} ELSE primary)
             /\ promoted' = promoted \cup {d}
             /\ UNCHANGED <<alive, lsn, network, view, unpolled, raced>>
  BY <1>2 DEF RunFailoverCommand
<1>3. ASSUME NEW n \in Nodes, NodeDies(n) \/ Replicate(n)
      PROVE  UNCHANGED <<primary, promoted>> /\ alive' \subseteq alive
  BY <1>3 DEF NodeDies, Replicate
<1>4. ASSUME NEW parts \in Networks, Partition(parts) PROVE UNCHANGED <<alive, primary, promoted>>
  BY <1>4 DEF Partition
<1>5. CASE Tick \/ UNCHANGED vars
  BY <1>5 DEF Tick
<1> QED
  BY <1>1, <1>2, <1>3, <1>4, <1>5 DEF Next

\* As long as a daemon is not overtaken, no position changes while it decides;
\* and that it was overtaken before it promoted itself is not forgotten.
LEMMA RacedStep ==
  ASSUME TypeOK, [Next]_vars, NEW d \in Daemons, d \notin raced'
  PROVE  /\ phase[d] # "idle" => d \notin raced /\ lsn' = lsn
         /\ d \in promoted => d \notin raced
<1> USE DEF vars, world, daemons, history
<1>1. ASSUME NEW e \in Daemons, Round(e) \/ (\E n \in Nodes : Poll(e, n)) \/ Recheck(e) \/ RunFailoverCommand(e)
      PROVE  UNCHANGED <<lsn, raced>>
  BY <1>1 DEF Round, Poll, Recheck, RunFailoverCommand
<1>2. ASSUME NEW e \in Daemons, Check(e)
      PROVE  lsn' = lsn /\ phase[e] = "idle" /\ (raced' = raced \/ raced' = raced \ ({e} \ promoted))
  BY <1>2 DEF Check
<1>3. ASSUME NEW n \in Nodes, Replicate(n)
      PROVE  raced' = raced \cup {e \in Daemons : phase[e] # "idle"}
  BY <1>3 DEF Replicate
<1>4. ASSUME NEW n \in Nodes, NodeDies(n) PROVE UNCHANGED <<lsn, raced>>
  BY <1>4 DEF NodeDies
<1>5. ASSUME NEW parts \in Networks, Partition(parts) PROVE UNCHANGED <<lsn, raced>>
  BY <1>5 DEF Partition
<1>6. CASE Tick \/ UNCHANGED vars
  BY <1>6 DEF Tick
<1>7. CASE \E e \in Daemons : DaemonStep(e)
  BY <1>1, <1>2, <1>7 DEF DaemonStep
<1> QED
  BY <1>3, <1>4, <1>5, <1>6, <1>7 DEF Next

LEMMA SuccessorInitial == Init => SuccessorInv
<1> SUFFICES ASSUME Init PROVE SuccessorInv
  OBVIOUS
<1>1. TypeOK
  BY TypeInitial
<1>2. Roles
  <2>1. \A d \in Daemons : \A n \in Nodes : view[d][n] = Reading(n)
    BY DEF Init
  <2>2. 0 \in Ages
    BY BoundsAssumption DEF BoundsAssumption, Ages
  <2>3. InitPrimary \in Nodes /\ primary = {InitPrimary} /\ promoted = {}
    BY NodesAssumption DEF NodesAssumption, Init
  <2>4. ASSUME NEW n \in Nodes
        PROVE  IF n \in primary THEN Reading(n).role = "primary" /\ Reading(n).contact \in Ages
               ELSE Reading(n).role = "standby"
    BY <2>2 DEF Reading
  <2> QED
    BY <2>1, <2>3, <2>4 DEF Roles, Standbys
<1>3. \A d \in Daemons : phase[d] = "idle"
  BY DEF Init
<1> QED
  BY <1>1, <1>2, <1>3 DEF SuccessorInv, OnlyOnce, Current, Ahead, Outranked, RivalsAgree

\* What became of an entry, when roles are as they should be.
LEMMA EntryStep ==
  ASSUME TypeOK, Roles, [Next]_vars, NEW d \in Daemons, NEW n \in Nodes
  PROVE  \/ /\ view'[d][n].role = view[d][n].role /\ view'[d][n].lsn = view[d][n].lsn
            /\ view[d][n].contact \in Ages => view'[d][n].contact \in Ages
            /\ \/ /\ view'[d][n].conn = view[d][n].conn
                  /\ n \in unpolled[d] => n \in unpolled'[d]
               \/ view'[d][n].conn = FALSE
         \/ /\ n \in alive /\ view'[d][n] = Reading(n)
            /\ UNCHANGED <<alive, primary, lsn, network, phase, promoted, steady, raced>>
<1>1. view[d][n] \in Entries
  BY DEF TypeOK
<1>2. CASE /\ view'[d][n] = view[d][n] \/ view'[d][n] = Older(view[d][n])
           /\ n \in unpolled[d] => n \in unpolled'[d]
  BY <1>1, <1>2, OlderKeeps
<1>3. CASE /\ view'[d][n] = Polled(d, n)
           /\ UNCHANGED <<alive, primary, lsn, network, phase, promoted, steady, raced>>
  <2>1. CASE n \in Reached(d)
    BY <1>3, <2>1, PolledKeeps DEF Reached
  <2>2. CASE n \notin Reached(d)
    BY <1>3, <2>2, PolledKeeps
  <2> QED
    BY <2>1, <2>2
<1> QED
  BY <1>2, <1>3, ViewStep

LEMMA ReadingRole ==
  ASSUME NEW n
  PROVE  /\ n \in primary => Reading(n).role = "primary" /\ Reading(n).contact \in Ages
         /\ n \notin primary => Reading(n).role = "standby" /\ Reading(n).lsn = lsn[n]
<1>1. 0 \in Ages
  BY BoundsAssumption DEF BoundsAssumption, Ages
<1> QED
  BY <1>1 DEF Reading

LEMMA RolesStep == ASSUME TypeOK, Roles, [Next]_vars PROVE Roles'
<1>1. TypeOK'
  BY TypeStep
<1>2. InitPrimary \in primary'
  BY PrimaryStays DEF Roles
<1>3. primary' \subseteq {InitPrimary} \cup promoted' /\ promoted' \cap alive' \subseteq primary'
  BY PromotedStep DEF Roles
<1>4. ASSUME NEW d \in Daemons, NEW n \in Nodes
      PROVE  \/ view'[d][n].role = "standby"
             \/ /\ view'[d][n].role = "primary" /\ n \in primary'
                /\ view'[d][n].contact \in Ages
  <2>1. \/ view[d][n].role = "standby"
        \/ view[d][n].role = "primary" /\ n \in primary /\ view[d][n].contact \in Ages
    BY DEF Roles, Standbys
  <2> QED
    BY <2>1, EntryStep, ReadingRole, PrimaryStays
<1>5. ASSUME NEW d \in Daemons PROVE view'[d][InitPrimary].role = "primary"
  <2>1. InitPrimary \in Nodes /\ InitPrimary \in primary /\ view[d][InitPrimary].role = "primary"
    BY NodesAssumption DEF NodesAssumption, Roles
  <2> QED
    BY <2>1, EntryStep, ReadingRole
<1>6. ASSUME NEW d \in Daemons, NEW n \in Nodes
      PROVE  n \in Standbys(d)' <=> view'[d][n].role = "standby"
  BY DEF Standbys
<1> QED
  BY <1>2, <1>3, <1>4, <1>5, <1>6 DEF Roles

\* Who is known to be a primary stays known to be one.
LEMMA PrimaryKnown ==
  ASSUME TypeOK, Roles, [Next]_vars, NEW d \in Daemons, NEW n \in Nodes, view[d][n].role = "primary"
  PROVE  view'[d][n].role = "primary"
<1>1. n \in primary
  BY DEF Roles, Standbys
<1> QED
  BY <1>1, EntryStep, ReadingRole

\* A reachable standby that has been polled was known before or is read now.
LEMMA KnownStep ==
  ASSUME TypeOK, Roles, [Next]_vars, NEW d \in Daemons, NEW n \in Known(d)' \ unpolled'[d]
  PROVE  /\ n \in Nodes
         /\ \/ n \in Known(d) \ unpolled[d] /\ view'[d][n].lsn = view[d][n].lsn
            \/ /\ n \in alive /\ n \notin primary /\ view'[d][n].lsn = lsn[n]
               /\ UNCHANGED <<alive, primary, lsn, network, phase, promoted, raced>>
<1>1. n \in Nodes /\ view'[d][n].role = "standby" /\ view'[d][n].conn
  BY DEF Known, Standbys
<1>2. CASE /\ view'[d][n].role = view[d][n].role /\ view'[d][n].lsn = view[d][n].lsn
           /\ view'[d][n].conn = view[d][n].conn
           /\ n \in unpolled[d] => n \in unpolled'[d]
  BY <1>1, <1>2 DEF Known, Standbys
<1>3. CASE /\ n \in alive /\ view'[d][n] = Reading(n)
           /\ UNCHANGED <<alive, primary, lsn, network, phase, promoted, raced>>
  BY <1>1, <1>3, ReadingRole
<1>4. view'[d][n].conn # FALSE
  BY <1>1
<1> QED
  BY <1>1, <1>2, <1>3, <1>4, EntryStep

\* A daemon that is refreshing began with nobody polled.
LEMMA RefreshingStep ==
  ASSUME TypeOK, [Next]_vars, NEW d \in Daemons, phase'[d] # "idle", NEW n \in Nodes \ unpolled'[d]
  PROVE  phase[d] # "idle" /\ (phase'[d] = "refreshing" => phase[d] = "refreshing")
<1>1. phase'[d] \in {"refreshing", "promoting"} /\ phase[d] \in {"idle", "refreshing", "promoting"}
  BY TypeStep DEF TypeOK
<1> QED
  BY <1>1, PhaseStep

\* Who has been compared is settled with the decision, of which there is one.
LEMMA RivalsStay ==
  ASSUME SuccessorInv, [Next]_vars, NEW d \in Daemons, phase[d] = "promoting" \/ d \in promoted
  PROVE  rivals'[d] = rivals[d]
<1> USE DEF SuccessorInv
<1>1. rivals' = rivals \/ \E e \in Daemons : /\ phase[e] = "refreshing" /\ unpolled[e] = {}
                                           /\ \E pick : Promotes(e, pick)
                                           /\ rivals' = [rivals EXCEPT ![e] = Known(e)]
  BY RivalsStep
<1>2. ASSUME NEW e \in Daemons, phase[e] = "refreshing", unpolled[e] = {}, \E pick : Promotes(e, pick)
      PROVE  e # d
  BY <1>2, Decision DEF OnlyOnce
<1> QED
  BY <1>1, <1>2 DEF TypeOK

LEMMA OnlyOnceStep == ASSUME SuccessorInv, [Next]_vars PROVE OnlyOnce'
<1> USE DEF SuccessorInv
<1>1. ASSUME NEW d \in Daemons, phase'[d] = "promoting" PROVE d \notin primary' \cup promoted'
  <2>1. CASE phase[d] = "promoting"
    <3>1. d \notin primary \cup promoted
      BY <2>1 DEF OnlyOnce
    <3>2. \A e \in Daemons : phase' = [phase EXCEPT ![e] = "idle"] => e # d
      BY <1>1 DEF TypeOK
    <3> QED
      BY <3>1, <3>2, PromotedStep
  <2>2. CASE phase[d] # "promoting"
    <3>1. /\ phase[d] = "refreshing" /\ unpolled[d] = {} /\ UNCHANGED <<primary, promoted>>
          /\ \E pick : Promotes(d, pick)
      BY <1>1, <2>2, PhaseStep DEF world
    <3>2. d \in Known(d)
      BY <3>1, Decision
    <3> QED
      BY <3>1, <3>2 DEF OnlyOnce
  <2> QED
    BY <2>1, <2>2
<1>2. ASSUME NEW d \in Daemons, phase'[d] = "refreshing",
             d \in (primary' \cup promoted') \ unpolled'[d], d \in Known(d)'
      PROVE  FALSE
  <2>1. phase[d] = "refreshing"
    BY <1>2, RefreshingStep, NodesAssumption DEF NodesAssumption
  <2>2. d \in primary \cup promoted
    BY <1>2, <2>1, PromotedStep
  <2>3. CASE d \in Known(d) \ unpolled[d]
    BY <2>1, <2>2, <2>3 DEF OnlyOnce
  <2>4. CASE d \in alive /\ d \notin primary
    BY <2>2, <2>4 DEF Roles
  <2> QED
    BY <1>2, <2>3, <2>4, KnownStep
<1> QED
  BY <1>1, <1>2 DEF OnlyOnce

LEMMA CurrentStep == ASSUME SuccessorInv, [Next]_vars PROVE Current'
<1> USE DEF SuccessorInv
<1> SUFFICES ASSUME NEW d \in Daemons \ raced', phase'[d] # "idle", NEW n \in Known(d)' \ unpolled'[d]
             PROVE  view'[d][n].lsn = lsn'[n]
  BY DEF Current
<1>1. n \in Nodes
  BY KnownStep
<1>2. phase[d] # "idle" /\ d \notin raced /\ lsn' = lsn
  BY <1>1, RefreshingStep, RacedStep
<1> QED
  BY <1>2, KnownStep DEF Current

LEMMA AheadStep == ASSUME SuccessorInv, [Next]_vars PROVE Ahead'
<1> USE DEF SuccessorInv
<1> SUFFICES ASSUME NEW d \in Daemons \ raced', phase'[d] = "promoting", NEW n \in rivals'[d]
             PROVE  lsn'[n] < lsn'[d] \/ (lsn'[n] = lsn'[d] /\ n <= d)
  BY DEF Ahead, Outranks
<1>1. CASE phase[d] = "promoting"
  <2>1. d \notin raced /\ lsn' = lsn
    BY <1>1, RacedStep
  <2>2. Outranks(d, n)
    BY <1>1, <2>1, RivalsStay DEF Ahead
  <2> QED
    BY <2>1, <2>2 DEF Outranks
<1>2. CASE phase[d] # "promoting"
  <2>1. /\ phase[d] = "refreshing" /\ unpolled[d] = {} /\ UNCHANGED <<lsn, raced>>
        /\ \E pick : Promotes(d, pick)
        /\ rivals' = [rivals EXCEPT ![d] = Known(d)]
    BY <1>2, PhaseStep DEF world
  <2>2. n \in Known(d)
    BY <2>1 DEF TypeOK
  <2>3. d \in Known(d) /\ SeesBehind(d, n)
    BY <2>1, <2>2, Decision
  <2>4. view[d][n].lsn = lsn[n] /\ view[d][d].lsn = lsn[d]
    BY <2>1, <2>2, <2>3 DEF Current
  <2> QED
    BY <2>1, <2>3, <2>4 DEF SeesBehind
<1> QED
  BY <1>1, <1>2

LEMMA OutrankedStep == ASSUME SuccessorInv, [Next]_vars PROVE Outranked'
<1> USE DEF SuccessorInv
<1> SUFFICES ASSUME NEW d \in Daemons \ (raced' \cup primary' \cup promoted'), phase'[d] = "refreshing",
                    NEW e \in (Known(d)' \cap promoted') \ (raced' \cup unpolled'[d] \cup {d}),
                    d \in rivals'[e]
             PROVE  lsn'[d] < lsn'[e] \/ (lsn'[d] = lsn'[e] /\ d <= e)
  BY DEF Outranked, Outranks
<1>1. e \in Nodes /\ e \in Daemons
  BY KnownStep, TypeStep DEF TypeOK
<1>2. phase[d] = "refreshing" /\ d \notin raced /\ lsn' = lsn
  BY <1>1, RefreshingStep, RacedStep
<1>3. d \notin primary \cup promoted
  BY PromotedStep
<1>4. CASE e \in promoted
  <2>1. e \notin raced
    BY <1>1, <1>4, RacedStep
  <2>2. CASE e \in Known(d) \ unpolled[d]
    <3>1. Outranks(e, d)
      BY <1>1, <1>2, <1>3, <1>4, <2>1, <2>2, RivalsStay DEF Outranked
    <3> QED
      BY <1>2, <3>1 DEF Outranks
  <2>3. CASE e \in alive /\ e \notin primary
    BY <1>4, <2>3 DEF Roles
  <2> QED
    BY <2>2, <2>3, KnownStep
<1>5. CASE e \notin promoted
  <2>1. phase[e] = "promoting" /\ e \notin raced
    BY <1>5, PromotedStep
  <2>2. Outranks(e, d)
    BY <1>1, <2>1, RivalsStay DEF Ahead
  <2> QED
    BY <1>2, <2>2 DEF Outranks
<1> QED
  BY <1>4, <1>5

LEMMA SuccessorStep == ASSUME SuccessorInv, [Next]_vars PROVE SuccessorInv'
<1> USE DEF SuccessorInv
<1>1. TypeOK' /\ Roles'
  BY TypeStep, RolesStep
<1>2. OnlyOnce' /\ Current' /\ Ahead' /\ Outranked'
  BY OnlyOnceStep, CurrentStep, AheadStep, OutrankedStep
<1>3. RivalsAgree'
  <2> SUFFICES ASSUME NEW d \in Daemons, NEW e \in Daemons, d # e, phase'[d] = "promoting",
                      phase'[e] = "promoting" \/ e \in promoted',
                      e \in rivals'[d], d \in rivals'[e], d \notin raced', e \notin raced'
               PROVE  FALSE
    BY DEF RivalsAgree
  <2>1. d \in Nodes /\ e \in Nodes /\ d \in Nat /\ e \in Nat
    BY NodesAssumption DEF NodesAssumption
  <2>2. lsn'[d] \in Nat /\ lsn'[e] \in Nat
    BY <2>1, PositionsGrow
  <2>3. d \notin primary' \cup promoted'
    BY <1>2 DEF OnlyOnce
  <2>4. lsn'[e] < lsn'[d] \/ (lsn'[e] = lsn'[d] /\ e <= d)
    BY <1>2 DEF Ahead, Outranks
  <2>5. CASE phase'[e] = "promoting"
    <3>1. lsn'[d] < lsn'[e] \/ (lsn'[d] = lsn'[e] /\ d <= e)
      BY <1>2, <2>5 DEF Ahead, Outranks
    <3> QED
      BY <2>1, <2>2, <2>4, <3>1
  <2>6. CASE phase'[e] # "promoting"
    <3>1. phase[e] = "promoting" \/ e \in promoted
      BY <2>6, PromotedStep
    <3>2. e \notin raced /\ d \in rivals[e]
      BY <2>6, <3>1, RacedStep, RivalsStay
    <3>3. CASE phase[d] = "promoting"
      <4>1. d \notin raced /\ e \in rivals[d]
        BY <3>3, RacedStep, RivalsStay
      <4> QED
        BY <3>1, <3>2, <3>3, <4>1 DEF RivalsAgree
    <3>4. CASE phase[d] # "promoting"
      <4>1. /\ phase[d] = "refreshing" /\ unpolled[d] = {}
            /\ UNCHANGED <<primary, lsn, promoted, raced>>
            /\ rivals' = [rivals EXCEPT ![d] = Known(d)]
        BY <3>4, PhaseStep DEF world
      <4>2. e \in Known(d)
        BY <4>1 DEF TypeOK
      <4>3. Outranks(e, d)
        BY <2>3, <2>6, <3>2, <4>1, <4>2 DEF Outranked
      <4> QED
        BY <2>1, <2>2, <2>4, <4>1, <4>3 DEF Outranks
    <3> QED
      BY <3>3, <3>4
  <2> QED
    BY <2>5, <2>6
<1> QED
  BY <1>1, <1>2, <1>3

\* pglookout.py:646-653.  However many nodes there are: two daemons of which each
\* compared its own position with the other's do not both promote themselves,
\* unless a standby received WAL while one of them decided; whatever deaths, cuts
\* and polls lie between the one decision and the other.
THEOREM OneOfRivals == Spec => []RivalsAgree
<1>1. SuccessorInv /\ [Next]_vars => SuccessorInv'
  BY SuccessorStep
<1>2. SuccessorInv => RivalsAgree
  BY DEF SuccessorInv
<1> QED
  BY SuccessorInitial, <1>1, <1>2, PTL DEF Spec

-----------------------------------------------------------------------------
(* Majorities.                                                             *)

\* Who promotes itself has compared itself and more than half of the nodes that
\* it did not know as primaries.
Majority ==
  \A d \in Daemons : phase[d] = "promoting" \/ d \in promoted =>
    /\ d \in rivals[d]
    /\ \E S \in SUBSET (Nodes \ {InitPrimary}) :
         /\ rivals[d] \subseteq S /\ 2 * Cardinality(rivals[d]) >= Cardinality(S) + 1
         /\ \A n \in Nodes \ S : view[d][n].role = "primary"

MajorityInv == SuccessorInv /\ Majority

LEMMA MajorityInitial == Init => MajorityInv
  BY SuccessorInitial DEF Init, Majority, MajorityInv

LEMMA MajorityStep == ASSUME MajorityInv, [Next]_vars PROVE MajorityInv'
<1> USE DEF MajorityInv
<1>1. SuccessorInv' /\ TypeOK /\ Roles
  BY SuccessorStep DEF SuccessorInv
<1>2. ASSUME NEW d \in Daemons, phase'[d] = "promoting" \/ d \in promoted'
      PROVE  /\ d \in rivals'[d]
             /\ \E S \in SUBSET (Nodes \ {InitPrimary}) :
                  /\ rivals'[d] \subseteq S /\ 2 * Cardinality(rivals'[d]) >= Cardinality(S) + 1
                  /\ \A n \in Nodes \ S : view'[d][n].role = "primary"
  <2>1. CASE phase[d] = "promoting" \/ d \in promoted
    <3>1. rivals'[d] = rivals[d] /\ d \in rivals[d]
      BY <2>1, RivalsStay DEF Majority
    <3>2. PICK S \in SUBSET (Nodes \ {InitPrimary}) :
            /\ rivals[d] \subseteq S /\ 2 * Cardinality(rivals[d]) >= Cardinality(S) + 1
            /\ \A n \in Nodes \ S : view[d][n].role = "primary"
      BY <2>1 DEF Majority
    <3>3. \A n \in Nodes \ S : view'[d][n].role = "primary"
      BY <1>1, <3>2, PrimaryKnown
    <3> QED
      BY <3>1, <3>2, <3>3
  <2>2. CASE ~(phase[d] = "promoting" \/ d \in promoted)
    <3>1. phase'[d] = "promoting" /\ phase[d] # "promoting"
      BY <1>1, <1>2, <2>2, PromotedStep
    <3>2. PICK pick : Promotes(d, pick)
      BY <1>1, <3>1, PhaseStep
    <3>3. rivals'[d] = Known(d) /\ view' = view
      BY <1>1, <3>1, PhaseStep DEF TypeOK
    <3>4. d \in Known(d) /\ 2 * Cardinality(Known(d)) >= Cardinality(Standbys(d)) + 1
      BY <1>1, <3>2, Decision
    <3>5. /\ Known(d) \subseteq Standbys(d) /\ Standbys(d) \in SUBSET (Nodes \ {InitPrimary})
          /\ \A n \in Nodes \ Standbys(d) : view[d][n].role = "primary"
      BY <1>1 DEF Known, Standbys, Roles
    <3> QED
      BY <3>3, <3>4, <3>5
  <2> QED
    BY <2>1, <2>2
<1>3. Majority'
  BY <1>2 DEF Majority
<1> QED
  BY <1>1, <1>3

\* More than half and more than half have something in common.
LEMMA TwoMajorities ==
  ASSUME NEW S, IsFiniteSet(S), NEW A \in SUBSET S, NEW B \in SUBSET S,
         2 * Cardinality(A) >= Cardinality(S) + 1, 2 * Cardinality(B) >= Cardinality(S) + 1
  PROVE  A \cap B # {}
<1>1. IsFiniteSet(A) /\ IsFiniteSet(B)
  BY FS_Subset
<1>2. A \cup B \in SUBSET S
  OBVIOUS
<1>3. Cardinality(A \cup B) <= Cardinality(S)
  BY <1>2, FS_Subset
<1>4. Cardinality(A \cup B) = Cardinality(A) + Cardinality(B) - Cardinality(A \cap B)
  BY <1>1, FS_Union
<1>5. Cardinality(A) \in Nat /\ Cardinality(B) \in Nat /\ Cardinality(S) \in Nat
  BY <1>1, FS_CardinalityType
<1>6. A \cap B = {} => Cardinality(A \cap B) = 0
  BY FS_EmptySet
<1> QED
  BY <1>3, <1>4, <1>5, <1>6

\* pglookout.py:659-688.  However many nodes there are: as long as nobody else has
\* promoted itself, two daemons, of which the later one does not know of the earlier
\* one's promotion, promote themselves only if there is a standby that both of them
\* have reached: of two sides of a cut that stays, one at most has enough nodes.
THEOREM MajoritiesAlwaysMeet == Spec => []MajoritiesMeet
<1>1. ASSUME MajorityInv, NEW d \in Daemons, NEW e \in Daemons, phase[d] = "promoting",
             phase[e] = "promoting" \/ e \in promoted,
             promoted \subseteq {e}, view[d][e].role # "primary"
      PROVE  rivals[d] \cap rivals[e] # {}
  <2> DEFINE all == Nodes \ {InitPrimary}
  <2>1. /\ d \in rivals[d] /\ e \in rivals[e]
        /\ primary \subseteq {InitPrimary, e}
    BY <1>1 DEF MajorityInv, Majority, SuccessorInv, Roles
  <2>2. \A f \in Daemons : \A n \in Nodes : view[f][n].role = "primary" => n \in primary
    BY <1>1 DEF MajorityInv, SuccessorInv, Roles, Standbys
  <2>3. /\ rivals[d] \in SUBSET all /\ 2 * Cardinality(rivals[d]) >= Cardinality(all) + 1
    <3>1. PICK S \in SUBSET all :
            /\ rivals[d] \subseteq S /\ 2 * Cardinality(rivals[d]) >= Cardinality(S) + 1
            /\ \A n \in Nodes \ S : view[d][n].role = "primary"
      BY <1>1 DEF MajorityInv, Majority
    <3>2. S = all
      BY <1>1, <2>1, <2>2, <3>1
    <3> QED
      BY <3>1, <3>2
  <2>4. /\ rivals[e] \in SUBSET all /\ 2 * Cardinality(rivals[e]) >= Cardinality(all) + 1
    <3>1. PICK S \in SUBSET all :
            /\ rivals[e] \subseteq S /\ 2 * Cardinality(rivals[e]) >= Cardinality(S) + 1
            /\ \A n \in Nodes \ S : view[e][n].role = "primary"
      BY <1>1 DEF MajorityInv, Majority
    <3>2. S = all
      BY <2>1, <2>2, <3>1
    <3> QED
      BY <3>1, <3>2
  <2>5. IsFiniteSet(all)
    BY NodesAssumption, FS_Subset DEF NodesAssumption
  <2> HIDE DEF all
  <2> QED
    BY <2>3, <2>4, <2>5, TwoMajorities
<1>2. MajorityInv => MajoritiesMeet
  BY <1>1 DEF MajoritiesMeet
<1>3. MajorityInv /\ [Next]_vars => MajorityInv'
  BY MajorityStep
<1> QED
  BY MajorityInitial, <1>2, <1>3, PTL DEF Spec

\* With two standbys a majority is both.
LEMMA TwoStandbys ==
  ASSUME Cardinality(Nodes) <= 3, MajorityInv,
         NEW d \in Daemons, phase[d] = "promoting" \/ d \in promoted,
         NEW n \in Nodes, view[d][n].role # "primary"
  PROVE  n \in rivals[d]
<1>1. PICK S \in SUBSET (Nodes \ {InitPrimary}) :
        /\ rivals[d] \subseteq S /\ 2 * Cardinality(rivals[d]) >= Cardinality(S) + 1
        /\ n \in S
  BY DEF MajorityInv, Majority
<1>2. IsFiniteSet(S) /\ Cardinality(S) <= 2
  <2>1. IsFiniteSet(Nodes) /\ InitPrimary \in Nodes
    BY NodesAssumption DEF NodesAssumption
  <2>2. /\ IsFiniteSet(Nodes \ {InitPrimary})
        /\ Cardinality(Nodes \ {InitPrimary}) = Cardinality(Nodes) - 1
    BY <2>1, FS_RemoveElement
  <2>3. IsFiniteSet(S) /\ Cardinality(S) <= Cardinality(Nodes \ {InitPrimary})
    BY <2>2, FS_Subset
  <2>4. Cardinality(Nodes) \in Nat /\ Cardinality(S) \in Nat
    BY <2>1, <2>3, FS_CardinalityType
  <2> QED
    BY <2>2, <2>3, <2>4
<1>3. CASE n \notin rivals[d]
  <2>1. IsFiniteSet(S \ {n}) /\ Cardinality(S \ {n}) = Cardinality(S) - 1
    BY <1>1, <1>2, FS_RemoveElement
  <2>2. rivals[d] \in SUBSET (S \ {n})
    BY <1>1, <1>3
  <2>3. IsFiniteSet(rivals[d]) /\ Cardinality(rivals[d]) <= Cardinality(S \ {n})
    BY <2>1, <2>2, FS_Subset
  <2>4. Cardinality(rivals[d]) \in Nat /\ Cardinality(S) \in Nat
    BY <1>2, <2>3, FS_CardinalityType
  <2> QED
    BY <1>1, <1>2, <2>1, <2>3, <2>4
<1> QED
  BY <1>3

\* pglookout.py:646-653.  In a cluster of up to three nodes two daemons do not
\* both promote themselves, unless a standby received WAL while one of them
\* decided, or the later one knows of the earlier one's promotion; whatever the
\* deaths and cuts, and however many.
THEOREM OneOfTwo == ASSUME Cardinality(Nodes) <= 3 PROVE Spec => []OneSuccessor
<1>1. ASSUME MajorityInv, NEW d \in Daemons, NEW e \in Daemons, phase[d] = "promoting",
             phase[e] = "promoting" \/ e \in promoted, view[d][e].role # "primary"
      PROVE  d = e \/ {d, e} \cap raced # {}
  <2>1. d \in Nodes /\ e \in Nodes
    BY NodesAssumption DEF NodesAssumption
  <2>2. view[e][d].role # "primary"
    BY <1>1, <2>1 DEF MajorityInv, SuccessorInv, OnlyOnce, Roles, Standbys
  <2>3. e \in rivals[d] /\ d \in rivals[e]
    BY <1>1, <2>1, <2>2, TwoStandbys
  <2> QED
    BY <1>1, <2>3 DEF MajorityInv, SuccessorInv, RivalsAgree
<1>2. MajorityInv => OneSuccessor
  BY <1>1 DEF OneSuccessor
<1>3. MajorityInv /\ [Next]_vars => MajorityInv'
  BY MajorityStep
<1> QED
  BY MajorityInitial, <1>2, <1>3, PTL DEF Spec

-----------------------------------------------------------------------------
(* Exactly one steps in, where every node but the first primary has a      *)
(* daemon.                                                                 *)

\* Of any nodes one outranks the others.  By induction on how many they are.
LEMMA Highest ==
  ASSUME TypeOK, NEW T \in SUBSET Nodes, T # {}
  PROVE  \E m \in T : \A n \in T : Outranks(m, n)
<1> DEFINE Has(U) == U # {} => \E m \in U : \A n \in U : Outranks(m, n)
           Ks == {k \in Nat : \A U \in SUBSET Nodes : Cardinality(U) = k => Has(U)}
<1>1. IsFiniteSet(Nodes) /\ Nodes \subseteq Nat
  BY NodesAssumption DEF NodesAssumption
<1>2. \A n \in Nodes : lsn[n] \in Nat
  BY BoundsAssumption DEF BoundsAssumption, TypeOK
<1>3. 0 \in Ks
  <2> SUFFICES ASSUME NEW U \in SUBSET Nodes, Cardinality(U) = 0 PROVE U = {}
    OBVIOUS
  <2> QED
    BY <1>1, FS_Subset, FS_EmptySet
<1>4. ASSUME NEW k \in Nat, k \in Ks PROVE k + 1 \in Ks
  <2> SUFFICES ASSUME NEW U \in SUBSET Nodes, Cardinality(U) = k + 1, U # {} PROVE Has(U)
    OBVIOUS
  <2>1. PICK x \in U : TRUE
    OBVIOUS
  <2>2. U \ {x} \in SUBSET Nodes /\ Cardinality(U \ {x}) = k
    <3>1. IsFiniteSet(U)
      BY <1>1, FS_Subset
    <3>2. Cardinality(U \ {x}) = Cardinality(U) - 1
      BY <2>1, <3>1, FS_RemoveElement
    <3> QED
      BY <3>2
  <2>3. Has(U \ {x})
    <3> HIDE DEF Has
    <3> QED
      BY <1>4, <2>2
  <2>4. CASE U \ {x} = {}
    BY <1>1, <1>2, <2>1, <2>4 DEF Outranks
  <2>5. CASE U \ {x} # {}
    <3>1. PICK m \in U \ {x} : \A n \in U \ {x} : Outranks(m, n)
      BY <2>3, <2>5
    <3>2. CASE Outranks(m, x)
      BY <3>1, <3>2
    <3>3. CASE ~Outranks(m, x)
      <4>1. ASSUME NEW n \in U PROVE Outranks(x, n)
        <5>1. n = x \/ Outranks(m, n)
          BY <3>1
        <5>2. {m, n, x} \subseteq Nodes
          OBVIOUS
        <5> QED
          BY <1>1, <1>2, <3>3, <5>1, <5>2 DEF Outranks
      <4> QED
        BY <2>1, <4>1
    <3> QED
      BY <3>2, <3>3
  <2> QED
    BY <2>4, <2>5
<1>5. Cardinality(T) \in Nat
  BY <1>1, FS_Subset, FS_CardinalityType
<1> HIDE DEF Ks
<1>6. Cardinality(T) \in Ks
  <2>1. \A i \in 0..Cardinality(T) : i \in Ks
    <3>1. \A i \in 0..Cardinality(T) - 1 : i \in Ks => i + 1 \in Ks
      BY <1>4, <1>5
    <3> QED
      BY <1>3, <1>5, <3>1, Maps!UpTo
  <2> QED
    BY <1>5, <2>1
<1> QED
  BY <1>6 DEF Ks

\* When the primaries are gone and the daemons that are left reach each other and
\* have seen all there is, each judges by the true positions.
LEMMA SettledDecision ==
  ASSUME Nodes \ {InitPrimary} \subseteq Daemons, TypeOK, Roles,
         primary \cap alive = {},
         NEW left, left = alive \cap Daemons,
         \A m, n \in left : network[m] = network[n],
         2 * Cardinality(left) >= Cardinality(Nodes),
         NEW d \in left, Settled(d), NEW pick \in Daemon(d)!MasterPicks(Map(d))
  PROVE  Promotes(d, pick) <=> \A n \in left : Outranks(d, n)
<1> USE DEF Roles
<1>1. InitPrimary \notin alive /\ alive \subseteq Nodes
  BY DEF TypeOK
<1>2. left = alive
  BY <1>1
<1>3. d \in Daemons /\ Reached(d) = left /\ \A n \in Nodes : Polled(d, n) = view[d][n]
  BY <1>2 DEF Reached, Settled
<1>4. ASSUME NEW n \in left
      PROVE  n \in Known(d) /\ view[d][n].lsn = lsn[n]
  <2>1. n \in Nodes /\ n \notin primary
    BY <1>1, <1>2
  <2>2. view[d][n] = Reading(n)
    BY <1>3, <2>1, PolledKeeps
  <2> QED
    BY <2>1, <2>2 DEF Reading, Known, Standbys
<1>5. ASSUME NEW n \in Nodes \ left PROVE view[d][n].conn = FALSE
  <2>1. n \notin Reached(d) /\ Polled(d, n) = view[d][n]
    BY <1>3
  <2>2. Polled(d, n).conn = FALSE
    BY <1>3, <2>1, PolledKeeps
  <2> QED
    BY <2>1, <2>2, Zenon
<1>6. Known(d) = left
  BY <1>1, <1>2, <1>4, <1>5 DEF Known, Standbys
<1>7. ASSUME NEW n \in Nodes, view[d][n].role = "primary" PROVE ~view[d][n].conn
  <2>1. n \notin left
    BY <1>2, <1>7 DEF Standbys
  <2> QED
    BY <1>5, <2>1
<1>8. ~Daemon(d)!RecentContact(Map(d), pick, 0)
  <2> SUFFICES ASSUME DOMAIN Map(d).disconnected # {}
               PROVE  ~(0 - Map(d).disconnected[pick.instance].contact < FailoverLag)
    BY DEF Daemon!RecentContact
  <2>1. DOMAIN Map(d).connected = {}
    BY <1>7, MapFields
  <2>2. pick.instance \in DOMAIN Map(d).disconnected
    BY <2>1, Picks
  <2>3. /\ pick.instance \in Nodes /\ view[d][pick.instance].role = "primary"
        /\ Map(d).disconnected[pick.instance] = view[d][pick.instance]
    BY <2>2, MapFields
  <2>4. view[d][pick.instance].contact \in Ages /\ view[d][pick.instance].contact \in {-FailoverLag, None}
    BY <2>3 DEF Settled, Standbys
  <2>5. view[d][pick.instance].contact = -FailoverLag /\ FailoverLag \in Nat
    BY <2>4, NoneAssumption, BoundsAssumption DEF NoneAssumption, BoundsAssumption, Ages
  <2> QED
    BY <2>3, <2>5
<1>9. 2 * Cardinality(Known(d)) >= Cardinality(Standbys(d)) + 1
  <2>1. IsFiniteSet(Nodes) /\ InitPrimary \in Nodes
    BY NodesAssumption DEF NodesAssumption
  <2>2. /\ IsFiniteSet(Nodes \ {InitPrimary})
        /\ Cardinality(Nodes \ {InitPrimary}) = Cardinality(Nodes) - 1
    BY <2>1, FS_RemoveElement
  <2>3. Standbys(d) \in SUBSET (Nodes \ {InitPrimary})
    BY DEF Standbys
  <2>4. /\ IsFiniteSet(Standbys(d))
        /\ Cardinality(Standbys(d)) <= Cardinality(Nodes \ {InitPrimary})
    BY <2>2, <2>3, FS_Subset
  <2>5. IsFiniteSet(left)
    BY <1>1, <1>2, <2>1, FS_Subset
  <2>6. Cardinality(Nodes) \in Nat /\ Cardinality(Standbys(d)) \in Nat /\ Cardinality(left) \in Nat
    BY <2>1, <2>4, <2>5, FS_CardinalityType
  <2> QED
    BY <1>6, <2>2, <2>4, <2>6
<1>10. d \in left /\ \A n \in left : SeesBehind(d, n) <=> Outranks(d, n)
  BY <1>4 DEF SeesBehind, Outranks
<1> QED
  BY <1>6, <1>7, <1>8, <1>9, <1>10, Decision

LEMMA OneIsChosen ==
  ASSUME Nodes \ {InitPrimary} \subseteq Daemons, TypeOK, Roles PROVE ExactlyOneStepsIn
<1> DEFINE left == alive \cap Daemons
<1> SUFFICES ASSUME primary \cap alive = {}, \A m, n \in left : network[m] = network[n],
                    2 * Cardinality(left) >= Cardinality(Nodes), \A d \in left : Settled(d)
             PROVE  \E d \in left : \A e \in left : \A pick \in Daemon(e)!MasterPicks(Map(e)) :
                      Promotes(e, pick) <=> e = d
  BY DEF ExactlyOneStepsIn
<1>1. left # {}
  <2> SUFFICES ASSUME left = {} PROVE FALSE
    OBVIOUS
  <2>1. IsFiniteSet(Nodes) /\ Nodes # {}
    BY NodesAssumption DEF NodesAssumption
  <2>2. Cardinality(Nodes) \in Nat /\ Cardinality(Nodes) # 0
    BY <2>1, FS_CardinalityType, FS_EmptySet
  <2>3. Cardinality(left) = 0
    BY FS_EmptySet
  <2> HIDE DEF left
  <2> QED
    BY <2>2, <2>3
<1>2. left \in SUBSET Nodes
  BY DEF TypeOK
<1> HIDE DEF left
<1>3. PICK d \in left : \A n \in left : Outranks(d, n)
  BY <1>1, <1>2, Highest
<1>4. ASSUME NEW e \in left, NEW pick \in Daemon(e)!MasterPicks(Map(e))
      PROVE  Promotes(e, pick) <=> e = d
  <2>1. Promotes(e, pick) <=> \A n \in left : Outranks(e, n)
    BY SettledDecision DEF left
  <2>2. ASSUME Outranks(e, d) PROVE e = d
    <3>1. Outranks(d, e)
      BY <1>3
    <3>2. lsn[d] \in Nat /\ lsn[e] \in Nat /\ d \in Nat /\ e \in Nat
      BY <1>2, BoundsAssumption, NodesAssumption DEF BoundsAssumption, NodesAssumption, TypeOK
    <3> QED
      BY <2>2, <3>1, <3>2 DEF Outranks
  <2> QED
    BY <1>3, <2>1, <2>2
<1> QED
  BY <1>4

\* pglookout.py:659-688.  Where every node but the first primary has a daemon, the
\* daemons' caution never adds up to a stalemate, nor to two decisions: of those
\* that are left, once they have seen what there is, one and only one would
\* promote itself.
THEOREM NoStalemate ==
  ASSUME Nodes \ {InitPrimary} \subseteq Daemons PROVE Spec => []ExactlyOneStepsIn
<1>1. Init => TypeOK /\ Roles
  BY SuccessorInitial DEF SuccessorInv
<1>2. TypeOK /\ Roles /\ [Next]_vars => TypeOK' /\ Roles'
  BY TypeStep, RolesStep
<1>3. TypeOK /\ Roles => ExactlyOneStepsIn
  BY OneIsChosen
<1> QED
  BY <1>1, <1>2, <1>3, PTL DEF Spec
=============================================================================
