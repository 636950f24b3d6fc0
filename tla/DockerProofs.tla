---------------------------- MODULE DockerProofs ----------------------------
(***************************************************************************)
(* Theorems about Docker: what a row of DOCKER INFOS says, for any answers *)
(* of the tools, any services and containers, and any failures; that the   *)
(* rows' memory adds up; and that TROUBLE counts what fell.                *)
(***************************************************************************)
EXTENDS Docker, FiniteSetTheorems, FunctionTheorems, SequenceTheorems, TLAPS

-----------------------------------------------------------------------------
(* What the icon of a verdict says of the answer it was made from. *)

\* A status of Kafka in another form has no leader that is found among the voters.
Changed(a) == a.of = "kafka" /\ a.form = "changed"

\* The two things a reader of the row must be able to rely on.
IconIsTrue(a) ==
    /\ ClusterIcon(Verdict(a)) \in {"ok", "unknown", "warn", "dead", "failed"}
    /\ ClusterIcon(Verdict(a)) = "ok" <=> SaysWell(a)
    /\ ClusterIcon(Verdict(a)) \in {"dead", "failed"} <=>
          SaysLost(a) \/ CheckFailed(a) \/ Changed(a)

LEMMA PositionsFinite ==
  ASSUME NEW S, NEW s \in Seq(S), NEW T \in SUBSET (DOMAIN s)
  PROVE  /\ IsFiniteSet(T) /\ Cardinality(T) \in Nat /\ Cardinality(T) <= Len(s)
         /\ (Cardinality(T) = Len(s) <=> T = DOMAIN s)
<1>1. Len(s) \in Nat /\ DOMAIN s = 1..Len(s)
  OBVIOUS
<1>2. IsFiniteSet(1..Len(s)) /\ Cardinality(1..Len(s)) = Len(s)
  <2>1. /\ IsFiniteSet(1..Len(s))
        /\ Cardinality(1..Len(s)) = IF 1 > Len(s) THEN 0 ELSE Len(s) - 1 + 1
    BY <1>1, FS_Interval
  <2> QED BY <1>1, <2>1
<1>3. /\ IsFiniteSet(T)
      /\ Cardinality(T) <= Cardinality(1..Len(s))
      /\ Cardinality(1..Len(s)) = Cardinality(T) => 1..Len(s) = T
  BY <1>1, <1>2, FS_Subset
<1> QED BY <1>1, <1>2, <1>3, FS_CardinalityType

\* Every set of naturals that is not empty has a least member.
LEMMA Least ==
  ASSUME NEW T \in SUBSET Nat, T # {}
  PROVE  \E n \in T : \A m \in T : n <= m
<1> DEFINE Ups == {0..n : n \in T}
           R == StrictSubsetOrdering(Nat)
<1>1. IsWellFoundedOn(R, FiniteSubsetsOf(Nat))
  BY FS_StrictSubsetOrderingWellFounded
<1>2. Ups \subseteq FiniteSubsetsOf(Nat)
  <2>1. \A n \in T : IsFiniteSet(0..n) /\ 0..n \subseteq Nat
    BY FS_Interval
  <2> QED BY <2>1 DEF FiniteSubsetsOf
<1>3. Ups # {}
  OBVIOUS
<1>4. ASSUME NEW m \in Nat, NEW n \in Nat, m < n  PROVE  <<0..m, 0..n>> \in R
  <2>1. n \in 0..n /\ n \notin 0..m
    BY <1>4
  <2>2. 0..m \subseteq 0..n /\ 0..m # 0..n /\ 0..m \subseteq Nat /\ 0..n \subseteq Nat
    BY <1>4, <2>1
  <2> QED BY <2>2 DEF StrictSubsetOrdering
<1> HIDE DEF R
<1>5. PICK U \in Ups : \A V \in Ups : ~ (<<V, U>> \in R)
  BY <1>1, <1>2, <1>3, WFMin
<1>6. PICK n \in T : U = 0..n
  OBVIOUS
<1>7. \A m \in T : ~ (m < n)
  BY <1>4, <1>5, <1>6
<1> QED BY <1>7

\* The first and the last of some positions of a sequence.
LEMMA Ends ==
  ASSUME NEW S, NEW s \in Seq(S), NEW T \in SUBSET (DOMAIN s), T # {}
  PROVE  /\ Min(T) \in T /\ \A i \in T : Min(T) <= i
         /\ Max(T) \in T /\ \A i \in T : Max(T) >= i
<1>1. Len(s) \in Nat /\ T \subseteq 1..Len(s)
  OBVIOUS
<1>2. T \in SUBSET Nat
  BY <1>1
<1>3. \E x \in T : \A y \in T : x =< y
  BY <1>2, Least
<1> DEFINE D == {Len(s) - i : i \in T}
<1>4. D \in SUBSET Nat /\ D # {}
  BY <1>1
<1>5. \E d \in D : \A e \in D : d <= e
  <2> HIDE DEF D
  <2> QED BY <1>4, Least
<1>6. \E x \in T : \A y \in T : x >= y
  <2>1. PICK x \in T : \A e \in D : Len(s) - x <= e
    BY <1>5
  <2>2. \A y \in T : Len(s) - x <= Len(s) - y
    BY <2>1
  <2> QED BY <1>1, <2>2
<1>7. Min(T) \in T /\ \A y \in T : Min(T) =< y
  BY <1>3 DEF Min
<1>8. Max(T) \in T /\ \A y \in T : Max(T) >= y
  BY <1>6 DEF Max
<1> QED BY <1>7, <1>8

LEMMA FailedIcon ==
  ASSUME NEW a, a.of \in {"failure", "elsewhere"}  PROVE IconIsTrue(a)
BY Zenon DEF IconIsTrue, Verdict, Failed, NotApplicable, Blank, ClusterIcon, SaysWell, SaysLost,
       CheckFailed, Changed

LEMMA StandaloneIcon ==
  ASSUME NEW a, IsAnswer(a), a.of = "pg_isready"  PROVE IconIsTrue(a)
<1>1. Verdict(a) = Standalone(a.ready) /\ a.ready \in BOOLEAN
  BY DEF Verdict, IsAnswer
<1> QED BY <1>1 DEF IconIsTrue, Standalone, Failed, Blank, ClusterIcon, SaysWell, SaysLost,
                    CheckFailed, Changed

LEMMA MongoIcon ==
  ASSUME NEW a, IsAnswer(a), a.of = "mongosh"  PROVE IconIsTrue(a)
<1> DEFINE v == Verdict(a)
<1>1. /\ a.set \in BOOLEAN /\ a.hosts \in Seq(Host) /\ a.primary \in Nat
      /\ \A h \in ToSet(a.hosts) : a.states[h] \in {"unasked"} \cup DOMAIN MongoStates
  BY DEF IsAnswer
<1>2. v = MongoHello(a)
  BY DEF Verdict
<1>3. CASE a.hosts = <<>> /\ a.primary = NoOne /\ ~ a.set
  BY <1>2, <1>3 DEF MongoHello, Blank, IconIsTrue, ClusterIcon, SaysWell, SaysLost,
         CheckFailed, Changed
<1>4. CASE ~ (a.hosts = <<>> /\ a.primary = NoOne /\ ~ a.set)
  <2>1. /\ v.error = FALSE /\ v.applicable = TRUE
        /\ v.quorum = Measured(a.primary # NoOne)
        /\ DOMAIN v.members = DOMAIN a.hosts
        /\ \A i \in DOMAIN a.hosts : v.members[i] = MongoMember(a.hosts[i], a)
    BY <1>2, <1>4 DEF MongoHello, Blank, Map
  <2>2. \A i \in DOMAIN a.hosts :
          v.members[i].healthy = "no" <=> a.states[a.hosts[i]] = "unreachable"
    <3> SUFFICES ASSUME NEW i \in DOMAIN a.hosts
                 PROVE  v.members[i].healthy = "no" <=> a.states[a.hosts[i]] = "unreachable"
      OBVIOUS
    <3> DEFINE state == a.states[a.hosts[i]]
    <3>1. state \in {"unasked", "unreachable", "primary", "secondary", "arbiter", "other"}
      BY <1>1 DEF ToSet, MongoStates
    <3>2. v.members[i] = MongoMember(a.hosts[i], a)
      BY <2>1
    <3>3. CASE state = "unasked"
      BY <3>2, <3>3 DEF MongoMember, Member
    <3>4. CASE state # "unasked"
      <4>1. v.members[i].healthy = MongoStates[state]
        BY <3>2, <3>4 DEF MongoMember, Member
      <4> HIDE DEF v
      <4> QED BY <3>1, <3>4, <4>1 DEF MongoStates
    <3> QED BY <3>3, <3>4
  <2>3. (\E i \in DOMAIN v.members : v.members[i].healthy = "no")
          <=> \E h \in ToSet(a.hosts) : a.states[h] = "unreachable"
    BY <2>1, <2>2 DEF ToSet
  <2> HIDE DEF v
  <2> QED BY <1>1, <1>4, <2>1, <2>3
          DEF IconIsTrue, ClusterIcon, Measured, SaysWell, SaysLost, CheckFailed, Changed, v
<1> QED BY <1>3, <1>4

LEMMA KafkaIcon ==
  ASSUME NEW a, IsAnswer(a), a.of = "kafka"  PROVE IconIsTrue(a)
<1> DEFINE v == Verdict(a)
           voters == Map(LAMBDA h : KafkaMember(h, a.leader), a.voters)
           observers == Map(LAMBDA h : Member(h, "observer", "yes"), a.observers)
           led == {i \in DOMAIN voters : voters[i].role = "leader"}
<1>1. /\ a.form \in {"status", "changed", "other"} /\ a.leader \in Nat
      /\ a.voters \in Seq(Host) /\ a.observers \in Seq(Host)
      /\ a.form = "changed" => a.leader \notin ToSet(a.voters)
  <2>1. /\ a.form \in {"status", "changed", "other"} /\ a.leader \in Nat
        /\ a.voters \in Seq(Host) /\ a.observers \in Seq(Host)
        /\ a.form = "changed" => a.leader = NoOne \/ a.voters = <<>>
    BY DEF IsAnswer
  <2>2. NoOne \notin ToSet(a.voters)
    BY <2>1 DEF ToSet, Host
  <2>3. a.voters = <<>> => ToSet(a.voters) = {}
    BY DEF ToSet
  <2> QED BY <2>1, <2>2, <2>3
<1>2. v = KafkaQuorum(a)
  BY DEF Verdict
<1>3. CASE a.form = "other"
  BY <1>2, <1>3 DEF KafkaQuorum, Recognised, Blank, IconIsTrue, ClusterIcon, SaysWell, SaysLost,
                    CheckFailed, Changed
<1>4. CASE a.form # "other"
  <2>1. /\ v.error = FALSE /\ v.applicable = TRUE
        /\ v.quorum = Measured(Leader(voters, "leader") # NoOne)
        /\ v.members = voters \o observers
    BY <1>2, <1>4 DEF KafkaQuorum, Recognised, Blank
  <2>2. /\ DOMAIN voters = DOMAIN a.voters
        /\ \A i \in DOMAIN a.voters :
              /\ voters[i].healthy = "yes" /\ voters[i].name = a.voters[i]
              /\ voters[i].role = "leader" <=> a.voters[i] = a.leader
    BY DEF Map, KafkaMember, Member
  <2>3. \A i \in DOMAIN v.members : v.members[i].healthy = "yes"
    <3>1. /\ DOMAIN voters = 1..Len(a.voters) /\ DOMAIN observers = 1..Len(a.observers)
          /\ Len(a.voters) \in Nat /\ Len(a.observers) \in Nat
      BY <1>1 DEF Map
    <3>2. \A i \in DOMAIN observers : observers[i].healthy = "yes"
      BY DEF Map, Member
    <3> DEFINE Ms == {voters[i] : i \in DOMAIN voters} \cup {observers[i] : i \in DOMAIN observers}
    <3>3. /\ voters = [i \in 1..Len(a.voters) |-> voters[i]]
          /\ observers = [i \in 1..Len(a.observers) |-> observers[i]]
      BY <3>1 DEF Map
    <3>4. voters \in Seq(Ms) /\ observers \in Seq(Ms)
      <4>1. /\ \A i \in DOMAIN voters : voters[i] \in Ms
            /\ \A i \in DOMAIN observers : observers[i] \in Ms
        OBVIOUS
      <4> HIDE DEF voters, observers, Ms
      <4>2. /\ voters \in [1..Len(a.voters) -> Ms]
            /\ observers \in [1..Len(a.observers) -> Ms]
        BY <3>1, <3>3, <4>1
      <4> QED BY <3>1, <4>2
    <3> HIDE DEF voters, observers, v, Ms
    <3>6. \A i \in DOMAIN (voters \o observers) :
            \/ i \in DOMAIN voters /\ (voters \o observers)[i] = voters[i]
            \/ \E j \in DOMAIN observers : (voters \o observers)[i] = observers[j]
      BY <3>4
    <3> QED BY <2>1, <2>2, <3>2, <3>6
  <2>4. Leader(voters, "leader") # NoOne <=> a.leader \in ToSet(a.voters)
    <3>1. CASE led = {}
      <4>1. Leader(voters, "leader") = NoOne
        BY <3>1 DEF Leader
      <4> QED BY <2>2, <3>1, <4>1 DEF ToSet
    <3>2. CASE led # {}
      <4>1. Min(led) \in led
        <5>1. led \in SUBSET (DOMAIN a.voters)
          BY <2>2
        <5> HIDE DEF led
        <5> QED BY <1>1, <3>2, <5>1, Ends
      <4>2. Leader(voters, "leader") = voters[Min(led)].name
        BY <3>2 DEF Leader
      <4>3. Leader(voters, "leader") = a.leader /\ a.leader \in ToSet(a.voters)
        <5>1. Min(led) \in DOMAIN voters /\ voters[Min(led)].role = "leader"
          BY <4>1
        <5> HIDE DEF voters, led
        <5> QED BY <2>2, <4>2, <5>1 DEF ToSet
      <4>4. a.leader # NoOne
        BY <1>1, <4>3 DEF ToSet, Host
      <4> QED BY <4>3, <4>4
    <3> QED BY <3>1, <3>2
  <2> HIDE DEF v, voters
  <2> QED BY <1>1, <1>4, <2>1, <2>3, <2>4
          DEF IconIsTrue, ClusterIcon, Measured, SaysWell, SaysLost, CheckFailed, Changed, v
<1> QED BY <1>1, <1>3, <1>4

\* More than half of a list that is not empty, when it is all of it.
LEMMA AllIsMost == ASSUME NEW n \in Nat \ {0} PROVE Majority(n, n) /\ MostOf(n, n)
BY DEF Majority, MostOf

LEMMA RustfsIcon ==
  ASSUME NEW a, IsAnswer(a), a.of = "curl"  PROVE IconIsTrue(a)
<1> DEFINE v == Verdict(a)
           up == UpTo(a.live)
           members == [i \in DOMAIN a.live |-> Member(i, "peer", Measured(a.live[i]))]
<1>1. a.guessed \in BOOLEAN /\ a.live \in Seq(BOOLEAN) /\ a.live # <<>>
  BY DEF IsAnswer
<1>2. Len(a.live) \in Nat \ {0} /\ DOMAIN a.live = 1..Len(a.live)
  BY <1>1
<1>3. \A i \in DOMAIN a.live : members[i].healthy = "yes" <=> a.live[i]
  BY DEF Member, Measured
<1>4. \A i \in DOMAIN a.live : members[i].healthy = "no" <=> ~ a.live[i]
  BY DEF Member, Measured
<1>5. Healthy(members) = Cardinality(up)
  <2>1. {i \in DOMAIN members : members[i].healthy = "yes"} = up
    BY <1>3 DEF UpTo
  <2> QED BY <2>1 DEF Healthy
<1>6. Len(members) = Len(a.live)
  <2>1. members \in [1..Len(a.live) -> [name : 1..Len(a.live), role : {"peer"},
                                        healthy : {"yes", "no"}, lag : {NoLag}]]
    BY <1>2 DEF Member, Measured
  <2> HIDE DEF members
  <2> QED BY <1>2, <2>1
<1>7. /\ v.error = FALSE /\ v.applicable = TRUE
      /\ v.quorum = RustfsQuorum(a.guessed, Cardinality(up), Len(a.live))
      /\ v.members = members
  <2>1. v = Rustfs(a)
    BY DEF Verdict
  <2> HIDE DEF v
  <2> QED BY <1>5, <1>6, <2>1 DEF Rustfs, Blank
<1>8. (\E i \in DOMAIN v.members : v.members[i].healthy = "no") <=> up # DOMAIN a.live
  BY <1>4, <1>7 DEF UpTo
<1>9. Cardinality(up) \in Nat /\ (up = DOMAIN a.live => Cardinality(up) = Len(a.live))
  <2>1. up \in SUBSET (DOMAIN a.live)
    BY DEF UpTo
  <2> HIDE DEF up
  <2> QED BY <1>1, <2>1, PositionsFinite
<1>10. Majority(Cardinality(up), Len(a.live)) <=> MostOf(Cardinality(up), Len(a.live))
  BY <1>2, <1>9 DEF Majority, MostOf
<1>11. up = DOMAIN a.live => MostOf(Cardinality(up), Len(a.live))
  BY <1>2, <1>9, AllIsMost
<1> HIDE DEF v, members
<1> QED BY <1>1, <1>2, <1>7, <1>8, <1>10, <1>11
        DEF IconIsTrue, ClusterIcon, Measured, RustfsQuorum, SaysWell, SaysLost,
            CheckFailed, Changed, v

LEMMA GlusterIcon ==
  ASSUME NEW a, IsAnswer(a), a.of = "gluster"  PROVE IconIsTrue(a)
<1> DEFINE v == Verdict(a)
           up == UpTo(a.peers)
           where == ({"peer"} \X DOMAIN a.peers) \cup ({"brick"} \X Bricks(a.volumes))
           Node == [host : Host, online : BOOLEAN, daemon : BOOLEAN]
           BrickDown == \E i \in Bricks(a.volumes) : ~ Head(a.volumes)[i].online
<1>1. a.peers \in Seq(BOOLEAN) /\ a.volumes \in Seq(Seq(Node))
  BY DEF IsAnswer
<1>2. /\ v.error = FALSE /\ v.applicable = TRUE
      /\ v.quorum = GlusterQuorum(Len(a.peers), Cardinality(up))
      /\ v.members = [x \in where |-> GlusterMember(a, x[1], x[2])]
  <2>1. v = Gluster(a)
    BY DEF Verdict
  <2>2. {i \in DOMAIN a.peers : a.peers[i]} = up
    BY DEF UpTo
  <2> HIDE DEF v, up
  <2> QED BY <2>1, <2>2 DEF Gluster, Blank
<1>3. \A i \in DOMAIN a.peers : GlusterMember(a, "peer", i).healthy = "no" <=> ~ a.peers[i]
  BY DEF GlusterMember, Member, Measured
<1>4. \A i : GlusterMember(a, "brick", i).healthy = "no" <=> ~ Head(a.volumes)[i].online
  BY DEF GlusterMember, Member, Measured
<1>5. (\E x \in where : GlusterMember(a, x[1], x[2]).healthy = "no")
        <=> up # DOMAIN a.peers \/ BrickDown
  <2>1. (\E x \in where : GlusterMember(a, x[1], x[2]).healthy = "no")
          <=> \/ \E i \in DOMAIN a.peers : GlusterMember(a, "peer", i).healthy = "no"
              \/ \E i \in Bricks(a.volumes) : GlusterMember(a, "brick", i).healthy = "no"
    <3>1. \A i \in DOMAIN a.peers : <<"peer", i>> \in where
      OBVIOUS
    <3>2. \A i \in Bricks(a.volumes) : <<"brick", i>> \in where
      OBVIOUS
    <3>3. ASSUME NEW i \in DOMAIN a.peers, GlusterMember(a, "peer", i).healthy = "no"
          PROVE  \E x \in where : GlusterMember(a, x[1], x[2]).healthy = "no"
      <4> DEFINE x == <<"peer", i>>
      <4>1. x \in where /\ x[1] = "peer" /\ x[2] = i
        BY <3>1
      <4> HIDE DEF x, where
      <4> QED BY <3>3, <4>1
    <3>4. ASSUME NEW i \in Bricks(a.volumes), GlusterMember(a, "brick", i).healthy = "no"
          PROVE  \E x \in where : GlusterMember(a, x[1], x[2]).healthy = "no"
      <4> DEFINE x == <<"brick", i>>
      <4>1. x \in where /\ x[1] = "brick" /\ x[2] = i
        BY <3>2
      <4> HIDE DEF x, where
      <4> QED BY <3>4, <4>1
    <3>5. ASSUME NEW x \in where, GlusterMember(a, x[1], x[2]).healthy = "no"
          PROVE  \/ \E i \in DOMAIN a.peers : GlusterMember(a, "peer", i).healthy = "no"
                 \/ \E i \in Bricks(a.volumes) : GlusterMember(a, "brick", i).healthy = "no"
      <4>1. \/ x[1] = "peer" /\ x[2] \in DOMAIN a.peers
            \/ x[1] = "brick" /\ x[2] \in Bricks(a.volumes)
        OBVIOUS
      <4> HIDE DEF where
      <4> QED BY <3>5, <4>1
    <3> HIDE DEF where
    <3> QED BY <3>3, <3>4, <3>5
  <2>2. (\E i \in DOMAIN a.peers : GlusterMember(a, "peer", i).healthy = "no")
          <=> up # DOMAIN a.peers
    BY <1>3 DEF UpTo
  <2>3. (\E i \in Bricks(a.volumes) : GlusterMember(a, "brick", i).healthy = "no") <=> BrickDown
    BY <1>4
  <2> HIDE DEF where, up, BrickDown
  <2> QED BY <2>1, <2>2, <2>3
<1>6. (\E i \in DOMAIN v.members : v.members[i].healthy = "no")
        <=> up # DOMAIN a.peers \/ BrickDown
  <2> HIDE DEF v, where, up, BrickDown
  <2> QED BY <1>2, <1>5
<1>7. BrickDown <=> ~ (a.volumes # <<>> =>
                         \A i \in DOMAIN a.volumes[1] :
                            a.volumes[1][i].online \/ a.volumes[1][i].daemon)
  <2>1. CASE a.volumes = <<>>
    BY <2>1 DEF Bricks
  <2>2. CASE a.volumes # <<>>
    <3>1. Head(a.volumes) = a.volumes[1]
      BY <1>1, <2>2
    <3>2. Bricks(a.volumes) = {i \in DOMAIN a.volumes[1] : ~ a.volumes[1][i].daemon}
      BY <2>2, <3>1 DEF Bricks, IsBrick
    <3> QED BY <2>2, <3>1, <3>2
  <2> QED BY <2>1, <2>2
<1>8. /\ Len(a.peers) \in Nat /\ (Len(a.peers) = 0 <=> a.peers = <<>>)
      /\ Cardinality(up) \in Nat /\ (up = DOMAIN a.peers => Cardinality(up) = Len(a.peers))
  <2>1. up \in SUBSET (DOMAIN a.peers)
    BY DEF UpTo
  <2>2. Cardinality(up) \in Nat /\ (up = DOMAIN a.peers => Cardinality(up) = Len(a.peers))
    <3> HIDE DEF up
    <3> QED BY <1>1, <2>1, PositionsFinite
  <2> QED BY <1>1, <2>2
<1>9. Majority(Cardinality(up) + 1, Len(a.peers) + 1)
        <=> MostOf(Cardinality(up) + 1, Len(a.peers) + 1)
  BY <1>8 DEF Majority, MostOf
<1>10. up = DOMAIN a.peers => MostOf(Cardinality(up) + 1, Len(a.peers) + 1)
  BY <1>8, AllIsMost
<1>11. SaysWell(a) <=> a.peers # <<>> /\ up = DOMAIN a.peers /\ ~ BrickDown
  BY <1>7 DEF SaysWell
<1>12. SaysLost(a) <=> a.peers # <<>> /\ ~ MostOf(Cardinality(up) + 1, Len(a.peers) + 1)
  BY DEF SaysLost
<1>13. ~ CheckFailed(a) /\ ~ Changed(a)
  BY DEF CheckFailed, Changed
<1> HIDE DEF v, up, BrickDown
<1> QED BY <1>2, <1>6, <1>8, <1>9, <1>10, <1>11, <1>12, <1>13
        DEF IconIsTrue, ClusterIcon, Measured, GlusterQuorum, v

\* A row counts as foreign exactly when it is on another timeline than the last
\* primary, and a primary that can be compared with is one of the rows.
LEMMA ForeignRows ==
  ASSUME NEW rows \in Seq(PgRow), NEW i \in DOMAIN rows
  PROVE  /\ Diverged(rows[i], LastPrimary(rows)) <=> Foreign(rows, i)
         /\ \/ LastPrimary(rows).lsn = NoLsn
            \/ \E p \in Primaries(rows) : LastPrimary(rows) = rows[p]
<1> DEFINE P == Primaries(rows)
<1>1. /\ P \in SUBSET (DOMAIN rows)
      /\ LastPrimary(rows) = IF P = {} THEN [tli |-> NoTli, lsn |-> NoLsn] ELSE rows[Max(P)]
  BY DEF Primaries, LastPrimary
<1>2. \A j \in DOMAIN rows : j \in Nat
  OBVIOUS
<1>3. CASE P = {}
  BY <1>1, <1>3 DEF Diverged, Foreign
<1>4. CASE P # {}
  <2>1. Max(P) \in P /\ \A q \in P : Max(P) >= q
    <3> HIDE DEF P
    <3> QED BY <1>1, <1>4, Ends
  <2>2. \A p \in P : (\A q \in P : q <= p) <=> p = Max(P)
    <3>1. \A p \in P : p \in Nat
      BY <1>1, <1>2
    <3> HIDE DEF P
    <3> QED BY <2>1, <3>1
  <2>3. Foreign(rows, i) <=> /\ NoTli \notin {rows[i].tli, rows[Max(P)].tli}
                             /\ rows[i].tli # rows[Max(P)].tli
    <3> HIDE DEF P
    <3> QED BY <2>1, <2>2 DEF Foreign, P
  <2>4. LastPrimary(rows) = rows[Max(P)]
    BY <1>1, <1>4
  <2> HIDE DEF P
  <2> QED BY <2>1, <2>3, <2>4 DEF Diverged, P
<1> QED BY <1>3, <1>4

LEMMA PostgresIcon ==
  ASSUME NEW a, IsAnswer(a), a.of = "pg_autoctl"  PROVE IconIsTrue(a)
<1> DEFINE v == Verdict(a)
           members == [i \in DOMAIN a.rows |-> PgMember(a.rows, i)]
           up == Serving(a.rows)
<1>1. a.rows \in Seq(PgRow) /\ v = PgState(a.rows)
  BY DEF IsAnswer, Verdict
<1>2. CASE a.rows = <<>>
  BY <1>1, <1>2 DEF PgState, Blank, IconIsTrue, ClusterIcon, SaysWell, SaysLost,
         CheckFailed, Changed
<1>3. CASE a.rows # <<>>
  <2>1. Len(a.rows) \in Nat \ {0} /\ DOMAIN a.rows = 1..Len(a.rows)
    BY <1>1, <1>3
  <2>2. \A i \in DOMAIN a.rows :
          /\ members[i].healthy \in {"yes", "no"}
          /\ members[i].healthy = "yes" <=> i \in up
    <3> SUFFICES ASSUME NEW i \in DOMAIN a.rows
                 PROVE  /\ members[i].healthy \in {"yes", "no"}
                        /\ members[i].healthy = "yes" <=> i \in up
      OBVIOUS
    <3>1. members[i].healthy = Measured(/\ ~ Diverged(a.rows[i], LastPrimary(a.rows))
                                        /\ a.rows[i].reported \in {"primary", "secondary"})
      BY DEF PgMember
    <3>2. Diverged(a.rows[i], LastPrimary(a.rows)) <=> Foreign(a.rows, i)
      BY <1>1, ForeignRows
    <3> HIDE DEF members
    <3> QED BY <3>1, <3>2 DEF Measured, Serving
  <2>3. Healthy(members) = Cardinality(up)
    <3>1. {i \in DOMAIN members : members[i].healthy = "yes"} = up
      <4>1. up \subseteq DOMAIN a.rows /\ DOMAIN members = DOMAIN a.rows
        BY DEF Serving
      <4> HIDE DEF members, up
      <4> QED BY <2>2, <4>1
    <3> QED BY <3>1 DEF Healthy
  <2>4. Len(members) = Len(a.rows) /\ DOMAIN members = DOMAIN a.rows
    <3> DEFINE Ms == {members[i] : i \in DOMAIN a.rows}
    <3>1. members \in [1..Len(a.rows) -> Ms]
      BY <2>1
    <3> HIDE DEF members, Ms
    <3> QED BY <2>1, <3>1
  <2>5. /\ v.error = FALSE /\ v.applicable = TRUE /\ v.members = members
        /\ v.quorum = Measured(Majority(Cardinality(up), Len(a.rows)))
    <3> HIDE DEF v, up
    <3> QED BY <1>1, <1>3, <2>3, <2>4 DEF PgState, PgQuorum, Blank
  <2>6. (\E i \in DOMAIN v.members : v.members[i].healthy = "no") <=> up # DOMAIN a.rows
    <3>1. up \subseteq DOMAIN a.rows
      BY DEF Serving
    <3> HIDE DEF v, members, up
    <3> QED BY <2>2, <2>4, <2>5, <3>1
  <2>7. Cardinality(up) \in Nat /\ (up = DOMAIN a.rows => Cardinality(up) = Len(a.rows))
    <3>1. up \in SUBSET (DOMAIN a.rows)
      BY DEF Serving
    <3> HIDE DEF up
    <3> QED BY <1>1, <3>1, PositionsFinite
  <2>8. Majority(Cardinality(up), Len(a.rows)) <=> MostOf(Cardinality(up), Len(a.rows))
    BY <2>1, <2>7 DEF Majority, MostOf
  <2>9. up = DOMAIN a.rows => MostOf(Cardinality(up), Len(a.rows))
    BY <2>1, <2>7, AllIsMost
  <2>10. /\ SaysWell(a) <=> up = DOMAIN a.rows
         /\ SaysLost(a) <=> ~ MostOf(Cardinality(up), Len(a.rows))
         /\ ~ CheckFailed(a) /\ ~ Changed(a)
    BY <1>3 DEF SaysWell, SaysLost, CheckFailed, Changed
  <2> HIDE DEF v, members, up
  <2> QED BY <2>5, <2>6, <2>8, <2>9, <2>10 DEF IconIsTrue, ClusterIcon, Measured, v
<1> QED BY <1>2, <1>3

LEMMA Icons == ASSUME NEW a, IsAnswer(a) PROVE IconIsTrue(a)
<1>1. a.of \in {"pg_autoctl", "pg_isready", "mongosh", "kafka", "gluster", "curl", "failure",
                "elsewhere"}
  BY DEF IsAnswer
<1> QED BY <1>1, PostgresIcon, StandaloneIcon, MongoIcon, KafkaIcon, GlusterIcon, RustfsIcon,
           FailedIcon
-----------------------------------------------------------------------------
(* What a row counts. *)

\* What a sum counts.
Pile(n) == UNION {{i} \X (1..n[i]) : i \in DOMAIN n}

LEMMA PileMembers ==
  ASSUME NEW n, NEW x
  PROVE  x \in Pile(n) <=> \E i \in DOMAIN n : \E k \in 1..n[i] : x = <<i, k>>
BY DEF Pile

LEMMA TotalIsPile == ASSUME NEW n PROVE Total(n) = Cardinality(Pile(n))
BY DEF Total, Pile

LEMMA PileFinite ==
  ASSUME NEW S, IsFiniteSet(S), NEW n \in [S -> Int]
  PROVE  IsFiniteSet(Pile(n))
<1> DEFINE part == [i \in S |-> {i} \X (1..n[i])]
           parts == {{i} \X (1..n[i]) : i \in S}
<1>1. ASSUME NEW i \in S  PROVE IsFiniteSet({i} \X (1..n[i]))
  <2>1. n[i] \in Int
    OBVIOUS
  <2>2. IsFiniteSet(1..n[i])
    BY <2>1, FS_Interval
  <2>3. IsFiniteSet({i})
    BY FS_Singleton
  <2> QED BY <2>2, <2>3, FS_Product
<1>2. part \in Surjection(S, parts)
  <2>1. part \in [S -> parts] /\ \A P \in parts : \E i \in S : part[i] = P
    OBVIOUS
  <2> HIDE DEF part, parts
  <2> QED BY <2>1, Fun_IsSurj
<1>3. IsFiniteSet(parts)
  <2> HIDE DEF part, parts
  <2> QED BY <1>2, FS_Surjection
<1>4. IsFiniteSet(UNION parts)
  <2>1. \A P \in parts : IsFiniteSet(P)
    BY <1>1
  <2> HIDE DEF parts
  <2> QED BY <1>3, <2>1, FS_UNION
<1>5. Pile(n) = UNION parts
  BY DEF Pile
<1> HIDE DEF parts
<1> QED BY <1>4, <1>5

\* A sum of numbers over a finite set is a number.
LEMMA TotalType ==
  ASSUME NEW S, IsFiniteSet(S), NEW n \in [S -> Int]
  PROVE  Total(n) \in Nat
BY TotalIsPile, PileFinite, FS_CardinalityType

\* Of smaller numbers the sum is not larger.
LEMMA TotalGrows ==
  ASSUME NEW S, IsFiniteSet(S), NEW m \in [S -> Int], NEW n \in [S -> Int],
         \A i \in S : m[i] <= n[i]
  PROVE  Total(m) <= Total(n)
<1>1. Pile(m) \subseteq Pile(n)
  <2> SUFFICES ASSUME NEW i \in S, NEW k \in 1..m[i]  PROVE <<i, k>> \in Pile(n)
    BY PileMembers
  <2>1. m[i] \in Int /\ n[i] \in Int
    OBVIOUS
  <2>2. k \in 1..n[i]
    BY <2>1
  <2> QED BY <2>2, PileMembers
<1>2. IsFiniteSet(Pile(n))
  BY PileFinite
<1> QED BY <1>1, <1>2, TotalIsPile, FS_Subset

\* The members of disjoint sets can be counted set by set.
LEMMA TotalOfParts ==
  ASSUME NEW S, IsFiniteSet(S), NEW A, DOMAIN A = S,
         \A s \in S : IsFiniteSet(A[s]),
         \A s \in S, t \in S : s # t => A[s] \cap A[t] = {}
  PROVE  Total([s \in S |-> Cardinality(A[s])]) = Cardinality(UNION {A[s] : s \in S})
<1> DEFINE n == [s \in S |-> Cardinality(A[s])]
           h == [s \in S |-> CHOOSE f : f \in Bijection(1..n[s], A[s])]
           g == [x \in Pile(n) |-> h[x[1]][x[2]]]
           All == UNION {A[s] : s \in S}
<1>1. \A s \in S : n[s] \in Nat /\ ExistsBijection(1..n[s], A[s])
  BY FS_CardinalityType
<1>2. \A s \in S : h[s] \in Bijection(1..n[s], A[s])
  <2> SUFFICES ASSUME NEW s \in S  PROVE h[s] \in Bijection(1..n[s], A[s])
    OBVIOUS
  <2>1. \E f : f \in Bijection(1..n[s], A[s])
    BY <1>1 DEF ExistsBijection
  <2>2. h[s] = CHOOSE f : f \in Bijection(1..n[s], A[s])
    OBVIOUS
  <2> HIDE DEF h, n
  <2> QED BY <2>1, <2>2
<1>3. \A s \in S : /\ \A k \in 1..n[s] : h[s][k] \in A[s]
                   /\ \A j, k \in 1..n[s] : h[s][j] = h[s][k] => j = k
                   /\ \A a \in A[s] : \E k \in 1..n[s] : h[s][k] = a
  <2>1. ASSUME NEW D, NEW T, NEW f \in Bijection(D, T)
        PROVE  /\ \A k \in D : f[k] \in T
               /\ \A j, k \in D : f[j] = f[k] => j = k
               /\ \A a \in T : \E k \in D : f[k] = a
    <3>1. /\ f \in [D -> T]
          /\ \A j, k \in D : f[j] = f[k] => j = k
          /\ \A a \in T : \E k \in D : f[k] = a
      BY <2>1, Fun_BijectionProperties
    <3> QED BY <3>1
  <2> SUFFICES ASSUME NEW s \in S
               PROVE  /\ \A k \in 1..n[s] : h[s][k] \in A[s]
                      /\ \A j, k \in 1..n[s] : h[s][j] = h[s][k] => j = k
                      /\ \A a \in A[s] : \E k \in 1..n[s] : h[s][k] = a
    OBVIOUS
  <2> DEFINE f == h[s]
             D == 1..n[s]
  <2>2. f \in Bijection(D, A[s])
    BY <1>2
  <2> HIDE DEF f, D
  <2>3. /\ \A k \in D : f[k] \in A[s]
        /\ \A j, k \in D : f[j] = f[k] => j = k
        /\ \A a \in A[s] : \E k \in D : f[k] = a
    BY <2>1, <2>2
  <2> QED BY <2>3 DEF f, D
<1>4. DOMAIN n = S /\ n \in [S -> Int]
  BY <1>1
<1> HIDE DEF h, n
<1>5. \A s \in S : \A k \in 1..n[s] : <<s, k>> \in Pile(n) /\ g[<<s, k>>] = h[s][k]
  BY <1>4, PileMembers
<1>6. \A x \in Pile(n) : \E s \in S : \E k \in 1..n[s] : x = <<s, k>>
  BY <1>4, PileMembers
<1>7. DOMAIN g = Pile(n)
  OBVIOUS
<1>8. \A a : a \in All <=> \E s \in S : a \in A[s]
  OBVIOUS
<1> HIDE DEF g, All
<1>9. \A x \in Pile(n) : g[x] \in All
  <2> SUFFICES ASSUME NEW x \in Pile(n)  PROVE g[x] \in All
    OBVIOUS
  <2>1. PICK s \in S : \E k \in 1..n[s] : x = <<s, k>>
    BY <1>6
  <2>2. PICK k \in 1..n[s] : x = <<s, k>>
    BY <2>1
  <2>3. g[x] = h[s][k] /\ h[s][k] \in A[s]
    BY <1>3, <1>5, <2>2
  <2> QED BY <1>8, <2>3
<1>10. ASSUME NEW x \in Pile(n), NEW y \in Pile(n), g[x] = g[y]  PROVE x = y
  <2>1. PICK s \in S : \E k \in 1..n[s] : x = <<s, k>>
    BY <1>6
  <2>2. PICK j \in 1..n[s] : x = <<s, j>>
    BY <2>1
  <2>3. PICK t \in S : \E k \in 1..n[t] : y = <<t, k>>
    BY <1>6
  <2>4. PICK k \in 1..n[t] : y = <<t, k>>
    BY <2>3
  <2>5. h[s][j] = h[t][k] /\ h[s][j] \in A[s] /\ h[t][k] \in A[t]
    BY <1>3, <1>5, <1>10, <2>2, <2>4
  <2>6. s = t
    BY <2>5
  <2> QED BY <1>3, <2>2, <2>4, <2>5, <2>6
<1>11. ASSUME NEW a \in All  PROVE \E x \in Pile(n) : g[x] = a
  <2>1. PICK s \in S : a \in A[s]
    BY <1>8
  <2>2. PICK k \in 1..n[s] : h[s][k] = a
    BY <1>3, <2>1
  <2> QED BY <1>5, <2>2
<1>12. g \in Bijection(Pile(n), All)
  <2>1. g = [x \in Pile(n) |-> g[x]]
    BY <1>7 DEF g
  <2>2. g \in [Pile(n) -> All]
    BY <1>9, <2>1
  <2> QED BY <1>10, <1>11, <2>2, Fun_IsBij
<1>13. IsFiniteSet(Pile(n)) /\ ExistsBijection(Pile(n), All)
  BY <1>4, <1>12, PileFinite DEF ExistsBijection
<1>14. Cardinality(All) = Cardinality(Pile(n))
  BY <1>13, FS_Bijection
<1>15. Total(n) = Cardinality(All)
  BY <1>14, TotalIsPile
<1> QED BY <1>15 DEF All, n

\* Sums over disjoint sets add up to the sum over all of them.
LEMMA TotalOfTotals ==
  ASSUME NEW S, IsFiniteSet(S), NEW C, IsFiniteSet(C), NEW H \in [S -> SUBSET C],
         \A s \in S, t \in S : s # t => H[s] \cap H[t] = {},
         NEW w, \A i \in C : w[i] \in Int
  PROVE  Total([s \in S |-> Total([i \in H[s] |-> w[i]])])
            = Total([i \in UNION {H[s] : s \in S} |-> w[i]])
<1> DEFINE part(s) == [i \in H[s] |-> w[i]]
           all == [i \in UNION {H[s] : s \in S} |-> w[i]]
           A == [s \in S |-> Pile(part(s))]
<1>1. \A s \in S : \A x : x \in A[s] <=> \E i \in H[s] : \E k \in 1..w[i] : x = <<i, k>>
  <2> SUFFICES ASSUME NEW s \in S, NEW x
               PROVE  x \in A[s] <=> \E i \in H[s] : \E k \in 1..w[i] : x = <<i, k>>
    OBVIOUS
  <2>1. A[s] = Pile(part(s))
    OBVIOUS
  <2>2. DOMAIN part(s) = H[s] /\ \A i \in H[s] : part(s)[i] = w[i]
    OBVIOUS
  <2> HIDE DEF A, part
  <2> QED BY <2>1, <2>2, PileMembers
<1>2. \A x : x \in Pile(all) <=>
               \E i \in UNION {H[s] : s \in S} : \E k \in 1..w[i] : x = <<i, k>>
  <2>1. /\ DOMAIN all = UNION {H[s] : s \in S}
        /\ \A i \in UNION {H[s] : s \in S} : all[i] = w[i]
    OBVIOUS
  <2> HIDE DEF all
  <2> QED BY <2>1, PileMembers
<1>3. \A s \in S : IsFiniteSet(A[s])
  <2> SUFFICES ASSUME NEW s \in S  PROVE IsFiniteSet(A[s])
    OBVIOUS
  <2>1. IsFiniteSet(H[s])
    BY FS_Subset
  <2>2. part(s) \in [H[s] -> Int]
    OBVIOUS
  <2>3. A[s] = Pile(part(s))
    OBVIOUS
  <2> HIDE DEF A, part
  <2> QED BY <2>1, <2>2, <2>3, PileFinite
<1>4. \A s \in S : Cardinality(A[s]) = Total([i \in H[s] |-> w[i]])
  BY TotalIsPile
<1>5. DOMAIN A = S
  OBVIOUS
<1>6. [s \in S |-> Cardinality(A[s])] = [s \in S |-> Total([i \in H[s] |-> w[i]])]
  <2> HIDE DEF A
  <2> QED BY <1>4
<1> HIDE DEF A
<1>7. \A s \in S, t \in S : s # t => A[s] \cap A[t] = {}
  BY <1>1
<1>8. UNION {A[s] : s \in S} = Pile(all)
  <2> HIDE DEF all
  <2> QED BY <1>1, <1>2
<1>9. Total([s \in S |-> Cardinality(A[s])]) = Cardinality(UNION {A[s] : s \in S})
  BY <1>3, <1>5, <1>7, TotalOfParts
<1>10. Total(all) = Cardinality(Pile(all))
  BY TotalIsPile
<1> HIDE DEF all
<1>11. Total([s \in S |-> Total([i \in H[s] |-> w[i]])]) = Total(all)
  BY <1>6, <1>8, <1>9, <1>10
<1> QED BY <1>11 DEF all

\* What SetToSeq makes of a finite set is a sequence of its members, each once.
LEMMA SetToSeqLists ==
  ASSUME NEW S, IsFiniteSet(S)
  PROVE  LET s == SetToSeq(S) IN
         /\ s \in Seq(S)
         /\ \A i \in DOMAIN s : s[i] \in S
         /\ \A i, j \in DOMAIN s : s[i] = s[j] => i = j
         /\ \A x \in S : \E i \in DOMAIN s : s[i] = x
<1>1. PICK n \in Nat : n = Cardinality(S)
  BY FS_CardinalityType
<1>2. PICK f \in Bijection(1..n, S) : TRUE
  BY <1>1, FS_CardinalityType DEF ExistsBijection
<1>3. f \in [1..n -> S] /\ \A a, b \in 1..n : f[a] = f[b] => a = b
  BY Fun_BijectionProperties
<1>4. \E g \in [1..Cardinality(S) -> S] : IsInjective(g)
  BY <1>1, <1>3 DEF IsInjective
<1> DEFINE s == SetToSeq(S)
<1>5. s \in [1..n -> S] /\ IsInjective(s)
  BY <1>1, <1>4 DEF SetToSeq
<1> HIDE DEF s
<1>6. DOMAIN s = 1..n /\ \A i, j \in 1..n : s[i] = s[j] => i = j
  BY <1>5 DEF IsInjective
<1>7. s \in Injection(1..n, S)
  BY <1>5, <1>6, Fun_IsInj
<1>8. Cardinality(1..n) = Cardinality(S)
  <2>1. Cardinality(1..n) = IF 1 > n THEN 0 ELSE n - 1 + 1
    BY FS_Interval
  <2> QED BY <1>1, <2>1
<1>9. s \in Surjection(1..n, S)
  BY <1>7, <1>8, FS_Injection
<1>10. \A x \in S : \E i \in 1..n : s[i] = x
  BY <1>9 DEF Surjection, IsInjective
<1> QED BY <1>5, <1>6, <1>10 DEF s

\* What the cell of a row reads of a service.
Counted(s) ==
    /\ s.running \in Nat /\ s.starting \in Nat /\ s.down \in Nat /\ s.unassigned \in Nat
    /\ s.replicas \in Int

LEMMA DesiredType ==
  ASSUME NEW s, Counted(s), NEW n \in Nat
  PROVE  Desired(s, n) \in Int
BY DEF Counted, Desired

IsList(s) == \E S : s \in Seq(S) /\ \A x \in S : Counted(x)

\* A row: some of a finite number of services.
IsRow(row) == IsFiniteSet(DOMAIN row) /\ \A i \in DOMAIN row : Counted(row[i])

LEMMA AppendList ==
  ASSUME NEW s, IsList(s), NEW x, Counted(x)
  PROVE  IsList(Append(s, x))
<1>1. PICK S : s \in Seq(S) /\ \A y \in S : Counted(y)
  BY DEF IsList
<1>2. s \in Seq(S \cup {x})
  BY <1>1
<1>3. Append(s, x) \in Seq(S \cup {x})
  BY <1>2
<1>4. \A y \in S \cup {x} : Counted(y)
  BY <1>1
<1> QED BY <1>3, <1>4 DEF IsList

LEMMA ConcatList ==
  ASSUME NEW s, IsList(s), NEW t, IsList(t)
  PROVE  IsList(s \o t)
<1>1. PICK S : s \in Seq(S) /\ \A y \in S : Counted(y)
  BY DEF IsList
<1>2. PICK T : t \in Seq(T) /\ \A y \in T : Counted(y)
  BY DEF IsList
<1>3. s \in Seq(S \cup T) /\ t \in Seq(S \cup T)
  BY <1>1, <1>2
<1>4. s \o t \in Seq(S \cup T)
  BY <1>3
<1>5. \A y \in S \cup T : Counted(y)
  BY <1>1, <1>2
<1> QED BY <1>4, <1>5 DEF IsList

LEMMA PartOfList ==
  ASSUME NEW s, IsList(s), NEW T \in SUBSET (DOMAIN s)
  PROVE  IsRow(Restrict(s, T))
<1>1. PICK S : s \in Seq(S) /\ \A y \in S : Counted(y)
  BY DEF IsList
<1>2. IsFiniteSet(T)
  BY <1>1, PositionsFinite
<1>3. \A i \in T : Counted(s[i])
  BY <1>1
<1>4. DOMAIN Restrict(s, T) = T /\ \A i \in T : Restrict(s, T)[i] = s[i]
  BY DEF Restrict
<1> QED BY <1>2, <1>3, <1>4 DEF IsRow

\* Docker's numbers of a row are numbers.
LEMMA RowType ==
  ASSUME IsRow(services)
  PROVE  Running \in Nat /\ Wanted \in Nat /\ Starting \in Nat
<1> DEFINE running  == [i \in DOMAIN services |-> services[i].running]
           wanted   == [i \in DOMAIN services |-> Desired(services[i], Nodes)]
           starting == [i \in DOMAIN services |-> services[i].starting]
<1>1. IsFiniteSet(DOMAIN services)
  BY DEF IsRow
<1>2. running \in [DOMAIN services -> Int] /\ starting \in [DOMAIN services -> Int]
  BY DEF IsRow, Counted
<1>3. wanted \in [DOMAIN services -> Int]
  BY RowsAssumption, DesiredType DEF IsRow, RowsAssumption
<1>4. Running = Total(running) /\ Wanted = Total(wanted) /\ Starting = Total(starting)
  BY DEF Running, Wanted, Starting, Map
<1> HIDE DEF running, wanted, starting
<1> QED BY <1>1, <1>2, <1>3, <1>4, TotalType

-----------------------------------------------------------------------------
(* The inductive invariant. *)

\* What happens to tasks leaves the daemon its services, of which it knows what it
\* knew, and it lists a finite number of containers.
DaemonKept ==
    /\ DOMAIN daemon = {"mode", "services", "containers"}
    /\ IsFiniteSet(DOMAIN daemon.containers)
    /\ daemon.services \in Seq(SwarmService)
    /\ \A i \in DOMAIN daemon.services :
          DOMAIN daemon.services[i].tasks \subseteq DOMAIN daemon.services[i].ended
    /\ now \in Nat /\ now > Window

Tallied(facts) ==
    /\ facts.running \in Nat /\ facts.starting \in Nat
    /\ facts.down \in Nat /\ facts.unassigned \in Nat

\* What was listed so far was counted.
ListsCounted ==
    /\ DOMAIN got = DOMAIN Nothing
    /\ Tallied(got.facts)
    /\ IsList(got.services) /\ IsList(got.containers)

\* The verdict is the one made from the answer, and once the cell is drawn it is
\* what the row and the verdict say.
CellIsVerdict ==
    /\ IsAnswer(answer)
    /\ cluster \in {Missing, Verdict(answer)}
    /\ cell # Undrawn => call.next = "row" /\ cell = VerdictIcon

Inv == DaemonKept /\ ListsCounted /\ IsRow(services) /\ CellIsVerdict

LEMMA EmptyList == IsList(<<>>)
<1>1. PICK S : S = {}
  OBVIOUS
<1>2. <<>> \in Seq(S) /\ \A x \in S : Counted(x)
  BY <1>1
<1> HIDE <1>1
<1> QED BY <1>2 DEF IsList

\* What is counted of a list is a number.
LEMMA CountType ==
  ASSUME NEW s, IsFiniteSet(DOMAIN s), NEW Test(_)
  PROVE  Count(Test, s) \in Nat
<1> DEFINE those == {p \in DOMAIN s : Test(s[p])}
<1>1. those \in SUBSET (DOMAIN s)
  OBVIOUS
<1> HIDE DEF those
<1>2. Cardinality(those) \in Nat
  BY <1>1, FS_Subset, FS_CardinalityType
<1> QED BY <1>2 DEF Count, those

LEMMA ExceptAt ==
  ASSUME NEW S, NEW q \in Seq(S), NEW k, NEW x \in S
  PROVE  [q EXCEPT ![k] = x] \in Seq(S) /\ DOMAIN [q EXCEPT ![k] = x] = DOMAIN q
<1>1. CASE k \in 1..Len(q)
  BY <1>1, ExceptSeq
<1>2. CASE k \notin 1..Len(q)
  <2>1. [q EXCEPT ![k] = x] = q
    BY <1>2
  <2> QED BY <2>1
<1> QED BY <1>1, <1>2

LEMMA ServiceType ==
  ASSUME NEW s \in SwarmService
  PROVE  s.tasks \in Seq(SwarmTask) /\ s.ended \in Seq(Seq(EndedTask)) /\ s.replicas \in Int
BY DEF SwarmService, Global

LEMMA ServiceChanged ==
  ASSUME NEW s \in SwarmService, NEW tasks \in Seq(SwarmTask),
         NEW ended \in Seq(Seq(EndedTask))
  PROVE  /\ [s EXCEPT !.tasks = tasks] \in SwarmService
         /\ [s EXCEPT !.ended = ended, !.tasks = tasks] \in SwarmService
BY DEF SwarmService

LEMMA TasksTallied == ASSUME NEW s \in SwarmService PROVE Tallied(ServiceTasks(s))
<1>1. IsFiniteSet(DOMAIN s.tasks)
  BY PositionsFinite DEF SwarmService
<1>2. ASSUME NEW T, T \subseteq DOMAIN s.tasks  PROVE Cardinality(T) \in Nat
  BY <1>1, <1>2, FS_Subset, FS_CardinalityType
<1>3. ServiceTasks(s).running \in Nat /\ ServiceTasks(s).starting \in Nat
  BY <1>2 DEF ServiceTasks, Count
<1>4. ServiceTasks(s).down \in Nat /\ ServiceTasks(s).unassigned \in Nat
  BY <1>2 DEF ServiceTasks, Count
<1> QED BY <1>3, <1>4 DEF Tallied

LEMMA StatusCounted ==
  ASSUME NEW s, s.replicas \in Int, NEW facts, Tallied(facts), NEW run
  PROVE  Counted(ServiceStatus(s, facts, run))
BY DEF ServiceStatus, Counted, Tallied

\* The groups of a finite number of containers are finite in number.
LEMMA GroupsFinite ==
  ASSUME NEW silent, IsFiniteSet(DOMAIN daemon.containers)
  PROVE  IsFiniteSet({ContainerService(k, silent) :
                        k \in {Key(c) : c \in {x \in Containers : Grouped(x)}}})
<1> DEFINE grouped == {i \in DOMAIN daemon.containers : Grouped(daemon.containers[i])}
           keys == {Key(c) : c \in {x \in Containers : Grouped(x)}}
           listed == {ContainerService(k, silent) : k \in keys}
           status == [i \in grouped |-> ContainerService(Key(daemon.containers[i]), silent)]
<1>1. IsFiniteSet(grouped)
  <2>1. grouped \in SUBSET (DOMAIN daemon.containers)
    OBVIOUS
  <2> HIDE DEF grouped
  <2> QED BY <2>1, FS_Subset
<1>2. keys = {Key(daemon.containers[i]) : i \in grouped}
  BY DEF Containers, ToSet
<1>3. listed = {status[i] : i \in grouped}
  <2> HIDE DEF keys, grouped
  <2> QED BY <1>2
<1>4. status \in Surjection(grouped, listed)
  <2>1. status \in [grouped -> listed] /\ \A t \in listed : \E i \in grouped : status[i] = t
    <3> HIDE DEF grouped, listed
    <3> QED BY <1>3
  <2> HIDE DEF grouped, listed, status
  <2> QED BY <2>1, Fun_IsSurj
<1>5. IsFiniteSet(listed)
  <2> HIDE DEF grouped, listed, status
  <2> QED BY <1>1, <1>4, FS_Surjection
<1> QED BY <1>5

LEMMA ContainersCounted ==
  ASSUME NEW silent, IsFiniteSet(DOMAIN daemon.containers)
  PROVE  IsList(ContainerServices(silent))
<1> DEFINE keys == {Key(c) : c \in {x \in Containers : Grouped(x)}}
           listed == {ContainerService(k, silent) : k \in keys}
<1>1. IsFiniteSet(listed)
  BY GroupsFinite
<1>2. \A k \in keys : Counted(ContainerService(k, silent))
  <2>1. ASSUME NEW T, T \subseteq DOMAIN daemon.containers  PROVE Cardinality(T) \in Nat
    BY <2>1, FS_Subset, FS_CardinalityType
  <2> HIDE DEF keys
  <2> QED BY <2>1 DEF ContainerService, Counted
<1>3. \A x \in listed : Counted(x)
  <2> HIDE DEF keys
  <2> QED BY <1>2
<1>4. SetToSeq(listed) \in Seq(listed)
  <2> HIDE DEF listed
  <2> QED BY <1>1, SetToSeqLists
<1>5. ContainerServices(silent) = SetToSeq(listed)
  BY DEF ContainerServices
<1> HIDE DEF listed
<1> QED BY <1>3, <1>4, <1>5 DEF IsList

\* The cell is drawn last: as long as the next thing is no row, nothing is drawn.
LEMMA NotDrawn ==
  ASSUME Inv, call.next # "row", UNCHANGED rowVars
  PROVE  CellIsVerdict'
BY DEF Inv, CellIsVerdict, rowVars

LEMMA EndedType ==
  ASSUME now \in Int, NEW slot \in Seq(EndedTask), NEW state \in TaskStates
  PROVE  Ended(slot, state) \in Seq(EndedTask)
<1>1. Append(slot, [state |-> state, at |-> now]) \in Seq(EndedTask)
  BY DEF EndedTask
<1>2. Len(Append(slot, [state |-> state, at |-> now])) = Len(slot) + 1
  BY DEF EndedTask
<1> QED BY <1>1, <1>2, DockerAssumption DEF Ended, DockerAssumption

\* `t` is service `s` but for what happened in slot `k`.
SameButSlot(s, t, k) ==
    /\ t \in SwarmService /\ t.key = s.key /\ t.job = s.job /\ t.replicas = s.replicas
    /\ DOMAIN t.tasks = DOMAIN s.tasks /\ DOMAIN t.ended = DOMAIN s.ended
    /\ \A l \in DOMAIN s.tasks \ {k} : t.tasks[l] = s.tasks[l]
    /\ \A l \in DOMAIN s.ended \ {k} : t.ended[l] = s.ended[l]

LEMMA StartedSlot ==
  ASSUME NEW s \in SwarmService, NEW k \in DOMAIN s.tasks, NEW task \in SwarmTask
  PROVE  LET t == [s EXCEPT !.tasks[k] = task] IN
         SameButSlot(s, t, k) /\ t.tasks[k] = task /\ t.ended = s.ended
<1> DEFINE tasks == [s.tasks EXCEPT ![k] = task]
           t == [s EXCEPT !.tasks = tasks]
<1>1. /\ tasks \in Seq(SwarmTask) /\ DOMAIN tasks = DOMAIN s.tasks /\ tasks[k] = task
      /\ \A l \in DOMAIN s.tasks \ {k} : tasks[l] = s.tasks[l]
  BY ServiceType, ExceptAt
<1> HIDE DEF tasks
<1>2. t \in SwarmService
  BY Zenon, <1>1, ServiceType, ServiceChanged
<1>3. /\ t.tasks = tasks /\ t.ended = s.ended /\ t.key = s.key /\ t.job = s.job
      /\ t.replicas = s.replicas
  BY DEF SwarmService
<1> HIDE DEF t
<1>4. SameButSlot(s, t, k) /\ t.tasks[k] = task /\ t.ended = s.ended
  BY <1>1, <1>2, <1>3 DEF SameButSlot
<1> QED BY <1>4 DEF t, tasks

LEMMA FollowedSlot ==
  ASSUME now \in Int, NEW s \in SwarmService, DOMAIN s.tasks \subseteq DOMAIN s.ended,
         NEW k \in DOMAIN s.tasks, NEW how \in TaskStates, NEW task \in SwarmTask
  PROVE  LET t == Followed(s, k, how, task) IN
         SameButSlot(s, t, k) /\ t.tasks[k] = task /\ t.ended[k] = Ended(s.ended[k], how)
<1> DEFINE last  == Ended(s.ended[k], how)
           tasks == [s.tasks EXCEPT ![k] = task]
           ended == [s.ended EXCEPT ![k] = last]
           t == [s EXCEPT !.ended = ended, !.tasks = tasks]
<1>1. /\ tasks \in Seq(SwarmTask) /\ DOMAIN tasks = DOMAIN s.tasks /\ tasks[k] = task
      /\ \A l \in DOMAIN s.tasks \ {k} : tasks[l] = s.tasks[l]
  BY ServiceType, ExceptAt
<1>2. last \in Seq(EndedTask)
  BY ServiceType, EndedType
<1> HIDE DEF tasks, last
<1>3. /\ ended \in Seq(Seq(EndedTask)) /\ DOMAIN ended = DOMAIN s.ended /\ ended[k] = last
      /\ \A l \in DOMAIN s.ended \ {k} : ended[l] = s.ended[l]
  BY <1>2, ServiceType, ExceptAt
<1> HIDE DEF ended
<1>4. t \in SwarmService
  BY Zenon, <1>1, <1>3, ServiceChanged
<1>5. /\ t.tasks = tasks /\ t.ended = ended /\ t.key = s.key /\ t.job = s.job
      /\ t.replicas = s.replicas
  BY DEF SwarmService
<1>6. t = Followed(s, k, how, task)
  BY DEF Followed, SwarmService, t, tasks, ended, last
<1> HIDE DEF t
<1>7. SameButSlot(s, t, k) /\ t.tasks[k] = task /\ t.ended[k] = last
  BY <1>1, <1>3, <1>4, <1>5 DEF SameButSlot
<1> QED BY <1>6, <1>7 DEF last

\* Swarm lets time pass or moves one slot of one service.
LEMMA SwarmMoves ==
  ASSUME DaemonKept, Swarm
  PROVE  /\ UNCHANGED <<rowVars, got, call, told>>
         /\ \/ now' = now + 1 /\ UNCHANGED daemon
            \/ UNCHANGED now /\ \E i \in DOMAIN daemon.services :
                  \E k \in DOMAIN daemon.services[i].tasks, t \in SwarmService :
                      /\ SameButSlot(daemon.services[i], t, k)
                      /\ daemon' = [daemon EXCEPT !.services[i] = t]
<1>1. CASE Tick
  BY <1>1 DEF Tick
<1>2. ASSUME NEW i \in DOMAIN daemon.services, NEW k \in DOMAIN daemon.services[i].tasks,
             NEW t, SameButSlot(daemon.services[i], t, k), Happens(i, t)
      PROVE  /\ UNCHANGED <<rowVars, got, call, told, now>> /\ t \in SwarmService
             /\ daemon' = [daemon EXCEPT !.services[i] = t]
  BY <1>2 DEF Happens, SameButSlot
<1>3. ASSUME NEW i \in DOMAIN daemon.services, NEW k \in DOMAIN daemon.services[i].tasks
      PROVE  /\ now \in Int /\ daemon.services[i] \in SwarmService
             /\ DOMAIN daemon.services[i].tasks \subseteq DOMAIN daemon.services[i].ended
  BY DEF DaemonKept
<1>4. ASSUME NEW i \in DOMAIN daemon.services, NEW k \in DOMAIN daemon.services[i].tasks,
             Start(i, k)
      PROVE  \E t : SameButSlot(daemon.services[i], t, k) /\ Happens(i, t)
  <2> DEFINE task == [state |-> "running", placed |-> TRUE, err |-> FALSE, at |-> now]
  <2>1. task \in SwarmTask
    BY <1>3 DEF SwarmTask, TaskStates
  <2>2. Happens(i, [daemon.services[i] EXCEPT !.tasks[k] = task])
    BY <1>4 DEF Start
  <2> HIDE DEF task
  <2> QED BY <1>3, <2>1, <2>2, StartedSlot
<1>5. ASSUME NEW i \in DOMAIN daemon.services, NEW k \in DOMAIN daemon.services[i].tasks,
             Update(i, k)
      PROVE  \E t : SameButSlot(daemon.services[i], t, k) /\ Happens(i, t)
  <2> DEFINE task == [state |-> "starting", placed |-> TRUE, err |-> FALSE, at |-> now]
  <2>1. task \in SwarmTask /\ "shutdown" \in TaskStates
    BY <1>3 DEF SwarmTask, TaskStates
  <2>2. Happens(i, Followed(daemon.services[i], k, "shutdown", task))
    BY <1>5 DEF Update
  <2> HIDE DEF task
  <2> QED BY <1>3, <2>1, <2>2, FollowedSlot
<1>6. ASSUME NEW i \in DOMAIN daemon.services, NEW k \in DOMAIN daemon.services[i].tasks,
             NEW placed \in BOOLEAN, Fall(i, k, placed)
      PROVE  \E t : SameButSlot(daemon.services[i], t, k) /\ Happens(i, t)
  <2> DEFINE task == [state |-> IF placed THEN "starting" ELSE "pending",
                      placed |-> placed, err |-> ~ placed, at |-> now]
  <2>1. task \in SwarmTask /\ "failed" \in TaskStates
    BY <1>3 DEF SwarmTask, TaskStates
  <2>2. Happens(i, Followed(daemon.services[i], k, "failed", task))
    BY <1>6 DEF Fall
  <2> HIDE DEF task
  <2> QED BY <1>3, <2>1, <2>2, FollowedSlot
<1>7. ASSUME NEW i \in DOMAIN daemon.services, NEW k \in DOMAIN daemon.services[i].tasks,
             \E t : SameButSlot(daemon.services[i], t, k) /\ Happens(i, t)
      PROVE  /\ UNCHANGED <<rowVars, got, call, told, now>>
             /\ \E t \in SwarmService : /\ SameButSlot(daemon.services[i], t, k)
                                       /\ daemon' = [daemon EXCEPT !.services[i] = t]
  BY <1>2, <1>7
<1>8. CASE ~ Tick
  <2>1. PICK i \in DOMAIN daemon.services : \E k \in DOMAIN daemon.services[i].tasks :
           \/ Start(i, k) \/ Update(i, k)
           \/ \E placed \in BOOLEAN : Fall(i, k, placed)
    BY <1>8 DEF Swarm
  <2>2. PICK k \in DOMAIN daemon.services[i].tasks :
           \/ Start(i, k) \/ Update(i, k)
           \/ \E placed \in BOOLEAN : Fall(i, k, placed)
    BY <2>1
  <2>3. \E t : SameButSlot(daemon.services[i], t, k) /\ Happens(i, t)
    BY <1>4, <1>5, <1>6, <2>2
  <2> QED BY <1>7, <2>3
<1> QED BY <1>1, <1>8

\* It leaves the services it has, by their names, and the containers.
LEMMA SwarmKeeps ==
  ASSUME DaemonKept, Swarm
  PROVE  /\ DaemonKept'
         /\ daemon'.containers = daemon.containers
         /\ DOMAIN daemon'.services = DOMAIN daemon.services
         /\ \A j \in DOMAIN daemon.services :
               LET s == daemon.services[j]
                   t == daemon'.services[j]
               IN  /\ t.key = s.key /\ t.job = s.job /\ t.replicas = s.replicas
                   /\ DOMAIN t.tasks = DOMAIN s.tasks
<1>1. /\ daemon.services \in Seq(SwarmService) /\ now \in Nat /\ now > Window
      /\ DOMAIN daemon = {"mode", "services", "containers"}
      /\ IsFiniteSet(DOMAIN daemon.containers) /\ Window \in Nat
      /\ \A i \in DOMAIN daemon.services :
            DOMAIN daemon.services[i].tasks \subseteq DOMAIN daemon.services[i].ended
  BY DockerAssumption DEF DaemonKept, DockerAssumption
<1>2. CASE now' = now + 1 /\ UNCHANGED daemon
  BY <1>1, <1>2 DEF DaemonKept
<1>3. CASE ~ (now' = now + 1 /\ UNCHANGED daemon)
  <2>1. UNCHANGED now
    BY <1>3, SwarmMoves
  <2>2. PICK i \in DOMAIN daemon.services, t \in SwarmService :
           /\ \E k \in DOMAIN daemon.services[i].tasks : SameButSlot(daemon.services[i], t, k)
           /\ daemon' = [daemon EXCEPT !.services[i] = t]
    BY <1>3, SwarmMoves
  <2>3. /\ DOMAIN t.tasks = DOMAIN daemon.services[i].tasks
        /\ DOMAIN t.ended = DOMAIN daemon.services[i].ended
        /\ t.key = daemon.services[i].key /\ t.job = daemon.services[i].job
        /\ t.replicas = daemon.services[i].replicas
    BY <2>2 DEF SameButSlot
  <2>4. /\ daemon'.services = [daemon.services EXCEPT ![i] = t]
        /\ daemon'.containers = daemon.containers /\ DOMAIN daemon' = DOMAIN daemon
    BY <1>1, <2>2
  <2>5. daemon'.services \in Seq(SwarmService) /\ DOMAIN daemon'.services = DOMAIN daemon.services
    BY <1>1, <2>4, ExceptAt
  <2>6. \A j \in DOMAIN daemon.services :
           daemon'.services[j] = IF j = i THEN t ELSE daemon.services[j]
    BY <1>1, <2>4
  <2> HIDE <2>2, <2>4
  <2>7. \A j \in DOMAIN daemon'.services :
           DOMAIN daemon'.services[j].tasks \subseteq DOMAIN daemon'.services[j].ended
    BY <1>1, <2>3, <2>5, <2>6
  <2>8. DaemonKept'
    BY <1>1, <2>1, <2>4, <2>5, <2>7 DEF DaemonKept
  <2> QED BY <2>3, <2>4, <2>5, <2>6, <2>8
<1> QED BY <1>2, <1>3

LEMMA SwarmStep == ASSUME Inv, call.next \notin {"draw", "row"}, Swarm PROVE Inv'
<1>1. UNCHANGED <<rowVars, got, call>>
  BY SwarmMoves DEF Inv
<1>2. DaemonKept'
  BY SwarmKeeps DEF Inv
<1>3. CellIsVerdict' /\ IsRow(services)'
  <2>1. UNCHANGED rowVars
    BY <1>1
  <2>2. IsRow(services)'
    BY <2>1 DEF Inv, rowVars
  <2> QED BY <1>1, <2>1, <2>2, NotDrawn
<1>4. ListsCounted'
  BY <1>1 DEF Inv, ListsCounted
<1> QED BY <1>2, <1>3, <1>4 DEF Inv

\* A call of the collector.
LEMMA CollectStep == ASSUME Inv, Collect PROVE Inv'
<1>1. ASSUME NEW what, call = To(what), what # "row"  PROVE call.next # "row"
  BY <1>1 DEF To
<1>2. ASSUME NEW i, NEW what, call = Of(i, what), what # "row"  PROVE call.next # "row"
  BY <1>2 DEF Of
<1>3. call.next # "row" /\ UNCHANGED <<rowVars, daemon, now>>
  <2>1. ASSUME NEW c, Ask(c)  PROVE call = c /\ UNCHANGED <<rowVars, daemon, now>>
    BY <2>1 DEF Ask
  <2>2. CASE Info
    BY <1>1, <2>1, <2>2 DEF Info
  <2>3. CASE ListNodes
    BY <1>1, <2>1, <2>3 DEF ListNodes
  <2>4. CASE ListContainers
    <3>1. Ask(To("containers"))
      BY Zenon, <2>4 DEF ListContainers
    <3> QED BY <1>1, <2>1, <3>1
  <2>5. CASE ListServices
    BY <1>1, <2>1, <2>5 DEF ListServices
  <2>6. CASE ListedAll
    BY <1>2, <2>1, <2>6 DEF ListedAll
  <2>7. CASE MeasureDisk
    BY <1>1, <2>1, <2>7 DEF MeasureDisk
  <2>8. ASSUME NEW i, ListTasks(i)
        PROVE  call.next # "row" /\ UNCHANGED <<rowVars, daemon, now>>
    BY <1>2, <2>1, <2>8 DEF ListTasks
  <2>9. ASSUME NEW i, ListHistory(i)
        PROVE  call.next # "row" /\ UNCHANGED <<rowVars, daemon, now>>
    BY <1>2, <2>1, <2>9 DEF ListHistory
  <2> QED BY <2>2, <2>3, <2>4, <2>5, <2>6, <2>7, <2>8, <2>9 DEF Collect
<1>4. DaemonKept' /\ IsRow(services)' /\ CellIsVerdict'
  <2>1. UNCHANGED rowVars
    BY <1>3
  <2>2. IsRow(services)'
    BY <2>1 DEF Inv, rowVars
  <2>3. DaemonKept'
    BY <1>3 DEF Inv, DaemonKept
  <2> QED BY <1>3, <2>1, <2>2, <2>3, NotDrawn
<1>5. ListsCounted'
  <2>1. ASSUME got' = Nothing  PROVE ListsCounted'
    BY <2>1, EmptyList DEF ListsCounted, Nothing, NoFacts, Tallied
  <2>2. CASE UNCHANGED got
    BY <2>2 DEF Inv, ListsCounted
  <2>3. CASE Info
    BY <2>1, <2>2, <2>3 DEF Info, Unreachable
  <2>4. CASE ListNodes
    BY <2>2, <2>4 DEF ListNodes, Inv, ListsCounted, Nothing
  <2>5. CASE ListContainers
    <3>1. CASE got' = Nothing
      BY <2>1, <3>1
    <3>2. CASE got' # Nothing
      <4>1. PICK silent :
              got' = [got EXCEPT !.silent = silent, !.containers = ContainerServices(silent),
                        !.trouble = FoldLeft(LAMBDA es, c : AddEntry(es, ContainerTrouble(c)),
                                             <<>>, SelectSeq(daemon.containers, Grouped))]
        BY Zenon, <2>5, <3>2 DEF ListContainers, Unreachable
      <4>2. IsList(ContainerServices(silent))
        BY ContainersCounted DEF Inv, DaemonKept
      <4>3. /\ DOMAIN got' = DOMAIN got
            /\ got'.facts = got.facts /\ got'.services = got.services
            /\ got'.containers = ContainerServices(silent)
        BY <4>1 DEF Inv, ListsCounted, Nothing
      <4> QED BY <4>2, <4>3 DEF Inv, ListsCounted
    <3> QED BY <3>1, <3>2
  <2>6. CASE ListServices
    <3>1. CASE got' = [got EXCEPT !.retention = Retention]
      BY <3>1 DEF Inv, ListsCounted, Nothing
    <3> QED BY <2>1, <2>2, <2>6, <3>1 DEF ListServices, Unreachable
  <2>7. CASE ListedAll
    BY <2>2, <2>7 DEF ListedAll
  <2>8. CASE MeasureDisk
    BY <2>8 DEF MeasureDisk, Inv, ListsCounted, Nothing
  <2>9. ASSUME NEW i \in DOMAIN daemon.services, ListTasks(i)  PROVE ListsCounted'
    <3>1. PICK facts \in {ServiceTasks(daemon.services[i]), NoFacts} :
             \/ got' = [got EXCEPT !.facts = facts]
             \/ got' = [got EXCEPT !.services =
                           Append(got.services, ServiceStatus(daemon.services[i], facts, NoRun))]
      BY <2>9 DEF ListTasks
    <3>2. Tallied(facts)
      <4>1. Tallied(NoFacts)
        BY DEF Tallied, NoFacts
      <4>2. daemon.services[i] \in SwarmService
        BY DEF Inv, DaemonKept
      <4> QED BY <4>1, <4>2, TasksTallied
    <3>3. Counted(ServiceStatus(daemon.services[i], facts, NoRun))
      BY <3>2, StatusCounted, ServiceType DEF Inv, DaemonKept
    <3>4. IsList(Append(got.services, ServiceStatus(daemon.services[i], facts, NoRun)))
      BY <3>3, AppendList DEF Inv, ListsCounted
    <3>5. CASE got' = [got EXCEPT !.facts = facts]
      BY <3>2, <3>5 DEF Inv, ListsCounted, Nothing
    <3>6. CASE got' = [got EXCEPT !.services =
                         Append(got.services, ServiceStatus(daemon.services[i], facts, NoRun))]
      BY <3>4, <3>6 DEF Inv, ListsCounted, Nothing
    <3> QED BY <3>1, <3>5, <3>6
  <2>10. ASSUME NEW i \in DOMAIN daemon.services, ListHistory(i)  PROVE ListsCounted'
    <3>1. PICK run, trouble :
             got' = [got EXCEPT !.facts = NoFacts, !.trouble = trouble,
                       !.services = Append(got.services,
                                           ServiceStatus(daemon.services[i], got.facts, run))]
      BY Zenon, <2>10 DEF ListHistory
    <3>2. Counted(ServiceStatus(daemon.services[i], got.facts, run))
      BY StatusCounted, ServiceType DEF Inv, DaemonKept, ListsCounted
    <3>3. IsList(Append(got.services, ServiceStatus(daemon.services[i], got.facts, run)))
      BY <3>2, AppendList DEF Inv, ListsCounted
    <3>4. Tallied(NoFacts)
      BY DEF Tallied, NoFacts
    <3> QED BY <3>1, <3>3, <3>4 DEF Inv, ListsCounted, Nothing
  <2> QED BY <2>3, <2>4, <2>5, <2>6, <2>7, <2>8, <2>9, <2>10 DEF Collect
<1> QED BY <1>4, <1>5 DEF Inv

LEMMA InitInv == Init => Inv
<1> SUFFICES ASSUME Init PROVE Inv
  OBVIOUS
<1>1. PICK c \in Cases :
        /\ answer = c.answer
        /\ daemon = [mode |-> c.mode, services |-> c.services, containers |-> c.containers]
  BY DEF Init
<1>2. /\ IsAnswer(c.answer) /\ c.services \in Seq(SwarmService)
      /\ IsFiniteSet(DOMAIN c.containers)
  BY CasesAssumption DEF CasesAssumption
<1>3. DaemonKept
  <2>1. \A i \in DOMAIN c.services :
           DOMAIN c.services[i].tasks \subseteq DOMAIN c.services[i].ended
    BY CasesAssumption DEF CasesAssumption
  <2>2. now \in Nat /\ now > Window
    BY DockerAssumption DEF Init, DockerAssumption
  <2> QED BY <1>1, <1>2, <2>1, <2>2 DEF DaemonKept
<1>4. ListsCounted
  BY EmptyList DEF Init, ListsCounted, Nothing, NoFacts, Tallied
<1>5. IsRow(services)
  <2>1. services = <<>> /\ DOMAIN services = {}
    BY DEF Init
  <2> QED BY <2>1, FS_EmptySet DEF IsRow
<1>6. CellIsVerdict
  BY <1>1, <1>2 DEF Init, CellIsVerdict
<1> QED BY <1>3, <1>4, <1>5, <1>6 DEF Inv

LEMMA DrawRowStep == ASSUME Inv, DrawRow PROVE Inv'
<1>1. DaemonKept' /\ ListsCounted'
  BY DEF Inv, DrawRow, DaemonKept, ListsCounted
<1>2. CellIsVerdict'
  BY DEF Inv, DrawRow, CellIsVerdict
<1>3. IsRow(services)'
  <2>1. IsList(Listed)
    BY ConcatList DEF Inv, ListsCounted, Listed
  <2>2. PICK T \in SUBSET (DOMAIN Listed) : services' = Restrict(Listed, T)
    <3>1. PICK k : services' = Restrict(Listed, {i \in DOMAIN Listed : RowKey(Listed[i]) = k})
      BY DEF DrawRow, AllRows
    <3>2. {i \in DOMAIN Listed : RowKey(Listed[i]) = k} \in SUBSET (DOMAIN Listed)
      OBVIOUS
    <3> QED BY <3>1, <3>2
  <2> QED BY <2>1, <2>2, PartOfList
<1> QED BY <1>1, <1>2, <1>3 DEF Inv

\* The icon is a function of the row and the verdict.
LEMMA SameIcon == ASSUME UNCHANGED <<services, cluster>> PROVE VerdictIcon' = VerdictIcon
<1>1. services' = services /\ cluster' = cluster
  OBVIOUS
<1>2. Running' = Running /\ Starting' = Starting /\ Wanted' = Wanted
  BY <1>1 DEF Running, Starting, Wanted, Map, Total
<1>3. AllJobs' = AllJobs
  BY <1>1 DEF AllJobs
<1>4. Runs' = Runs
  BY <1>1 DEF Runs
<1>5. Newest' = Newest
  BY <1>1, <1>4 DEF Newest
<1>6. JobIcon' = JobIcon
  BY <1>1, <1>2, <1>4, <1>5 DEF JobIcon, Map, Total
<1> QED BY <1>1, <1>2, <1>3, <1>6 DEF VerdictIcon

LEMMA RowStep == ASSUME Inv, Row PROVE Inv'
<1>1. DaemonKept' /\ ListsCounted' /\ IsRow(services)'
  BY DEF Inv, Row, Probe, Draw, DaemonKept, ListsCounted
<1>2. CASE Probe
  <2>1. CellIsVerdict'
    BY <1>2 DEF Inv, Row, Probe, CellIsVerdict
  <2> QED BY <1>1, <2>1 DEF Inv
<1>3. CASE Draw
  <2>1. VerdictIcon' = VerdictIcon
    BY <1>3, SameIcon DEF Draw
  <2>2. CellIsVerdict'
    BY <1>3, <2>1 DEF Inv, Row, Draw, CellIsVerdict
  <2> QED BY <1>1, <2>2 DEF Inv
<1> QED BY <1>2, <1>3 DEF Row

LEMMA StutterStep == ASSUME Inv, UNCHANGED vars PROVE Inv'
<1>1. UNCHANGED rowVars /\ UNCHANGED <<daemon, now, call, got>>
  BY DEF vars
<1>2. VerdictIcon' = VerdictIcon
  BY <1>1, SameIcon DEF rowVars
<1>3. CellIsVerdict'
  BY <1>1, <1>2 DEF Inv, rowVars, CellIsVerdict
<1> QED BY <1>1, <1>3 DEF Inv, rowVars, DaemonKept, ListsCounted

\* The invariant holds in every state: what a row counts was counted by the daemon,
\* and what its cell shows is what the row and the verdict of its cluster say.
THEOREM Invariance == Spec => []Inv
<1>1. Init => Inv
  BY InitInv
<1>2. Inv /\ [Next]_vars => Inv'
  BY SwarmStep, CollectStep, DrawRowStep, RowStep, StutterStep DEF Next, Drawn
<1> QED BY <1>1, <1>2, PTL DEF Spec

-----------------------------------------------------------------------------
(* What a cell says. *)

\* Of the two icons the worse is shown: the row is green only if both are, and is an
\* alarm if Docker counts nothing that runs or comes up, or the verdict is one.
LEMMA WorseIsShown ==
  ASSUME NEW running \in Nat, NEW wanted \in Nat, NEW starting \in Nat,
         NEW icon \in {"ok", "unknown", "warn", "dead", "failed"}
  PROVE  LET shown == CombinedIcon(ReplicaIcon(running, wanted, starting), icon) IN
         /\ shown = "ok" <=> icon = "ok" /\ ~ (running < wanted)
         /\ shown \in {"dead", "failed"} <=>
               (running = 0 /\ starting = 0 /\ wanted > 0) \/ icon \in {"dead", "failed"}
<1>1. ReplicaIcon(running, wanted, starting) \in {"paused", "ok"} <=> ~ (running < wanted)
  BY DEF ReplicaIcon
<1>2. ReplicaIcon(running, wanted, starting) = "dead" <=>
        running = 0 /\ starting = 0 /\ wanted > 0
  BY DEF ReplicaIcon
<1>3. ReplicaIcon(running, wanted, starting) \in {"paused", "ok", "warn", "dead"}
  BY DEF ReplicaIcon
<1>4. ASSUME NEW replica \in {"paused", "ok", "warn", "dead"}
      PROVE  /\ CombinedIcon(replica, icon) = "ok" <=>
                   icon = "ok" /\ replica \in {"paused", "ok"}
             /\ CombinedIcon(replica, icon) \in {"dead", "failed"} <=>
                   replica = "dead" \/ icon \in {"dead", "failed"}
  BY DEF CombinedIcon, Severity
<1> QED BY <1>1, <1>2, <1>3, <1>4

\* The icon of the verdict, or of no verdict.
VerdictShown == IF cluster = Missing THEN "unknown" ELSE ClusterIcon(cluster)

LEMMA ShownIsTrue ==
  ASSUME Inv
  PROVE  /\ VerdictShown \in {"ok", "unknown", "warn", "dead", "failed"}
         /\ VerdictShown = "ok" <=> cluster # Missing /\ SaysWell(answer)
         /\ VerdictShown \in {"dead", "failed"} <=>
               cluster # Missing /\ (SaysLost(answer) \/ CheckFailed(answer) \/ Changed(answer))
BY Icons DEF Inv, CellIsVerdict, VerdictShown, IconIsTrue

LEMMA CellIsBoth ==
  ASSUME Inv, Judged
  PROVE  cell = CombinedIcon(ReplicaIcon(Running, Wanted, Starting), VerdictShown)
BY DEF Inv, Judged, CellIsVerdict, VerdictIcon, VerdictShown

\* A row of a cluster is green exactly when its tool said that the cluster is well and
\* Docker counts every task it wants (verdict_icon, panels.py).
THEOREM GreenWasEarned == Spec => []GreenIsEarned
<1>1. ASSUME Inv, Judged
      PROVE  cell = "ok" <=> cluster # Missing /\ SaysWell(answer) /\ ~ Degraded
  <2>1. Running \in Nat /\ Wanted \in Nat /\ Starting \in Nat
    BY <1>1, RowType DEF Inv
  <2>2. cell = "ok" <=> VerdictShown = "ok" /\ ~ (Running < Wanted)
    BY <1>1, <2>1, CellIsBoth, ShownIsTrue, WorseIsShown
  <2> QED BY <1>1, <2>2, ShownIsTrue DEF Degraded
<1>2. Inv => GreenIsEarned
  BY <1>1 DEF GreenIsEarned
<1> QED BY <1>2, Invariance, PTL

\* A row of a cluster is an alarm exactly when Docker counts an outage, no task being on
\* its way in any of the states before `running`, or the tool said that the quorum is lost
\* or failed; one more answer may be an alarm, a disputed one (verdict_icon, panels.py).
THEOREM AlarmWasTrue == Spec => []AlarmIsTrue
<1>1. ASSUME Inv, Judged
      PROVE  cell \in {"dead", "failed"} <=>
               Broken \/ (cluster # Missing /\ Changed(answer))
  <2>1. Running \in Nat /\ Wanted \in Nat /\ Starting \in Nat
    BY <1>1, RowType DEF Inv
  <2>2. cell \in {"dead", "failed"} <=>
          (Running = 0 /\ Starting = 0 /\ Wanted > 0) \/ VerdictShown \in {"dead", "failed"}
    BY <1>1, <2>1, CellIsBoth, ShownIsTrue, WorseIsShown
  <2> QED BY <1>1, <2>2, ShownIsTrue DEF Outage, Broken
<1>2. Changed(answer) => Disputed(answer)
  BY DEF Changed, Disputed
<1>3. Inv => AlarmIsTrue
  BY <1>1, <1>2 DEF AlarmIsTrue
<1> QED BY <1>3, Invariance, PTL

\* A member on another timeline than the primary counts as down and shows no distance;
\* a distance is shown of none but a member that is up and behind (_pg_members,
\* clusters.py).
THEOREM StoppedIsDown == Spec => []StoppedIsNotSlow
<1>1. ASSUME NEW rows \in Seq(PgRow), NEW i \in DOMAIN rows
      PROVE  LET m == PgMember(rows, i) IN
             /\ Foreign(rows, i) => m.healthy = "no" /\ m.lag = NoLag
             /\ m.lag # NoLag =>
                  /\ m.healthy = "yes"
                  /\ \E p \in Primaries(rows) : rows[p].lsn = rows[i].lsn + m.lag
                  /\ m.lag > 0
  <2> DEFINE m == PgMember(rows, i)
             last == LastPrimary(rows)
  <2>1. /\ m.healthy = Measured(~ Diverged(rows[i], last)
                                 /\ rows[i].reported \in {"primary", "secondary"})
        /\ m.lag = IF rows[i].reported = "secondary" /\ ~ Diverged(rows[i], last)
                      /\ ~ rows[i].moving
                   THEN LagDistance(rows[i].lsn, last.lsn) ELSE NoLag
    BY DEF PgMember
  <2>2. Diverged(rows[i], last) <=> Foreign(rows, i)
    BY ForeignRows
  <2>3. last.lsn = NoLsn \/ \E p \in Primaries(rows) : last = rows[p]
    BY ForeignRows
  <2>4. \A j \in DOMAIN rows : rows[j].lsn \in Nat
    <3>1. \A j \in DOMAIN rows : rows[j] \in PgRow
      OBVIOUS
    <3> QED BY <3>1 DEF PgRow
  <2>5. Primaries(rows) \subseteq DOMAIN rows
    BY DEF Primaries
  <2> HIDE DEF m, last
  <2>6. Foreign(rows, i) => m.healthy = "no" /\ m.lag = NoLag
    BY <2>1, <2>2 DEF Measured
  <2>7. ASSUME m.lag # NoLag
        PROVE  /\ m.healthy = "yes"
               /\ \E p \in Primaries(rows) : rows[p].lsn = rows[i].lsn + m.lag
               /\ m.lag > 0
    <3>1. m.healthy = "yes" /\ m.lag = LagDistance(rows[i].lsn, last.lsn)
      BY <2>1, <2>7 DEF Measured
    <3>2. last.lsn # NoLsn /\ ~ (last.lsn <= rows[i].lsn) /\ m.lag = last.lsn - rows[i].lsn
      BY <2>7, <3>1 DEF LagDistance
    <3>3. PICK p \in Primaries(rows) : last = rows[p]
      BY <2>3, <3>2
    <3>4. rows[p].lsn \in Nat /\ rows[i].lsn \in Nat
      BY <2>4, <2>5
    <3>5. rows[p].lsn = rows[i].lsn + m.lag /\ m.lag > 0
      BY <3>2, <3>3, <3>4
    <3> QED BY <3>1, <3>5
  <2> QED BY <2>6, <2>7 DEF m
<1>2. Inv => StoppedIsNotSlow
  <2> SUFFICES ASSUME Inv, cluster # Missing, answer.of = "pg_autoctl",
                      NEW i \in DOMAIN answer.rows
               PROVE  LET m == cluster.members[i] IN
                      /\ Foreign(answer.rows, i) => m.healthy = "no" /\ m.lag = NoLag
                      /\ m.lag # NoLag =>
                           /\ m.healthy = "yes"
                           /\ \E p \in Primaries(answer.rows) :
                                  answer.rows[p].lsn = answer.rows[i].lsn + m.lag
                           /\ m.lag > 0
    BY DEF StoppedIsNotSlow
  <2>1. answer.rows \in Seq(PgRow)
    BY DEF Inv, CellIsVerdict, IsAnswer
  <2>2. cluster = PgState(answer.rows)
    BY DEF Inv, CellIsVerdict, Verdict
  <2>3. answer.rows # <<>>
    BY <2>1
  <2>4. cluster.members[i] = PgMember(answer.rows, i)
    BY <2>2, <2>3 DEF PgState, Blank
  <2> QED BY <1>1, <2>1, <2>4
<1> QED BY <1>2, Invariance, PTL

-----------------------------------------------------------------------------
(* The column of memory: what the listings keep of each container's reading. *)

\* The name under which the memory of a listed service was kept.
NameOf(s) == IF s.swarm THEN s.key ELSE s.stack \o s.key

Identity(s) == <<s.stack, s.key>>

\* Names of services do not change, nor do containers while they are shown.
DaemonNamed ==
    /\ \A i \in DOMAIN daemon.containers : IsWeighable(daemon.containers[i])
    /\ \A i \in DOMAIN daemon.services : "key" \in DOMAIN daemon.services[i]
    /\ \A i, j \in DOMAIN daemon.services :
          daemon.services[i].key = daemon.services[j].key => i = j

\* Each service listed so far has the memory kept under its name.
ServicesWeighed ==
    \A i \in DOMAIN got.services :
        /\ i \in DOMAIN daemon.services
        /\ got.services[i].key = daemon.services[i].key /\ got.services[i].swarm
        /\ got.services[i].memory = MemoryOf(NameOf(got.services[i]), got.silent)

GroupsWeighed ==
    /\ \A i \in DOMAIN got.containers :
          /\ ~ got.containers[i].swarm
          /\ got.containers[i].memory = MemoryOf(NameOf(got.containers[i]), got.silent)
          /\ \E c \in Containers : Grouped(c) /\ Key(c) = Identity(got.containers[i])
    /\ \A i, j \in DOMAIN got.containers :
          Identity(got.containers[i]) = Identity(got.containers[j]) => i = j

GroupsComplete ==
    \A c \in Containers :
        Grouped(c) => \E i \in DOMAIN got.containers : Key(c) = Identity(got.containers[i])

\* The calls come in their order.
InOrder ==
    /\ call.next \in {"info", "nodes", "containers", "services"} => got.services = <<>>
    /\ call.next \in {"tasks", "history"} => call.of = Len(got.services) + 1
    /\ call.next \in {"services", "tasks", "history", "disk"} \/ got.reachable => GroupsComplete

MemoryInv == DaemonNamed /\ ServicesWeighed /\ GroupsWeighed /\ InOrder

LEMMA SameMemory ==
  ASSUME daemon'.containers = daemon.containers, NEW name, NEW silent
  PROVE  MemoryOf(name, silent)' = MemoryOf(name, silent)
<1>1. Held(name, silent)' = Held(name, silent)
  BY DEF Held, Measures, Origin, Grouped, IsCompletedJob
<1>2. \A held : Limit(held)' = Limit(held)
  BY DEF Limit, Total
<1> QED BY <1>1, <1>2 DEF MemoryOf, Limit, Total

LEMMA SameGroups ==
  ASSUME daemon'.containers = daemon.containers
  PROVE  /\ Containers' = Containers
         /\ GroupsWeighed /\ UNCHANGED <<got.containers, got.silent>> => GroupsWeighed'
         /\ GroupsComplete /\ UNCHANGED got.containers => GroupsComplete'
<1>1. Containers' = Containers
  BY DEF Containers, ToSet
<1>2. ASSUME GroupsWeighed, UNCHANGED <<got.containers, got.silent>>  PROVE GroupsWeighed'
  <2>1. ASSUME NEW i \in DOMAIN got.containers
        PROVE  MemoryOf(NameOf(got.containers[i]), got.silent)'
                  = MemoryOf(NameOf(got.containers[i]), got.silent)
    <3>1. PICK name, silent : name = NameOf(got.containers[i]) /\ silent = got.silent
      OBVIOUS
    <3>2. (NameOf(got.containers[i]))' = name /\ got.silent' = silent
      BY <1>2, <3>1 DEF NameOf
    <3> QED BY <3>1, <3>2, SameMemory DEF MemoryOf
  <2> QED BY <1>1, <1>2, <2>1 DEF GroupsWeighed, NameOf, Identity
<1>3. ASSUME GroupsComplete, UNCHANGED got.containers  PROVE GroupsComplete'
  BY <1>1, <1>3 DEF GroupsComplete, Identity
<1> QED BY <1>1, <1>2, <1>3

\* What is listed of services stays as it was.
LEMMA SameServices ==
  ASSUME daemon'.containers = daemon.containers,
         DOMAIN daemon'.services = DOMAIN daemon.services,
         \A i \in DOMAIN daemon.services : daemon'.services[i].key = daemon.services[i].key,
         UNCHANGED <<got.services, got.silent>>, ServicesWeighed
  PROVE  ServicesWeighed'
<1>1. ASSUME NEW i \in DOMAIN got.services
      PROVE  MemoryOf(NameOf(got.services[i]), got.silent)'
                = MemoryOf(NameOf(got.services[i]), got.silent)
  <2>1. PICK name, silent : name = NameOf(got.services[i]) /\ silent = got.silent
    OBVIOUS
  <2>2. (NameOf(got.services[i]))' = name /\ got.silent' = silent
    BY <2>1 DEF NameOf
  <2> QED BY <2>1, <2>2, SameMemory DEF MemoryOf
<1> QED BY <1>1 DEF ServicesWeighed, NameOf

\* Swarm moves tasks, and nothing that a name or a reading depends on.
LEMMA SwarmKeepsNames ==
  ASSUME Inv, DaemonNamed, Swarm
  PROVE  /\ daemon'.containers = daemon.containers
         /\ DOMAIN daemon'.services = DOMAIN daemon.services
         /\ \A i \in DOMAIN daemon.services :
               /\ "key" \in DOMAIN daemon'.services[i]
               /\ daemon'.services[i].key = daemon.services[i].key
         /\ UNCHANGED <<got, call>>
<1>1. DaemonKept'
  BY SwarmKeeps DEF Inv
<1>2. \A s \in SwarmService : "key" \in DOMAIN s
  BY DEF SwarmService
<1>3. \A i \in DOMAIN daemon'.services : "key" \in DOMAIN daemon'.services[i]
  BY <1>1, <1>2 DEF DaemonKept
<1> QED BY <1>3, SwarmKeeps, SwarmMoves DEF Inv

LEMMA SwarmWeighs ==
  ASSUME Inv, MemoryInv, call.next \notin {"draw", "row"}, Swarm  PROVE MemoryInv'
<1>1. /\ daemon'.containers = daemon.containers
      /\ DOMAIN daemon'.services = DOMAIN daemon.services
      /\ \A i \in DOMAIN daemon.services :
            /\ "key" \in DOMAIN daemon'.services[i]
            /\ daemon'.services[i].key = daemon.services[i].key
      /\ UNCHANGED <<got, call>>
  BY SwarmKeepsNames DEF MemoryInv
<1>2. DaemonNamed'
  BY <1>1 DEF MemoryInv, DaemonNamed, IsWeighable
<1>3. ServicesWeighed' /\ GroupsWeighed'
  BY <1>1, SameServices, SameGroups DEF MemoryInv
<1>4. InOrder'
  BY <1>1, SameGroups DEF MemoryInv, InOrder
<1> QED BY <1>2, <1>3, <1>4 DEF MemoryInv

\* Every group is listed once, with the memory kept under its name.
LEMMA GroupsAreListed ==
  ASSUME IsFiniteSet(DOMAIN daemon.containers), NEW silent
  PROVE  LET all == ContainerServices(silent)
             id(i) == Identity(all[i])
         IN  /\ \A i \in DOMAIN all :
                   /\ ~ all[i].swarm
                   /\ all[i].memory = MemoryOf(NameOf(all[i]), silent)
                   /\ \E c \in Containers : Grouped(c) /\ Key(c) = id(i)
             /\ \A i, j \in DOMAIN all : id(i) = id(j) => i = j
             /\ \A c \in Containers : Grouped(c) => \E i \in DOMAIN all : Key(c) = id(i)
<1> DEFINE keys == {Key(c) : c \in {x \in Containers : Grouped(x)}}
           listed == {ContainerService(k, silent) : k \in keys}
           all == ContainerServices(silent)
<1>1. all = SetToSeq(listed)
  BY DEF ContainerServices
<1>2. IsFiniteSet(listed)
  BY GroupsFinite DEF ContainerServices
<1>3. /\ \A i \in DOMAIN all : all[i] \in listed
      /\ \A i, j \in DOMAIN all : all[i] = all[j] => i = j
      /\ \A s \in listed : \E i \in DOMAIN all : all[i] = s
  <2> HIDE DEF listed, all
  <2> QED BY <1>1, <1>2, SetToSeqLists
<1>4. \A c : /\ Key(c) \in keys => Key(c) = <<c.project, c.name>>
  BY DEF Key
<1>5. ASSUME NEW k
      PROVE  LET s == ContainerService(k, silent) IN
             /\ s.swarm = FALSE /\ s.stack = k[1] /\ s.key = k[2]
             /\ s.memory = MemoryOf(k[1] \o k[2], silent)
  BY DEF ContainerService
<1>6. ASSUME NEW s \in listed
      PROVE  /\ ~ s.swarm /\ s.memory = MemoryOf(NameOf(s), silent)
             /\ \E c \in Containers :
                   Grouped(c) /\ Key(c) = Identity(s) /\ s = ContainerService(Identity(s), silent)
  <2>1. PICK c \in Containers : Grouped(c) /\ s = ContainerService(Key(c), silent)
    BY <1>6
  <2>2. Key(c)[1] = c.project /\ Key(c)[2] = c.name /\ Key(c) = <<c.project, c.name>>
    BY DEF Key
  <2>3. Key(c) = Identity(s)
    BY <1>5, <2>1, <2>2 DEF Identity
  <2>4. ~ s.swarm /\ s.memory = MemoryOf(NameOf(s), silent)
    BY <1>5, <2>1 DEF NameOf
  <2> QED BY <2>1, <2>3, <2>4
<1>7. \A c \in Containers : Grouped(c) => ContainerService(Key(c), silent) \in listed
  OBVIOUS
<1>8. ASSUME NEW c \in Containers, Grouped(c), NEW s \in listed,
             s = ContainerService(Key(c), silent)
      PROVE  Key(c) = Identity(s)
  <2>1. Key(c)[1] = c.project /\ Key(c)[2] = c.name /\ Key(c) = <<c.project, c.name>>
    BY DEF Key
  <2> QED BY <1>5, <1>8, <2>1 DEF Identity
<1> HIDE DEF listed, all
<1>9. \A i, j \in DOMAIN all : Identity(all[i]) = Identity(all[j]) => i = j
  BY <1>3, <1>6
<1>10. \A c \in Containers : Grouped(c) => \E i \in DOMAIN all : Key(c) = Identity(all[i])
  BY <1>3, <1>7, <1>8
<1> QED BY <1>3, <1>6, <1>9, <1>10 DEF all

LEMMA CollectWeighs == ASSUME Inv, MemoryInv, Collect  PROVE MemoryInv'
<1>1. UNCHANGED daemon
  BY Zenon DEF Collect, Info, ListNodes, ListContainers, ListServices, ListedAll, MeasureDisk,
         ListTasks, ListHistory, Ask
<1>2. DaemonNamed'
  BY <1>1 DEF MemoryInv, DaemonNamed
<1>3. DOMAIN got = DOMAIN Nothing
  BY DEF Inv, ListsCounted
<1>4. ASSUME Unreachable  PROVE MemoryInv'
  <2>1. /\ got'.services = <<>> /\ got'.containers = <<>> /\ got'.reachable = FALSE
        /\ call'.next = "draw"
    BY <1>4 DEF Unreachable, Nothing, To
  <2> QED BY <1>2, <2>1 DEF MemoryInv, ServicesWeighed, GroupsWeighed, InOrder
<1>5. ASSUME UNCHANGED <<got.services, got.containers, got.silent>>
      PROVE  /\ ServicesWeighed' /\ GroupsWeighed'
             /\ GroupsComplete => GroupsComplete'
  BY <1>1, <1>5, SameServices, SameGroups DEF MemoryInv
<1>6. CASE Info
  <2>1. CASE UNCHANGED got
    <3>1. \/ call.next = "info" /\ call'.next \in {"containers", "nodes"}
          \/ Unreachable
      BY <1>6 DEF Info, Ask, To
    <3>2. CASE ~ Unreachable
      BY <1>2, <1>5, <2>1, <3>1, <3>2 DEF MemoryInv, InOrder
    <3> QED BY <1>4, <3>2
  <2> QED BY <1>4, <1>6, <2>1 DEF Info
<1>7. CASE ListNodes
  <2>1. call.next = "nodes" /\ call'.next = "containers"
    BY <1>7 DEF ListNodes, Ask, To
  <2>2. UNCHANGED <<got.services, got.containers, got.silent, got.reachable>>
    BY <1>3, <1>7 DEF ListNodes, Nothing
  <2> QED BY <1>2, <1>5, <2>1, <2>2 DEF MemoryInv, InOrder
<1>8. CASE ListContainers
  <2>1. CASE Unreachable
    BY <1>4, <2>1
  <2>2. CASE ~ Unreachable
    <3>1. call.next = "containers" /\ call'.next \in {"disk", "services"}
      <4>1. call = To("containers")
        BY Zenon, <1>8 DEF ListContainers, Ask
      <4>2. call' = To(IF daemon.mode = "standalone" THEN "disk" ELSE "services")
        BY Zenon, <1>8, <2>2 DEF ListContainers
      <4> QED BY <4>1, <4>2 DEF To
    <3>2. PICK silent :
            got' = [got EXCEPT !.silent = silent, !.containers = ContainerServices(silent),
                      !.trouble = FoldLeft(LAMBDA es, c : AddEntry(es, ContainerTrouble(c)),
                                           <<>>, SelectSeq(daemon.containers, Grouped))]
      BY Zenon, <1>8, <2>2 DEF ListContainers
    <3>3. /\ got'.silent = silent /\ got'.containers = ContainerServices(silent)
          /\ got'.services = <<>>
      BY <1>3, <3>1, <3>2 DEF Nothing, MemoryInv, InOrder
    <3>4. ServicesWeighed'
      BY <3>3 DEF ServicesWeighed
    <3>5. GroupsWeighed' /\ GroupsComplete'
      <4>1. Containers' = Containers
        BY <1>1, SameGroups
      <4>2. IsFiniteSet(DOMAIN daemon.containers)
        BY DEF Inv, DaemonKept
      <4>3. \A name : MemoryOf(name, silent)' = MemoryOf(name, silent)
        BY <1>1, SameMemory
      <4>4. PICK all : all = ContainerServices(silent)
        OBVIOUS
      <4>5. ASSUME NEW i \in DOMAIN all
            PROVE  MemoryOf(NameOf(got.containers[i]), got.silent)'
                     = MemoryOf(NameOf(all[i]), silent)
        <5>1. PICK name : name = NameOf(all[i])
          OBVIOUS
        <5>2. NameOf(got.containers[i])' = name /\ got'.silent = silent
          BY <3>3, <4>4, <5>1 DEF NameOf
        <5> QED BY <4>3, <5>1, <5>2 DEF MemoryOf
      <4>6. /\ \A i \in DOMAIN all :
                   /\ ~ all[i].swarm
                   /\ all[i].memory = MemoryOf(NameOf(all[i]), silent)
                   /\ \E c \in Containers : Grouped(c) /\ Key(c) = Identity(all[i])
            /\ \A i, j \in DOMAIN all : Identity(all[i]) = Identity(all[j]) => i = j
            /\ \A c \in Containers :
                  Grouped(c) => \E i \in DOMAIN all : Key(c) = Identity(all[i])
        BY <4>2, <4>4, GroupsAreListed
      <4>7. got'.containers = all
        BY <3>3, <4>4
      <4> QED BY <4>1, <4>5, <4>6, <4>7 DEF GroupsWeighed, GroupsComplete, Identity
    <3> QED BY <1>2, <3>1, <3>3, <3>4, <3>5 DEF MemoryInv, InOrder
  <2> QED BY <2>1, <2>2
<1>9. CASE ListServices
  <2>1. CASE Unreachable
    BY <1>4, <2>1
  <2>2. CASE ~ Unreachable
    <3>1. call.next = "services" /\ call'.next = "tasks" /\ call'.of = 1
      BY <1>9, <2>2 DEF ListServices, Ask, To, Of
    <3>2. UNCHANGED <<got.services, got.containers, got.silent, got.reachable>>
      BY <1>3, <1>9, <2>2 DEF ListServices, Nothing
    <3> QED BY <1>2, <1>5, <3>1, <3>2 DEF MemoryInv, InOrder
  <2> QED BY <2>1, <2>2
<1>10. CASE ListedAll
  <2>1. call.next = "tasks" /\ call'.next = "disk" /\ UNCHANGED got
    BY <1>10 DEF ListedAll, Ask, To, Of
  <2> QED BY <1>2, <1>5, <2>1 DEF MemoryInv, InOrder
<1>11. CASE MeasureDisk
  <2>1. call.next = "disk" /\ call'.next = "draw"
    BY <1>11 DEF MeasureDisk, Ask, To
  <2>2. UNCHANGED <<got.services, got.containers, got.silent>>
    BY <1>3, <1>11 DEF MeasureDisk, Nothing
  <2> QED BY <1>2, <1>5, <2>1, <2>2 DEF MemoryInv, InOrder
<1>12. ASSUME NEW i \in DOMAIN daemon.services, call.next \in {"tasks", "history"}, call.of = i,
              NEW facts, NEW run,
              got'.services = Append(got.services, ServiceStatus(daemon.services[i], facts, run)),
              UNCHANGED <<got.containers, got.silent>>,
              call'.next = "tasks", call'.of = i + 1
       PROVE  MemoryInv'
  <2> DEFINE new == ServiceStatus(daemon.services[i], facts, run)
             old == got.services
  <2>1. i = Len(old) + 1
    BY <1>12 DEF MemoryInv, InOrder
  <2>2. PICK S : old \in Seq(S)
    BY DEF Inv, ListsCounted, IsList
  <2>3. /\ DOMAIN got'.services = DOMAIN old \cup {i} /\ got'.services[i] = new
        /\ \A j \in DOMAIN old : got'.services[j] = old[j] /\ j # i
        /\ Len(got'.services) = i /\ i \in Nat
    <3>1. \A x : old \in Seq(S \cup {x})
      BY <2>2
    <3>2. old \in Seq(S \cup {new})
      BY <3>1
    <3>3. new \in S \cup {new}
      OBVIOUS
    <3> HIDE DEF new, old
    <3> QED BY <1>12, <2>1, <3>2, <3>3 DEF new, old
  <2>4. /\ new.key = daemon.services[i].key /\ new.swarm = TRUE
        /\ new.memory = MemoryOf(NameOf(new), got.silent)
    BY DEF ServiceStatus, NameOf
  <2> HIDE DEF new, old
  <2>5. ASSUME NEW s  PROVE MemoryOf(NameOf(s), got.silent)' = MemoryOf(NameOf(s), got.silent)
    <3>1. PICK name, silent : name = NameOf(s) /\ silent = got.silent
      OBVIOUS
    <3>2. got'.silent = silent
      BY <1>12, <3>1
    <3> QED BY <1>1, <3>1, <3>2, SameMemory DEF MemoryOf, NameOf
  <2>6. ServicesWeighed'
    <3>1. ASSUME NEW j \in DOMAIN got'.services
          PROVE  /\ j \in DOMAIN daemon.services
                 /\ got'.services[j].key = daemon.services[j].key /\ got'.services[j].swarm
                 /\ got'.services[j].memory = MemoryOf(NameOf(got'.services[j]), got.silent)
      <4>1. CASE j = i
        BY <2>3, <2>4, <4>1
      <4>2. CASE j \in DOMAIN old
        BY <2>3, <4>2 DEF MemoryInv, ServicesWeighed, old
      <4> QED BY <2>3, <3>1, <4>1, <4>2
    <3>2. ASSUME NEW j \in DOMAIN got'.services
          PROVE  got'.services[j].memory = MemoryOf(NameOf(got.services[j]), got.silent)'
      <4>1. PICK s : s = got'.services[j]
        OBVIOUS
      <4>2. s.memory = MemoryOf(NameOf(s), got.silent)
        BY <3>1, <4>1
      <4> QED BY <2>5, <4>1, <4>2 DEF NameOf, MemoryOf
    <3> QED BY <1>1, <3>1, <3>2 DEF ServicesWeighed
  <2>7. GroupsWeighed' /\ (GroupsComplete => GroupsComplete')
    BY <1>1, <1>12, SameGroups DEF MemoryInv
  <2>8. InOrder'
    BY <1>12, <2>3, <2>7 DEF MemoryInv, InOrder
  <2> QED BY <1>2, <2>6, <2>7, <2>8 DEF MemoryInv
<1>13. ASSUME NEW i \in DOMAIN daemon.services, ListTasks(i)  PROVE MemoryInv'
  <2>1. call.next = "tasks" /\ call.of = i
    BY <1>13 DEF ListTasks, Ask, Of
  <2>2. PICK facts :
           \/ got' = [got EXCEPT !.facts = facts] /\ call' = Of(i, "history")
           \/ /\ got' = [got EXCEPT !.services =
                            Append(got.services, ServiceStatus(daemon.services[i], facts, NoRun))]
              /\ call' = Of(i + 1, "tasks")
    BY <1>13 DEF ListTasks
  <2>3. CASE got' = [got EXCEPT !.facts = facts] /\ call' = Of(i, "history")
    <3>1. UNCHANGED <<got.services, got.containers, got.silent>>
      BY <1>3, <2>3 DEF Nothing
    <3>2. call'.next = "history" /\ call'.of = i
      BY <2>3 DEF Of
    <3> QED BY <1>2, <1>5, <2>1, <3>1, <3>2 DEF MemoryInv, InOrder
  <2>4. CASE /\ got' = [got EXCEPT !.services =
                           Append(got.services, ServiceStatus(daemon.services[i], facts, NoRun))]
             /\ call' = Of(i + 1, "tasks")
    <3>1. /\ got'.services
                = Append(got.services, ServiceStatus(daemon.services[i], facts, NoRun))
          /\ UNCHANGED <<got.containers, got.silent>>
      BY <1>3, <2>4 DEF Nothing
    <3>2. call'.next = "tasks" /\ call'.of = i + 1
      BY <2>4 DEF Of
    <3> QED BY <1>12, <2>1, <3>1, <3>2
  <2> QED BY <2>2, <2>3, <2>4
<1>14. ASSUME NEW i \in DOMAIN daemon.services, ListHistory(i)  PROVE MemoryInv'
  <2>1. call.next = "history" /\ call.of = i
    BY <1>14 DEF ListHistory, Ask, Of
  <2>2. PICK run, trouble :
           /\ got' = [got EXCEPT !.facts = NoFacts, !.trouble = trouble,
                        !.services = Append(got.services,
                                            ServiceStatus(daemon.services[i], got.facts, run))]
           /\ call' = Of(i + 1, "tasks")
    BY Zenon, <1>14 DEF ListHistory
  <2>3. /\ got'.services
              = Append(got.services, ServiceStatus(daemon.services[i], got.facts, run))
        /\ UNCHANGED <<got.containers, got.silent>>
    BY <1>3, <2>2 DEF Nothing
  <2>4. call'.next = "tasks" /\ call'.of = i + 1
    BY <2>2 DEF Of
  <2> QED BY <1>12, <2>1, <2>3, <2>4
<1> QED BY <1>6, <1>7, <1>8, <1>9, <1>10, <1>11, <1>13, <1>14 DEF Collect

LEMMA WeighedInitially == Init => MemoryInv
<1> SUFFICES ASSUME Init  PROVE MemoryInv
  OBVIOUS
<1>1. PICK c \in Cases :
        daemon = [mode |-> c.mode, services |-> c.services, containers |-> c.containers]
  BY DEF Init
<1>2. /\ c.services \in Seq(SwarmService)
      /\ \A i, j \in DOMAIN c.services : c.services[i].key = c.services[j].key => i = j
      /\ \A i \in DOMAIN c.containers : IsWeighable(c.containers[i])
  BY CasesAssumption DEF CasesAssumption
<1>3. \A i \in DOMAIN c.services : "key" \in DOMAIN c.services[i]
  <2>1. \A i \in DOMAIN c.services : c.services[i] \in SwarmService
    BY <1>2
  <2>2. \A s \in SwarmService : "key" \in DOMAIN s
    BY DEF SwarmService
  <2> QED BY <2>1, <2>2
<1>4. DaemonNamed
  BY <1>1, <1>2, <1>3 DEF DaemonNamed
<1>5. ServicesWeighed /\ GroupsWeighed /\ InOrder
  BY DEF Init, Nothing, To, ServicesWeighed, GroupsWeighed, InOrder
<1> QED BY <1>4, <1>5 DEF MemoryInv

LEMMA ShownWeighs ==
  ASSUME MemoryInv, UNCHANGED <<daemon, got>>,
         \/ call.next \in {"draw", "row"} /\ call'.next = "row"
         \/ UNCHANGED call
  PROVE  MemoryInv'
<1>1. DaemonNamed'
  BY DEF MemoryInv, DaemonNamed
<1>2. ServicesWeighed' /\ GroupsWeighed'
  BY SameServices, SameGroups DEF MemoryInv
<1>3. InOrder'
  BY SameGroups DEF MemoryInv, InOrder
<1> QED BY <1>1, <1>2, <1>3 DEF MemoryInv

\* What the listings keep of the memory is what was read of it, service by service.
LEMMA MemoryKept == Spec => []MemoryInv
<1>1. Init => MemoryInv
  BY WeighedInitially
<1>2. Inv /\ MemoryInv /\ [Next]_vars => MemoryInv'
  <2> SUFFICES ASSUME Inv, MemoryInv, [Next]_vars  PROVE MemoryInv'
    OBVIOUS
  <2>1. CASE call.next \notin {"draw", "row"} /\ Swarm
    BY <2>1, SwarmWeighs
  <2>2. CASE Collect
    BY <2>2, CollectWeighs
  <2>3. CASE DrawRow
    <3>1. UNCHANGED <<daemon, got>> /\ call.next = "draw" /\ call'.next = "row"
      BY <2>3 DEF DrawRow, To
    <3> QED BY <3>1, ShownWeighs
  <2>4. CASE Row \/ Drawn \/ UNCHANGED vars
    <3>1. UNCHANGED <<daemon, got, call>>
      BY <2>4 DEF Row, Drawn, vars
    <3> QED BY <3>1, ShownWeighs
  <2> QED BY <2>1, <2>2, <2>3, <2>4 DEF Next
<1> QED BY <1>1, <1>2, Invariance, PTL DEF Spec

-----------------------------------------------------------------------------
(* The column of memory: what the rows make of it. *)

\* Where a service is listed.
Places == DOMAIN Listed
Kept(i) == Held(NameOf(Listed[i]), got.silent)
Usage   == [c \in DOMAIN daemon.containers |-> daemon.containers[c].usage]
Limits  == [c \in DOMAIN daemon.containers |-> daemon.containers[c].limit]

LEMMA ListedPlaces ==
  ASSUME Inv
  PROVE  /\ IsFiniteSet(Places)
         /\ \A i \in Places :
               \/ i \in DOMAIN got.services /\ Listed[i] = got.services[i]
               \/ \E j \in DOMAIN got.containers :
                     i = Len(got.services) + j /\ Listed[i] = got.containers[j]
         /\ \A i \in DOMAIN got.services : i \in Places /\ Listed[i] = got.services[i]
         /\ \A j \in DOMAIN got.containers :
               \E i \in Places : i = Len(got.services) + j /\ Listed[i] = got.containers[j]
<1>1. PICK S : got.services \in Seq(S)
  BY DEF Inv, ListsCounted, IsList
<1>2. PICK T : got.containers \in Seq(T)
  BY DEF Inv, ListsCounted, IsList
<1>3. PICK a \in Seq(S) : a = got.services
  BY <1>1
<1>4. PICK b \in Seq(T) : b = got.containers
  BY <1>2
<1>5. a \in Seq(S \cup T) /\ b \in Seq(S \cup T)
  OBVIOUS
<1>6. /\ a \o b \in Seq(S \cup T)
      /\ Len(a \o b) = Len(a) + Len(b) /\ Len(a) \in Nat /\ Len(b) \in Nat
      /\ DOMAIN a = 1..Len(a) /\ DOMAIN b = 1..Len(b) /\ DOMAIN (a \o b) = 1..(Len(a) + Len(b))
      /\ \A i \in 1..(Len(a) + Len(b)) :
            (a \o b)[i] = IF i <= Len(a) THEN a[i] ELSE b[i - Len(a)]
  BY <1>5
<1>7. Listed = a \o b
  BY <1>3, <1>4 DEF Listed
<1>8. IsFiniteSet(Places)
  BY <1>6, <1>7, FS_Interval DEF Places
<1>9. \A j \in 1..Len(b) : /\ Len(a) + j \in 1..(Len(a) + Len(b))
                           /\ (a \o b)[Len(a) + j] = b[j]
  BY <1>6
<1>10. \A i \in 1..(Len(a) + Len(b)) :
          \/ i \in 1..Len(a) /\ (a \o b)[i] = a[i]
          \/ \E j \in 1..Len(b) : i = Len(a) + j /\ (a \o b)[i] = b[j]
  <2> SUFFICES ASSUME NEW i \in 1..(Len(a) + Len(b)), ~ (i <= Len(a))
               PROVE  \E j \in 1..Len(b) : i = Len(a) + j /\ (a \o b)[i] = b[j]
    BY <1>6
  <2>1. i - Len(a) \in 1..Len(b) /\ i = Len(a) + (i - Len(a))
    BY <1>6
  <2> QED BY <1>6, <2>1
<1>11. \A i \in 1..Len(a) : i \in 1..(Len(a) + Len(b)) /\ (a \o b)[i] = a[i]
  BY <1>6
<1>12. DOMAIN Listed = 1..(Len(a) + Len(b)) /\ Listed = a \o b
  BY <1>6, <1>7
<1>13. /\ DOMAIN got.services = 1..Len(a) /\ DOMAIN got.containers = 1..Len(b)
       /\ got.services = a /\ got.containers = b
  BY <1>3, <1>4, <1>6
<1>14. \A i \in Places :
          \/ i \in DOMAIN got.services /\ Listed[i] = got.services[i]
          \/ \E j \in DOMAIN got.containers :
                i = Len(got.services) + j /\ Listed[i] = got.containers[j]
  <2> SUFFICES ASSUME NEW i \in Places
               PROVE  \/ i \in DOMAIN got.services /\ Listed[i] = got.services[i]
                      \/ \E j \in DOMAIN got.containers :
                            i = Len(got.services) + j /\ Listed[i] = got.containers[j]
    OBVIOUS
  <2>1. i \in 1..(Len(a) + Len(b)) /\ Listed[i] = (a \o b)[i]
    BY <1>12 DEF Places
  <2>2. CASE i \in 1..Len(a) /\ (a \o b)[i] = a[i]
    BY <1>13, <2>1, <2>2
  <2>3. ASSUME NEW j \in 1..Len(b), i = Len(a) + j, (a \o b)[i] = b[j]
        PROVE  j \in DOMAIN got.containers /\ i = Len(got.services) + j
               /\ Listed[i] = got.containers[j]
    BY <1>13, <2>1, <2>3
  <2> QED BY <1>10, <2>1, <2>2, <2>3, Zenon
<1>15. \A i \in DOMAIN got.services : i \in Places /\ Listed[i] = got.services[i]
  BY <1>11, <1>12, <1>13, Zenon DEF Places
<1>16. \A j \in DOMAIN got.containers :
          \E i \in Places : i = Len(got.services) + j /\ Listed[i] = got.containers[j]
  BY <1>9, <1>12, <1>13, Zenon DEF Places
<1> QED BY <1>8, <1>14, <1>15, <1>16, Zenon

\* No two places keep the memory of one container, as long as names differ.
LEMMA KeptApart ==
  ASSUME Inv, MemoryInv, NamesDiffer,
         NEW i \in Places, NEW j \in Places, Kept(i) \cap Kept(j) # {}
  PROVE  i = j
<1>1. NameOf(Listed[i]) = NameOf(Listed[j])
  BY DEF Kept, Held
<1>2. ASSUME NEW k \in Places
      PROVE  \/ /\ k \in DOMAIN got.services
                /\ NameOf(Listed[k]) = daemon.services[k].key
                /\ k \in DOMAIN daemon.services
                /\ NameOf(Listed[k]) \in {s.key : s \in ToSet(got.services)}
             \/ \E c \in {x \in Containers : Grouped(x)}, g \in DOMAIN got.containers :
                   /\ NameOf(Listed[k]) = Origin(c) /\ Key(c) = Identity(got.containers[g])
                   /\ k = Len(got.services) + g
  <2>1. CASE k \in DOMAIN got.services /\ Listed[k] = got.services[k]
    <3>1. /\ NameOf(Listed[k]) = got.services[k].key /\ k \in DOMAIN daemon.services
          /\ got.services[k].key = daemon.services[k].key
      BY <2>1 DEF MemoryInv, ServicesWeighed, NameOf
    <3>2. got.services[k] \in ToSet(got.services)
      BY <2>1 DEF ToSet
    <3> QED BY <2>1, <3>1, <3>2
  <2>2. ASSUME NEW g \in DOMAIN got.containers, k = Len(got.services) + g,
               Listed[k] = got.containers[g]
        PROVE  \E c \in {x \in Containers : Grouped(x)} :
                   NameOf(Listed[k]) = Origin(c) /\ Key(c) = Identity(got.containers[g])
    <3>1. PICK c \in Containers : Grouped(c) /\ Key(c) = Identity(got.containers[g])
      BY DEF MemoryInv, GroupsWeighed
    <3>2. NameOf(Listed[k]) = got.containers[g].stack \o got.containers[g].key
      BY <2>2 DEF MemoryInv, GroupsWeighed, NameOf
    <3>3. Origin(c) = c.project \o c.name
      BY <3>1 DEF Origin, Grouped
    <3>4. c.project = got.containers[g].stack /\ c.name = got.containers[g].key
      BY <3>1 DEF Key, Identity
    <3> QED BY <3>1, <3>2, <3>3, <3>4
  <2> QED BY <2>1, <2>2, ListedPlaces
<1>3. CASE i \in DOMAIN got.services /\ j \in DOMAIN got.services
  BY <1>1, <1>3, ListedPlaces DEF MemoryInv, ServicesWeighed, DaemonNamed, NameOf
<1>4. ASSUME NEW k \in Places, NEW l \in Places, NameOf(Listed[k]) = NameOf(Listed[l]),
             k \in DOMAIN got.services
      PROVE  l \in DOMAIN got.services
  <2>1. NameOf(Listed[k]) \in {s.key : s \in ToSet(got.services)}
    <3>1. Listed[k] = got.services[k] /\ NameOf(Listed[k]) = got.services[k].key
      BY <1>4, ListedPlaces DEF MemoryInv, ServicesWeighed, NameOf
    <3> QED BY <1>4, <3>1 DEF ToSet
  <2> QED BY <1>2, <1>4, <2>1 DEF NamesDiffer
<1>5. CASE i \notin DOMAIN got.services /\ j \notin DOMAIN got.services
  <2>1. PICK c \in {x \in Containers : Grouped(x)}, g \in DOMAIN got.containers :
           /\ NameOf(Listed[i]) = Origin(c) /\ Key(c) = Identity(got.containers[g])
           /\ i = Len(got.services) + g
    BY <1>2, <1>5
  <2>2. PICK d \in {x \in Containers : Grouped(x)}, h \in DOMAIN got.containers :
           /\ NameOf(Listed[j]) = Origin(d) /\ Key(d) = Identity(got.containers[h])
           /\ j = Len(got.services) + h
    BY <1>2, <1>5
  <2>3. Key(d) = Key(c)
    BY <1>1, <2>1, <2>2 DEF NamesDiffer
  <2>4. g = h
    BY <2>1, <2>2, <2>3 DEF MemoryInv, GroupsWeighed
  <2> QED BY <2>1, <2>2, <2>4
<1> QED BY <1>1, <1>3, <1>4, <1>5

\* What is kept at the places is what was weighed.
LEMMA KeptIsWeighed ==
  ASSUME Inv, MemoryInv, NamesDiffer, GroupsComplete
  PROVE  UNION {Kept(i) : i \in Places} = Weighed
<1>1. ASSUME NEW i \in Places, NEW c \in Kept(i)  PROVE c \in Weighed
  <2>1. /\ c \in DOMAIN daemon.containers \ got.silent /\ Measures(c)
        /\ Origin(daemon.containers[c]) = NameOf(Listed[i])
    BY <1>1 DEF Kept, Held
  <2>2. ASSUME daemon.containers[c].service # NotSwarm
        PROVE  \E s \in ToSet(got.services) : s.key = daemon.containers[c].service
    <3>1. NameOf(Listed[i]) = daemon.containers[c].service
      BY <2>1, <2>2 DEF Origin
    <3>2. CASE i \in DOMAIN got.services /\ Listed[i] = got.services[i]
      BY <3>1, <3>2 DEF MemoryInv, ServicesWeighed, NameOf, ToSet
    <3>3. ASSUME NEW g \in DOMAIN got.containers, Listed[i] = got.containers[g]  PROVE FALSE
      <4>1. PICK d \in Containers : Grouped(d) /\ Key(d) = Identity(got.containers[g])
        BY DEF MemoryInv, GroupsWeighed
      <4>2. NameOf(Listed[i]) = got.containers[g].stack \o got.containers[g].key
        BY <3>3 DEF MemoryInv, GroupsWeighed, NameOf
      <4>3. Origin(d) = d.project \o d.name
        BY <4>1 DEF Origin, Grouped
      <4>4. d.project = got.containers[g].stack /\ d.name = got.containers[g].key
        BY <4>1 DEF Key, Identity
      <4>5. daemon.containers[c] \in Containers
        BY <2>1 DEF Containers, ToSet
      <4>6. Origin(d) # daemon.containers[c].service
        BY <4>1, <4>5 DEF NamesDiffer
      <4> QED BY <3>1, <4>2, <4>3, <4>4, <4>6
    <3> QED BY <3>2, <3>3, ListedPlaces
  <2> QED BY <2>1, <2>2 DEF Weighed
<1>2. ASSUME NEW c \in Weighed  PROVE \E i \in Places : c \in Kept(i)
  <2>1. c \in DOMAIN daemon.containers \ got.silent /\ Measures(c)
    BY <1>2 DEF Weighed
  <2>2. CASE daemon.containers[c].service # NotSwarm
    <3>1. PICK s \in ToSet(got.services) : s.key = daemon.containers[c].service
      BY <1>2, <2>2 DEF Weighed
    <3>2. PICK i \in DOMAIN got.services : s = got.services[i]
      BY DEF ToSet
    <3>3. i \in Places /\ NameOf(Listed[i]) = Origin(daemon.containers[c])
      BY <2>2, <3>1, <3>2, ListedPlaces DEF MemoryInv, ServicesWeighed, NameOf, Origin
    <3> QED BY <2>1, <3>3 DEF Kept, Held
  <2>3. CASE daemon.containers[c].service = NotSwarm
    <3>1. PICK d : d = daemon.containers[c]
      OBVIOUS
    <3>2. Grouped(d) /\ d \in Containers
      BY <2>1, <2>3, <3>1 DEF Measures, Containers, ToSet
    <3>3. PICK g \in DOMAIN got.containers : Key(d) = Identity(got.containers[g])
      BY <3>2 DEF GroupsComplete
    <3>4. PICK i \in Places : Listed[i] = got.containers[g]
      BY ListedPlaces
    <3>5. NameOf(Listed[i]) = got.containers[g].stack \o got.containers[g].key
      BY <3>4 DEF MemoryInv, GroupsWeighed, NameOf
    <3>6. d.project = got.containers[g].stack /\ d.name = got.containers[g].key
      BY <3>3 DEF Key, Identity
    <3>7. Origin(d) = NameOf(Listed[i])
      BY <2>3, <3>1, <3>5, <3>6 DEF Origin
    <3> QED BY <2>1, <3>1, <3>7 DEF Kept, Held
  <2> QED BY <2>2, <2>3
<1> QED BY <1>1, <1>2

\* Numbers of the containers kept at the places of T, taken together.
Together(T) == UNION {Kept(i) : i \in T}

\* Summing place by place what was summed container by container, over the places
\* that have a container at all.
LEMMA SumOfPlaces ==
  ASSUME Inv, MemoryInv, NamesDiffer, NEW T \in SUBSET Places, NEW local \in SUBSET T,
         \A i \in T : Kept(i) # {} => i \in local,
         NEW w, \A c \in DOMAIN daemon.containers : w[c] \in Int
  PROVE  Total([i \in local |-> Total([c \in Kept(i) |-> w[c]])])
            = Total([c \in Together(T) |-> w[c]])
<1> DEFINE H == [i \in local |-> Kept(i)]
           C == DOMAIN daemon.containers
<1>1. IsFiniteSet(local) /\ IsFiniteSet(C)
  BY ListedPlaces, FS_Subset DEF Inv, DaemonKept
<1>2. H \in [local -> SUBSET C]
  BY DEF Kept, Held
<1>3. \A i \in local, j \in local : i # j => H[i] \cap H[j] = {}
  BY KeptApart
<1>4. UNION {H[i] : i \in local} = Together(T)
  BY DEF Together
<1>5. [i \in local |-> Total([c \in H[i] |-> w[c]])]
         = [i \in local |-> Total([c \in Kept(i) |-> w[c]])]
  OBVIOUS
<1> HIDE DEF H, C
<1>6. Total([i \in local |-> Total([c \in H[i] |-> w[c]])])
         = Total([c \in UNION {H[i] : i \in local} |-> w[c]])
  BY <1>1, <1>2, <1>3, TotalOfTotals DEF C
<1> QED BY <1>4, <1>5, <1>6

\* The memory of a place is what is kept there.
LEMMA PlaceMemory ==
  ASSUME Inv, MemoryInv, NEW i \in Places
  PROVE  /\ Listed[i].memory.usage = Total([c \in Kept(i) |-> Usage[c]])
         /\ Listed[i].memory.limit = Total([c \in Kept(i) |-> Limits[c]])
         /\ Listed[i].memory.tasks > 0 <=> Kept(i) # {}
<1>1. Listed[i].memory = MemoryOf(NameOf(Listed[i]), got.silent)
  BY ListedPlaces DEF MemoryInv, ServicesWeighed, GroupsWeighed
<1>2. Kept(i) \subseteq DOMAIN daemon.containers
  BY DEF Kept, Held
<1>3. /\ [c \in Kept(i) |-> Usage[c]] = [c \in Kept(i) |-> daemon.containers[c].usage]
      /\ [c \in Kept(i) |-> Limits[c]] = [c \in Kept(i) |-> daemon.containers[c].limit]
  BY <1>2 DEF Usage, Limits
<1>4. /\ Listed[i].memory.usage = Total([c \in Kept(i) |-> daemon.containers[c].usage])
      /\ Listed[i].memory.limit = Total([c \in Kept(i) |-> daemon.containers[c].limit])
      /\ Listed[i].memory.tasks = Cardinality(Kept(i))
  BY <1>1 DEF MemoryOf, Limit, Kept
<1>5. IsFiniteSet(Kept(i))
  BY <1>2, FS_Subset DEF Inv, DaemonKept
<1>6. Cardinality(Kept(i)) \in Nat /\ (Cardinality(Kept(i)) = 0 <=> Kept(i) = {})
  BY <1>5, FS_CardinalityType, FS_EmptySet
<1> QED BY <1>3, <1>4, <1>6

\* A cell adds up what is kept at the places of its row.
LEMMA CellOfRow ==
  ASSUME Inv, MemoryInv, NamesDiffer, NEW row \in AllRows
  PROVE  /\ DOMAIN row \in SUBSET Places
         /\ MemoryCell(row).used = Total([c \in Together(DOMAIN row) |-> Usage[c]])
         /\ MemoryCell(row).limit = Total([c \in Together(DOMAIN row) |-> Limits[c]])
<1> DEFINE local == {i \in DOMAIN row : row[i].memory.tasks > 0}
<1>1. PICK k : row = Restrict(Listed, {i \in DOMAIN Listed : RowKey(Listed[i]) = k})
  BY DEF AllRows
<1>2. DOMAIN row \in SUBSET Places /\ \A i \in DOMAIN row : row[i] = Listed[i]
  BY <1>1 DEF Restrict, Places
<1>3. local \in SUBSET (DOMAIN row)
  OBVIOUS
<1>4. \A i \in DOMAIN row : Kept(i) # {} => i \in local
  BY <1>2, PlaceMemory
<1>5. \A c \in DOMAIN daemon.containers : Usage[c] \in Int /\ Limits[c] \in Int
  BY DEF MemoryInv, DaemonNamed, IsWeighable, Usage, Limits
<1>6. \A i \in local :
         /\ row[i].memory.usage = Total([c \in Kept(i) |-> Usage[c]])
         /\ row[i].memory.limit = Total([c \in Kept(i) |-> Limits[c]])
  BY <1>2, PlaceMemory
<1>7. /\ MemoryCell(row).used = Total([i \in local |-> row[i].memory.usage])
      /\ MemoryCell(row).limit = Total([i \in local |-> row[i].memory.limit])
  BY DEF MemoryCell
<1> HIDE DEF local
<1>8. /\ [i \in local |-> row[i].memory.usage]
           = [i \in local |-> Total([c \in Kept(i) |-> Usage[c]])]
      /\ [i \in local |-> row[i].memory.limit]
           = [i \in local |-> Total([c \in Kept(i) |-> Limits[c]])]
  BY <1>6
<1>9. Total([i \in local |-> Total([c \in Kept(i) |-> Usage[c]])])
         = Total([c \in Together(DOMAIN row) |-> Usage[c]])
  BY <1>2, <1>3, <1>4, <1>5, SumOfPlaces
<1>10. Total([i \in local |-> Total([c \in Kept(i) |-> Limits[c]])])
          = Total([c \in Together(DOMAIN row) |-> Limits[c]])
  BY <1>2, <1>3, <1>4, <1>5, SumOfPlaces
<1> QED BY <1>2, <1>7, <1>8, <1>9, <1>10

\* Rows part the places, and there is a finite number of them.
LEMMA RowsPartPlaces ==
  ASSUME Inv
  PROVE  /\ IsFiniteSet(AllRows)
         /\ \A row \in AllRows : DOMAIN row \in SUBSET Places
         /\ \A a, b \in AllRows : a # b => DOMAIN a \cap DOMAIN b = {}
         /\ \A i \in Places : \E row \in AllRows : i \in DOMAIN row
<1> DEFINE keys == {RowKey(s) : s \in ToSet(Listed)}
           places(k) == {i \in DOMAIN Listed : RowKey(Listed[i]) = k}
           rowOf == [i \in Places |-> Restrict(Listed, places(RowKey(Listed[i])))]
<1>1. AllRows = {Restrict(Listed, places(k)) : k \in keys}
  BY DEF AllRows
<1>2. keys = {RowKey(Listed[i]) : i \in Places}
  BY DEF ToSet, Places
<1>3. \A k : /\ DOMAIN Restrict(Listed, places(k)) = places(k)
             /\ places(k) \in SUBSET Places
  BY DEF Restrict, Places
<1>4. AllRows = {rowOf[i] : i \in Places}
  <2> HIDE DEF keys, places
  <2> QED BY <1>1, <1>2
<1>5. rowOf \in Surjection(Places, AllRows)
  <2>1. rowOf \in [Places -> AllRows] /\ \A r \in AllRows : \E i \in Places : rowOf[i] = r
    <3>1. rowOf = [i \in Places |-> rowOf[i]]
      OBVIOUS
    <3> HIDE DEF rowOf
    <3> QED BY <1>4, <3>1
  <2> HIDE DEF rowOf
  <2> QED BY <2>1, Fun_IsSurj
<1>6. IsFiniteSet(AllRows)
  BY <1>5, ListedPlaces, FS_Surjection
<1>7. \A i \in Places : i \in DOMAIN rowOf[i] /\ rowOf[i] \in AllRows
  <2>1. \A i \in Places : i \in places(RowKey(Listed[i]))
    BY DEF Places
  <2>2. \A i \in Places : rowOf[i] = Restrict(Listed, places(RowKey(Listed[i])))
    OBVIOUS
  <2> HIDE DEF places, rowOf
  <2> QED BY <1>3, <1>4, <2>1, <2>2
<1>8. ASSUME NEW a \in AllRows, NEW b \in AllRows, NEW i \in DOMAIN a \cap DOMAIN b
      PROVE  a = b
  <2>1. PICK k : a = Restrict(Listed, places(k))
    BY <1>1
  <2>2. PICK l : b = Restrict(Listed, places(l))
    BY <1>1
  <2>3. i \in places(k) /\ i \in places(l)
    BY <1>3, <2>1, <2>2
  <2> QED BY <2>1, <2>2, <2>3
<1>9. ASSUME NEW row \in AllRows  PROVE DOMAIN row \in SUBSET Places
  <2>1. PICK k : row = Restrict(Listed, places(k))
    BY <1>1
  <2> HIDE DEF places
  <2> QED BY <1>3, <2>1
<1> QED BY <1>6, <1>7, <1>8, <1>9

\* What was read of each container's memory is in one row and in no other, and no row
\* whose containers all have a limit exceeds the limit it is held against
\* (_record_memory, _apply_memory, _memory_cell).
THEOREM MemoryAddedUp == Spec => []MemoryAddsUp
<1>1. ASSUME Inv, MemoryInv, call.next \in {"draw", "row"}, got.reachable, NamesDiffer
      PROVE  /\ Total([row \in AllRows |-> MemoryCell(row).used])
                   = Total([i \in Weighed |-> daemon.containers[i].usage])
             /\ (\A i \in Weighed : daemon.containers[i].limit > 0) =>
                   \A row \in AllRows : MemoryCell(row).used <= MemoryCell(row).limit
  <2> DEFINE C == DOMAIN daemon.containers
             H == [row \in AllRows |-> Together(DOMAIN row)]
  <2>1. IsFiniteSet(C)
    BY <1>1 DEF Inv, DaemonKept
  <2>2. \A c \in C : /\ Usage[c] = daemon.containers[c].usage /\ Usage[c] \in Int
                     /\ Limits[c] = daemon.containers[c].limit /\ Limits[c] \in Int
                     /\ Limits[c] > 0 => Usage[c] <= Limits[c]
    BY <1>1 DEF MemoryInv, DaemonNamed, IsWeighable, Usage, Limits
  <2>3. \A T \in SUBSET Places : Together(T) \in SUBSET C
    BY DEF Together, Kept, Held
  <2>4. Together(Places) = Weighed
    BY <1>1, KeptIsWeighed DEF MemoryInv, InOrder, Together
  <2>5. H \in [AllRows -> SUBSET C]
    BY <1>1, <2>3, RowsPartPlaces
  <2>6. ASSUME NEW a \in AllRows, NEW b \in AllRows, a # b  PROVE H[a] \cap H[b] = {}
    <3>1. DOMAIN a \cap DOMAIN b = {} /\ DOMAIN a \subseteq Places /\ DOMAIN b \subseteq Places
      BY <1>1, <2>6, RowsPartPlaces
    <3>2. \A i \in DOMAIN a, j \in DOMAIN b : Kept(i) \cap Kept(j) = {}
      BY <1>1, <3>1, KeptApart
    <3>3. H[a] = Together(DOMAIN a) /\ H[b] = Together(DOMAIN b)
      OBVIOUS
    <3> QED BY <3>2, <3>3 DEF Together
  <2>7. UNION {H[row] : row \in AllRows} = Weighed
    <3>1. UNION {Together(DOMAIN row) : row \in AllRows} = Together(Places)
      BY <1>1, RowsPartPlaces DEF Together
    <3> QED BY <2>4, <3>1
  <2>8. Total([row \in AllRows |-> MemoryCell(row).used])
          = Total([i \in Weighed |-> daemon.containers[i].usage])
    <3>1. [row \in AllRows |-> MemoryCell(row).used]
             = [row \in AllRows |-> Total([c \in H[row] |-> Usage[c]])]
      BY <1>1, CellOfRow
    <3>2. IsFiniteSet(AllRows)
      BY <1>1, RowsPartPlaces
    <3> HIDE DEF H
    <3>3. Total([row \in AllRows |-> Total([c \in H[row] |-> Usage[c]])])
            = Total([c \in UNION {H[row] : row \in AllRows} |-> Usage[c]])
      BY <2>1, <2>2, <2>5, <2>6, <3>2, TotalOfTotals
    <3>4. [c \in Weighed |-> Usage[c]] = [i \in Weighed |-> daemon.containers[i].usage]
      BY <2>2 DEF Weighed
    <3> QED BY <2>7, <3>1, <3>3, <3>4
  <2>9. ASSUME \A i \in Weighed : daemon.containers[i].limit > 0, NEW row \in AllRows
        PROVE  MemoryCell(row).used <= MemoryCell(row).limit
    <3> DEFINE D == Together(DOMAIN row)
               used == [c \in D |-> Usage[c]]
               limit == [c \in D |-> Limits[c]]
    <3>1. D \subseteq C /\ D \subseteq Weighed
      <4>1. DOMAIN row \in SUBSET Places
        BY <1>1, RowsPartPlaces
      <4> QED BY <2>3, <2>4, <4>1 DEF Together
    <3>2. IsFiniteSet(D)
      BY <2>1, <3>1, FS_Subset
    <3> HIDE DEF D
    <3>3. used \in [D -> Int] /\ limit \in [D -> Int] /\ \A c \in D : used[c] <= limit[c]
      BY <2>2, <2>9, <3>1
    <3>4. MemoryCell(row).used = Total(used) /\ MemoryCell(row).limit = Total(limit)
      BY <1>1, CellOfRow DEF D
    <3> HIDE DEF used, limit
    <3> QED BY <3>2, <3>3, <3>4, TotalGrows
  <2> QED BY <2>8, <2>9
<1>2. Inv /\ MemoryInv => MemoryAddsUp
  BY <1>1 DEF MemoryAddsUp
<1> QED BY <1>2, Invariance, MemoryKept, PTL

-----------------------------------------------------------------------------
(* What TROUBLE is told: of every slot, what fell of it and what Swarm has kept. *)

\* How many tasks of a slot of a service whose tasks end by falling Swarm has kept that fell.
Remembered(s, k) == IF Fell(s.tasks[k]) THEN Len(s.ended[k]) + 1 ELSE Len(s.ended[k])

\* What Swarm has kept of slot `k` is the end of the list of its falls; if there is more
\* on the list, Swarm has kept as many as it does.
SlotKept(s, falls, k) ==
    LET n == Remembered(s, k)
    IN  /\ falls \in Seq(Int) /\ n <= Len(falls)
        /\ \A j \in 1..n : /\ Fell(AllTasks(s)[k][j])
                           /\ AllTasks(s)[k][j].at = falls[Len(falls) - n + j]
        /\ \A a \in DOMAIN falls :
              /\ falls[a] <= s.tasks[k].at
              /\ \A b \in a..Len(falls) : falls[a] <= falls[b]
        /\ n < Len(falls) => n >= Retention

LEMMA SlotTasks ==
  ASSUME NEW s \in SwarmService, NEW k \in DOMAIN s.tasks, k \in DOMAIN s.ended
  PROVE  /\ s.ended[k] \in Seq(EndedTask) /\ s.tasks[k] \in SwarmTask
         /\ DOMAIN AllTasks(s)[k] = 1..(Len(s.ended[k]) + 1)
         /\ \A j \in 1..Len(s.ended[k]) : AllTasks(s)[k][j] = s.ended[k][j]
         /\ AllTasks(s)[k][Len(s.ended[k]) + 1] = s.tasks[k]
<1>1. s.ended[k] \in Seq(EndedTask) /\ s.tasks[k] \in SwarmTask
  BY ServiceType
<1>2. AllTasks(s)[k] = Append(s.ended[k], s.tasks[k])
  BY DEF AllTasks
<1>3. s.ended[k] \in Seq(EndedTask \cup SwarmTask)
  BY <1>1
<1> QED BY <1>1, <1>2, <1>3

LEMMA RememberedType ==
  ASSUME NEW s \in SwarmService, NEW k \in DOMAIN s.tasks, k \in DOMAIN s.ended
  PROVE  Remembered(s, k) \in Nat /\ 1..Remembered(s, k) \subseteq DOMAIN AllTasks(s)[k]
<1>1. Len(s.ended[k]) \in Nat
  BY SlotTasks
<1> QED BY <1>1, SlotTasks DEF Remembered

LEMMA OtherSlot ==
  ASSUME NEW s \in SwarmService, NEW t, NEW k, SameButSlot(s, t, k),
         NEW l \in DOMAIN s.tasks, l \in DOMAIN s.ended,
         t.tasks[l] = s.tasks[l], t.ended[l] = s.ended[l],
         NEW falls, SlotKept(s, falls, l)
  PROVE  SlotKept(t, falls, l)
<1>1. AllTasks(t)[l] = AllTasks(s)[l]
  BY DEF AllTasks, SameButSlot
<1>2. Remembered(t, l) = Remembered(s, l)
  BY DEF Remembered
<1> QED BY <1>1, <1>2 DEF SlotKept

LEMMA SlotStarts ==
  ASSUME NEW s \in SwarmService, NEW t, NEW k \in DOMAIN s.tasks, SameButSlot(s, t, k),
         k \in DOMAIN s.ended, now \in Int, s.tasks[k].at <= now,
         ~ Fell(s.tasks[k]), ~ Fell(t.tasks[k]), t.tasks[k].at = now,
         t.ended[k] = s.ended[k], NEW falls, SlotKept(s, falls, k)
  PROVE  SlotKept(t, falls, k)
<1>1. Remembered(t, k) = Len(s.ended[k]) /\ Remembered(s, k) = Len(s.ended[k])
  BY DEF Remembered
<1>2. t \in SwarmService /\ k \in DOMAIN t.tasks /\ k \in DOMAIN t.ended
  BY DEF SameButSlot
<1>3. \A j \in 1..Len(s.ended[k]) : AllTasks(t)[k][j] = AllTasks(s)[k][j]
  BY <1>2, SlotTasks
<1>4. s.tasks[k].at \in Int
  BY SlotTasks DEF SwarmTask
<1>5. \A a \in DOMAIN falls : falls[a] <= now
  BY <1>4 DEF SlotKept
<1> QED BY <1>1, <1>3, <1>5 DEF SlotKept

LEMMA SlotFalls ==
  ASSUME NEW s \in SwarmService, NEW t, NEW k \in DOMAIN s.tasks, SameButSlot(s, t, k),
         k \in DOMAIN s.ended, now \in Int, s.tasks[k].at <= now,
         ~ Fell(s.tasks[k]), ~ Fell(t.tasks[k]), t.tasks[k].at = now,
         t.ended[k] = Ended(s.ended[k], "failed"), NEW falls, SlotKept(s, falls, k)
  PROVE  SlotKept(t, Append(falls, now), k)
<1> DEFINE last == [state |-> "failed", at |-> now]
           n == Len(s.ended[k])
           m == Len(t.ended[k])
           more == Append(falls, now)
<1>1. /\ s.ended[k] \in Seq(EndedTask) /\ n \in Nat
      /\ s.tasks[k].at \in Int /\ falls \in Seq(Int) /\ n <= Len(falls)
  BY SlotTasks DEF SwarmTask, SlotKept, Remembered
<1>2. t \in SwarmService /\ k \in DOMAIN t.tasks /\ k \in DOMAIN t.ended
  BY DEF SameButSlot
<1>3. /\ \A j \in 1..n : /\ Fell(s.ended[k][j])
                         /\ s.ended[k][j].at = falls[Len(falls) - n + j]
      /\ \A a \in DOMAIN falls : /\ falls[a] <= s.tasks[k].at
                                 /\ \A b \in a..Len(falls) : falls[a] <= falls[b]
      /\ n < Len(falls) => n >= Retention
  <2>1. Remembered(s, k) = n
    BY DEF Remembered
  <2> QED BY <1>1, <2>1, SlotTasks DEF SlotKept
<1>4. last \in EndedTask /\ Fell(last) /\ last.at = now
  BY DEF EndedTask, TaskStates, Fell
<1> HIDE DEF last
<1>5. /\ Retention \in Nat \ {0}
      /\ t.ended[k] = IF n + 1 > Retention THEN Tail(Append(s.ended[k], last))
                      ELSE Append(s.ended[k], last)
  <2>1. Len(Append(s.ended[k], last)) = n + 1
    BY <1>1, <1>4
  <2> QED BY <2>1, DockerAssumption DEF Ended, last, DockerAssumption
<1>6. /\ more \in Seq(Int) /\ Len(more) = Len(falls) + 1
      /\ \A a \in 1..Len(falls) : more[a] = falls[a]
      /\ more[Len(falls) + 1] = now
  BY <1>1
<1>7. /\ m = IF n + 1 > Retention THEN n ELSE n + 1
      /\ \A j \in 1..m : Fell(t.ended[k][j]) /\ t.ended[k][j].at = more[Len(more) - m + j]
  <2> DEFINE all == Append(s.ended[k], last)
  <2>1. all \in Seq(EndedTask) /\ Len(all) = n + 1
    BY <1>1, <1>4
  <2>2. \A j \in 1..(n + 1) : Fell(all[j]) /\ all[j].at = more[Len(falls) - n + j]
    <3>1. \A j \in 1..n : all[j] = s.ended[k][j]
      BY <1>1, <1>4
    <3>2. all[n + 1] = last
      BY <1>1, <1>4
    <3> HIDE DEF all, more
    <3>3. ASSUME NEW j \in 1..n  PROVE more[Len(falls) - n + j] = falls[Len(falls) - n + j]
      <4>1. Len(falls) - n + j \in 1..Len(falls)
        BY <1>1
      <4> QED BY <1>6, <4>1
    <3>4. \A j \in 1..n : Fell(all[j]) /\ all[j].at = more[Len(falls) - n + j]
      BY <1>3, <3>1, <3>3
    <3>5. Fell(all[n + 1]) /\ all[n + 1].at = more[Len(falls) - n + (n + 1)]
      <4>1. Len(falls) \in Nat /\ n \in Nat
        BY <1>1
      <4> HIDE DEF n
      <4>2. Len(falls) - n + (n + 1) = Len(falls) + 1
        BY <4>1
      <4> QED BY <1>4, <1>6, <3>2, <4>2
    <3>6. \A j \in 1..(n + 1) : j \in 1..n \/ j = n + 1
      BY <1>1
    <3> QED BY <3>4, <3>5, <3>6
  <2> HIDE DEF all, more
  <2>3. CASE n + 1 > Retention
    <3>1. t.ended[k] = Tail(all)
      BY <1>5, <2>3 DEF all
    <3>2. Len(Tail(all)) = n /\ \A j \in 1..n : Tail(all)[j] = all[j + 1]
      BY <1>1, <2>1
    <3>3. \A j \in 1..n : j + 1 \in 1..(n + 1) /\ Len(falls) - n + (j + 1) = Len(more) - n + j
      BY <1>1, <1>6
    <3>4. ASSUME NEW j \in 1..n
          PROVE  Fell(t.ended[k][j]) /\ t.ended[k][j].at = more[Len(more) - n + j]
      <4>1. /\ t.ended[k][j] = all[j + 1] /\ j + 1 \in 1..(n + 1)
            /\ Len(falls) - n + (j + 1) = Len(more) - n + j
        BY <3>1, <3>2, <3>3
      <4> HIDE DEF n
      <4> QED BY <2>2, <4>1
    <3>5. m = n
      BY <3>1, <3>2
    <3> HIDE DEF m
    <3> QED BY <2>3, <3>4, <3>5
  <2>4. CASE ~ (n + 1 > Retention)
    <3>1. t.ended[k] = all
      BY <1>5, <2>4 DEF all
    <3>2. \A j \in 1..(n + 1) : Len(falls) - n + j = Len(more) - (n + 1) + j
      BY <1>1, <1>6
    <3> QED BY <2>1, <2>2, <2>4, <3>1, <3>2
  <2> QED BY <2>3, <2>4
<1>8. Remembered(t, k) = m /\ m \in Nat /\ m <= Len(more)
  BY <1>1, <1>6, <1>7 DEF Remembered
<1>9. \A j \in 1..m : AllTasks(t)[k][j] = t.ended[k][j]
  BY <1>2, SlotTasks
<1>10. \A a \in DOMAIN more : /\ more[a] <= t.tasks[k].at
                              /\ \A b \in a..Len(more) : more[a] <= more[b]
  <2>1. \A a \in 1..Len(falls) : falls[a] \in Int /\ falls[a] <= now
    BY <1>1, <1>3
  <2> HIDE DEF more
  <2>2. DOMAIN more = 1..(Len(falls) + 1)
    BY <1>1, <1>6
  <2>3. ASSUME NEW a \in 1..Len(falls), NEW b \in a..(Len(falls) + 1)
        PROVE  more[a] <= t.tasks[k].at /\ more[a] <= more[b]
    <3>1. CASE b \in a..Len(falls)
      <4>1. a \in DOMAIN falls /\ b \in 1..Len(falls)
        BY <1>1, <3>1
      <4>2. falls[a] <= falls[b] /\ falls[a] \in Int /\ falls[a] <= now
        BY <1>3, <2>1, <3>1, <4>1
      <4> QED BY <1>6, <4>1, <4>2
    <3>2. CASE b = Len(falls) + 1
      BY <1>6, <2>1, <3>2
    <3> QED BY <1>1, <3>1, <3>2
  <2>4. ASSUME NEW a \in DOMAIN more, NEW b \in a..Len(more)
        PROVE  more[a] <= t.tasks[k].at /\ more[a] <= more[b]
    <3>1. CASE a \in 1..Len(falls)
      BY <1>6, <2>3, <3>1
    <3>2. CASE a = Len(falls) + 1
      <4>1. b = a
        BY <1>1, <1>6, <3>2
      <4> QED BY <1>6, <3>2, <4>1
    <3> QED BY <1>1, <2>2, <3>1, <3>2
  <2>5. \A a \in DOMAIN more : a \in a..Len(more)
    BY <1>1, <1>6, <2>2
  <2> QED BY <2>4, <2>5
<1>11. m < Len(more) => m >= Retention
  BY <1>1, <1>3, <1>5, <1>6, <1>7
<1> HIDE DEF m, more
<1>12. SlotKept(t, more, k)
  BY <1>6, <1>7, <1>8, <1>9, <1>10, <1>11 DEF SlotKept
<1> QED BY <1>12 DEF more

LEMMA EveryPlace ==
  ASSUME NEW lists
  PROVE  /\ \A p : p \in DOMAIN Every(lists) <=>
                      \E k \in DOMAIN lists : \E j \in DOMAIN lists[k] : p = <<k, j>>
         /\ \A k \in DOMAIN lists : \A j \in DOMAIN lists[k] : Every(lists)[<<k, j>>] = lists[k][j]
<1>1. DOMAIN Every(lists) = UNION {{k} \X DOMAIN lists[k] : k \in DOMAIN lists}
  BY DEF Every
<1>2. \A p : p \in DOMAIN Every(lists) <=>
                \E k \in DOMAIN lists : \E j \in DOMAIN lists[k] : p = <<k, j>>
  BY <1>1
<1>3. ASSUME NEW k \in DOMAIN lists, NEW j \in DOMAIN lists[k]
      PROVE  Every(lists)[<<k, j>>] = lists[k][j]
  <2>1. <<k, j>> \in UNION {{l} \X DOMAIN lists[l] : l \in DOMAIN lists}
    BY <1>3
  <2> QED BY <2>1 DEF Every
<1> QED BY <1>2, <1>3

\* The members of a finite number of sequences are finite in number.
LEMMA EveryFinite ==
  ASSUME NEW lists, IsFiniteSet(DOMAIN lists),
         \A k \in DOMAIN lists : Len(lists[k]) \in Nat /\ DOMAIN lists[k] = 1..Len(lists[k])
  PROVE  IsFiniteSet(DOMAIN Every(lists))
<1> DEFINE n == [k \in DOMAIN lists |-> Len(lists[k])]
<1>1. n \in [DOMAIN lists -> Int]
  OBVIOUS
<1>2. IsFiniteSet(Pile(n))
  BY <1>1, PileFinite
<1>3. DOMAIN Every(lists) \subseteq Pile(n)
  BY EveryPlace, PileMembers
<1> QED BY <1>2, <1>3, FS_Subset

LEMMA RecentIsLate ==
  ASSUME now \in Nat, now > Window, NEW at \in Int
  PROVE  Recent(at) <=> now - at <= Window
BY DockerAssumption DEF Recent, NoTime, DockerAssumption

\* What the history says of a service whose tasks ended only by falling: no more than
\* there was, and if less, then as much as Swarm keeps of a slot.
LEMMA HistoryCounts ==
  ASSUME now \in Nat, now > Window, NEW s \in SwarmService, NEW falls,
         DOMAIN s.ended = DOMAIN s.tasks, DOMAIN falls = DOMAIN s.tasks,
         \A k \in DOMAIN s.tasks : SlotKept(s, falls[k], k)
  PROVE  /\ FailedHistory(s) \in Nat /\ Count(Recent, Every(falls)) \in Nat
         /\ FailedHistory(s) <= Count(Recent, Every(falls))
         /\ \/ FailedHistory(s) = Count(Recent, Every(falls))
            \/ FailedHistory(s) >= Retention
<1> DEFINE S == DOMAIN s.tasks
           n(k) == Remembered(s, k)
           d(k) == Len(falls[k]) - n(k)
           kept == {p \in DOMAIN Every(AllTasks(s)) :
                       Fell(Every(AllTasks(s))[p]) /\ Recent(Every(AllTasks(s))[p].at)}
           fell == {p \in DOMAIN Every(falls) : Recent(Every(falls)[p])}
           f == [p \in kept |-> <<p[1], d(p[1]) + p[2]>>]
<1>1. \A k \in S : /\ falls[k] \in Seq(Int) /\ Len(falls[k]) \in Nat /\ n(k) \in Nat
                   /\ n(k) <= Len(falls[k]) /\ DOMAIN falls[k] = 1..Len(falls[k])
  BY RememberedType DEF SlotKept
<1>2. IsFiniteSet(fell)
  <2>1. IsFiniteSet(S)
    BY ServiceType, PositionsFinite
  <2>2. IsFiniteSet(DOMAIN Every(falls))
    BY <1>1, <2>1, EveryFinite
  <2>3. fell \subseteq DOMAIN Every(falls)
    OBVIOUS
  <2> HIDE DEF fell
  <2> QED BY <2>2, <2>3, FS_Subset
<1>3. DOMAIN AllTasks(s) = S
  BY DEF AllTasks
<1>4. ASSUME NEW k \in S, NEW j \in 1..n(k)
      PROVE  /\ d(k) + j \in 1..Len(falls[k])
             /\ Recent(falls[k][d(k) + j]) => <<k, j>> \in kept
  <2>1. d(k) + j \in 1..Len(falls[k])
    BY <1>1
  <2>2. /\ j \in DOMAIN AllTasks(s)[k] /\ Fell(AllTasks(s)[k][j])
        /\ AllTasks(s)[k][j].at = falls[k][d(k) + j]
    BY RememberedType DEF SlotKept
  <2>3. /\ <<k, j>> \in DOMAIN Every(AllTasks(s))
        /\ Every(AllTasks(s))[<<k, j>>] = AllTasks(s)[k][j]
    BY <1>3, <2>2, EveryPlace
  <2> QED BY <2>1, <2>2, <2>3
<1>5. ASSUME NEW p \in kept
      PROVE  \E k \in S : \E j \in 1..n(k) : p = <<k, j>> /\ Recent(falls[k][d(k) + j])
  <2>1. PICK k \in S : \E j \in DOMAIN AllTasks(s)[k] : p = <<k, j>>
    BY <1>3, EveryPlace
  <2>2. PICK j \in DOMAIN AllTasks(s)[k] : p = <<k, j>>
    BY <2>1
  <2>3. Fell(AllTasks(s)[k][j]) /\ Recent(AllTasks(s)[k][j].at)
    BY <1>3, <2>2, EveryPlace
  <2>4. j \in 1..n(k)
    <3>1. /\ j \in 1..(Len(s.ended[k]) + 1) /\ Len(s.ended[k]) \in Nat
          /\ AllTasks(s)[k][Len(s.ended[k]) + 1] = s.tasks[k]
      BY SlotTasks
    <3> QED BY <2>3, <3>1 DEF Remembered
  <2>5. AllTasks(s)[k][j].at = falls[k][d(k) + j]
    BY <2>4 DEF SlotKept
  <2> QED BY <2>2, <2>3, <2>4, <2>5
<1>6. \A k \in S : \A a \in 1..Len(falls[k]) : Recent(falls[k][a]) <=> <<k, a>> \in fell
  <2> SUFFICES ASSUME NEW k \in S, NEW a \in 1..Len(falls[k])
               PROVE  Recent(falls[k][a]) <=> <<k, a>> \in fell
    BY Zenon
  <2>1. k \in DOMAIN falls /\ a \in DOMAIN falls[k]
    BY <1>1
  <2>2. <<k, a>> \in DOMAIN Every(falls) /\ Every(falls)[<<k, a>>] = falls[k][a]
    BY <2>1, EveryPlace
  <2> QED BY <2>2
<1>7. \A p \in fell : \E k \in S : \E a \in 1..Len(falls[k]) :
         p = <<k, a>> /\ Recent(falls[k][a])
  <2> SUFFICES ASSUME NEW p \in fell
               PROVE  \E k \in S : \E a \in 1..Len(falls[k]) :
                         p = <<k, a>> /\ Recent(falls[k][a])
    OBVIOUS
  <2>1. p \in DOMAIN Every(falls) /\ Recent(Every(falls)[p])
    OBVIOUS
  <2>2. PICK k \in S : \E a \in DOMAIN falls[k] : p = <<k, a>>
    BY <2>1, EveryPlace
  <2>3. PICK a \in DOMAIN falls[k] : p = <<k, a>>
    BY <2>2
  <2>4. Every(falls)[p] = falls[k][a]
    BY <2>3, EveryPlace
  <2> QED BY <1>1, <2>1, <2>3, <2>4
<1>8. \A k \in S : n(k) \in Nat /\ d(k) \in Nat
  BY <1>1
<1>9. Cardinality(kept) = FailedHistory(s) /\ Cardinality(fell) = Count(Recent, Every(falls))
  BY DEF FailedHistory, Count
<1>10. \A k \in S : n(k) < Len(falls[k]) => n(k) >= Retention
  BY DEF SlotKept
<1>11. \A k \in S : \A a \in 1..Len(falls[k]), b \in 1..Len(falls[k]) :
          a <= b /\ Recent(falls[k][a]) => Recent(falls[k][b])
  <2> SUFFICES ASSUME NEW k \in S, NEW a \in 1..Len(falls[k]), NEW b \in 1..Len(falls[k]),
                      a <= b, Recent(falls[k][a])
               PROVE  Recent(falls[k][b])
    OBVIOUS
  <2>1. falls[k][a] \in Int /\ falls[k][b] \in Int /\ falls[k][a] <= falls[k][b]
    <3>1. a \in DOMAIN falls[k] /\ b \in a..Len(falls[k])
      BY <1>1
    <3> QED BY <1>1, <3>1 DEF SlotKept
  <2>2. now - falls[k][a] <= Window
    BY <2>1, RecentIsLate
  <2> QED BY <2>1, <2>2, RecentIsLate, DockerAssumption DEF DockerAssumption
<1> HIDE DEF kept, fell, n, d
<1>12. ASSUME NEW p \in kept, NEW q \in kept, f[p] = f[q]  PROVE p = q
  <2>1. PICK k \in S : \E j \in 1..n(k) : p = <<k, j>>
    BY <1>5
  <2>2. PICK j \in 1..n(k) : p = <<k, j>>
    BY <2>1
  <2>3. PICK l \in S : \E i \in 1..n(l) : q = <<l, i>>
    BY <1>5
  <2>4. PICK i \in 1..n(l) : q = <<l, i>>
    BY <2>3
  <2>5. k = l /\ d(k) + j = d(l) + i
    BY <1>12, <2>2, <2>4
  <2> QED BY <1>8, <2>2, <2>4, <2>5
<1>13. f \in [kept -> fell]
  <2> SUFFICES ASSUME NEW p \in kept  PROVE <<p[1], d(p[1]) + p[2]>> \in fell
    OBVIOUS
  <2>1. PICK k \in S : \E j \in 1..n(k) : p = <<k, j>> /\ Recent(falls[k][d(k) + j])
    BY <1>5
  <2>2. PICK j \in 1..n(k) : p = <<k, j>> /\ Recent(falls[k][d(k) + j])
    BY <2>1
  <2> QED BY <1>4, <1>6, <2>2
<1>14. /\ IsFiniteSet(kept) /\ Cardinality(kept) <= Cardinality(fell)
  <2>1. f \in Injection(kept, fell)
    <3> HIDE DEF f
    <3> QED BY <1>12, <1>13, Fun_IsInj
  <2> HIDE DEF f
  <2> QED BY <1>2, <2>1, FS_Injection
<1>15. Cardinality(kept) \in Nat /\ Cardinality(fell) \in Nat
  BY <1>2, <1>14, FS_CardinalityType
<1>16. CASE \E k \in S : \E a \in 1..Len(falls[k]) : a <= d(k) /\ Recent(falls[k][a])
  <2>1. PICK k \in S : \E a \in 1..Len(falls[k]) : a <= d(k) /\ Recent(falls[k][a])
    BY <1>16
  <2>2. PICK a \in 1..Len(falls[k]) : a <= d(k) /\ Recent(falls[k][a])
    BY <2>1
  <2>3. n(k) \in Nat /\ n(k) >= Retention /\ Retention \in Nat \ {0}
    <3>1. n(k) < Len(falls[k])
      BY <1>1, <2>2 DEF d
    <3> QED BY <1>8, <1>10, <3>1, DockerAssumption DEF DockerAssumption
  <2>4. \A j \in 1..n(k) : <<k, j>> \in kept
    <3> SUFFICES ASSUME NEW j \in 1..n(k)  PROVE <<k, j>> \in kept
      OBVIOUS
    <3>1. d(k) + j \in 1..Len(falls[k]) /\ a <= d(k) + j
      <4>1. a \in Int /\ d(k) \in Nat /\ n(k) \in Nat
        BY <1>1, <1>8
      <4>2. d(k) + j \in 1..Len(falls[k])
        BY <1>4
      <4>3. a <= d(k) + j
        BY <2>2, <4>1
      <4> QED BY <4>2, <4>3
    <3> QED BY <1>4, <1>11, <2>2, <3>1
  <2>5. n(k) <= Cardinality(kept)
    <3> DEFINE g == [j \in 1..n(k) |-> <<k, j>>]
    <3>1. g \in Injection(1..n(k), kept)
      <4>1. g \in [1..n(k) -> kept] /\ \A i, j \in 1..n(k) : g[i] = g[j] => i = j
        BY <2>4
      <4> HIDE DEF g
      <4> QED BY <4>1, Fun_IsInj
    <3>2. IsFiniteSet(1..n(k)) /\ Cardinality(1..n(k)) = n(k)
      BY <2>3, FS_Interval
    <3> HIDE DEF g
    <3> QED BY <1>14, <3>1, <3>2, FS_Injection
  <2> QED BY <1>9, <1>14, <1>15, <2>3, <2>5
<1>17. CASE ~ \E k \in S : \E a \in 1..Len(falls[k]) : a <= d(k) /\ Recent(falls[k][a])
  <2>1. \A q \in fell : \E p \in kept : f[p] = q
    <3> SUFFICES ASSUME NEW q \in fell  PROVE \E p \in kept : f[p] = q
      OBVIOUS
    <3>1. PICK k \in S : \E a \in 1..Len(falls[k]) : q = <<k, a>> /\ Recent(falls[k][a])
      BY <1>7
    <3>2. PICK a \in 1..Len(falls[k]) : q = <<k, a>> /\ Recent(falls[k][a])
      BY <3>1
    <3>3. ~ (a <= d(k))
      BY <1>17, <3>2
    <3> DEFINE j == a - d(k)
    <3>4. j \in 1..n(k) /\ d(k) + j = a
      BY <1>1, <3>3 DEF d
    <3> HIDE DEF j
    <3>5. <<k, j>> \in kept
      BY <1>4, <3>2, <3>4
    <3>6. f[<<k, j>>] = q
      BY <3>2, <3>4, <3>5
    <3> QED BY <3>5, <3>6
  <2>2. f \in Bijection(kept, fell)
    <3> HIDE DEF f
    <3> QED BY <1>12, <1>13, <2>1, Fun_IsBij
  <2>3. Cardinality(kept) = Cardinality(fell)
    <3> HIDE DEF f
    <3>1. ExistsBijection(kept, fell)
      BY <2>2 DEF ExistsBijection
    <3> QED BY <1>14, <3>1, FS_Bijection
  <2> QED BY <1>9, <1>15, <2>3
<1> QED BY <1>16, <1>17

LEMMA Latest ==
  ASSUME NEW T \in SUBSET Int, IsFiniteSet(T), T # {}
  PROVE  Max(T) \in T /\ \A y \in T : Max(T) >= y
<1> DEFINE after(x) == {y \in T : y > x}
           Afters == {after(x) : x \in T}
           R == StrictSubsetOrdering(T)
<1>1. IsWellFoundedOn(R, FiniteSubsetsOf(T))
  BY FS_StrictSubsetOrderingWellFounded
<1>2. Afters \subseteq FiniteSubsetsOf(T)
  <2>1. \A x \in T : IsFiniteSet(after(x)) /\ after(x) \subseteq T
    BY FS_Subset
  <2> QED BY <2>1 DEF FiniteSubsetsOf
<1>3. Afters # {}
  OBVIOUS
<1>4. ASSUME NEW x \in T, NEW y \in T, y > x  PROVE <<after(y), after(x)>> \in R
  <2>1. after(y) \subseteq after(x) /\ y \in after(x) /\ y \notin after(y)
    <3>1. \A z \in T : z \in Int
      OBVIOUS
    <3>2. \A z \in T : z > y => z > x
      BY <1>4, <3>1
    <3>3. ~ (y > y)
      BY <3>1
    <3> QED BY <1>4, <3>2, <3>3
  <2>2. after(x) \subseteq T /\ after(y) \subseteq T
    OBVIOUS
  <2> HIDE DEF after
  <2> QED BY <2>1, <2>2 DEF StrictSubsetOrdering
<1> HIDE DEF R
<1>5. PICK U \in Afters : \A V \in Afters : ~ (<<V, U>> \in R)
  BY <1>1, <1>2, <1>3, WFMin
<1>6. PICK x \in T : U = after(x)
  OBVIOUS
<1>7. \A y \in T : ~ (y > x)
  BY <1>4, <1>5, <1>6
<1>8. \A y \in T : x >= y
  BY <1>7
<1> QED BY <1>8 DEF Max

\* What is up longest ago is not newer than the newest.
LEMMA NewestIsLate ==
  ASSUME NEW s \in SwarmService, NEW k \in DOMAIN s.tasks,
         s.tasks[k].placed, s.tasks[k].state = "running"
  PROVE  ServiceTasks(s).newest \in Int /\ ServiceTasks(s).newest >= s.tasks[k].at
<1> DEFINE up == {t \in ToSet(s.tasks) : t.placed /\ t.state = "running"}
           T == {NoTime} \cup {t.at : t \in up}
           at == [j \in DOMAIN s.tasks |-> s.tasks[j].at]
           ats == {at[j] : j \in DOMAIN s.tasks}
<1>1. \A j \in DOMAIN s.tasks : s.tasks[j].at \in Int
  <2>1. \A j \in DOMAIN s.tasks : s.tasks[j] \in SwarmTask
    BY ServiceType
  <2> QED BY <2>1 DEF SwarmTask
<1>2. up \subseteq {s.tasks[j] : j \in DOMAIN s.tasks} /\ s.tasks[k] \in up
  BY DEF ToSet
<1>3. IsFiniteSet(DOMAIN s.tasks)
  BY ServiceType, PositionsFinite
<1>4. IsFiniteSet(ats)
  <2>1. at \in [DOMAIN s.tasks -> ats] /\ \A x \in ats : \E j \in DOMAIN s.tasks : at[j] = x
    OBVIOUS
  <2> HIDE DEF at, ats
  <2>2. at \in Surjection(DOMAIN s.tasks, ats)
    BY <2>1, Fun_IsSurj
  <2> QED BY <1>3, <2>2, FS_Surjection
<1>5. T \subseteq ats \cup {NoTime} /\ s.tasks[k].at \in T
  BY <1>2
<1>6. T \in SUBSET Int /\ T # {}
  <2>1. ats \subseteq Int
    <3> SUFFICES ASSUME NEW j \in DOMAIN s.tasks  PROVE at[j] \in Int
      OBVIOUS
    <3>1. at[j] = s.tasks[j].at
      OBVIOUS
    <3> QED BY <1>1, <3>1
  <2>2. NoTime \in Int
    BY DEF NoTime
  <2> HIDE DEF T, ats
  <2> QED BY <1>5, <2>1, <2>2
<1>7. IsFiniteSet(T)
  <2>1. IsFiniteSet(ats \cup {NoTime})
    <3> HIDE DEF ats
    <3> QED BY <1>4, FS_AddElement
  <2> HIDE DEF T, ats
  <2> QED BY <1>5, <2>1, FS_Subset
<1>8. ServiceTasks(s).newest = Max(T)
  BY DEF ServiceTasks, NewestTime
<1> HIDE DEF T
<1> QED BY <1>5, <1>6, <1>7, <1>8, Latest

\* Where one of the tasks is not up, fewer are than there are slots.
LEMMA ShortOfOne ==
  ASSUME NEW s \in SwarmService, NEW k \in DOMAIN s.tasks,
         ~ (s.tasks[k].placed /\ s.tasks[k].state = "running")
  PROVE  ServiceTasks(s).running \in Nat /\ ServiceTasks(s).running < Len(s.tasks)
<1> DEFINE up == {j \in DOMAIN s.tasks : s.tasks[j].placed /\ s.tasks[j].state = "running"}
<1>1. s.tasks \in Seq(SwarmTask)
  BY ServiceType
<1>2. up \in SUBSET (DOMAIN s.tasks) /\ up # DOMAIN s.tasks /\ Len(s.tasks) \in Nat
      /\ DOMAIN s.tasks = 1..Len(s.tasks)
  BY <1>1
<1>3. ServiceTasks(s).running = Cardinality(up)
  BY DEF ServiceTasks, Count
<1> HIDE DEF up
<1>4. Cardinality(up) \in Nat /\ Cardinality(up) <= Len(s.tasks) /\ Cardinality(up) # Len(s.tasks)
  <2>1. IsFiniteSet(1..Len(s.tasks)) /\ Cardinality(1..Len(s.tasks)) = Len(s.tasks)
    BY <1>2, FS_Interval
  <2> QED BY <1>2, <2>1, FS_Subset, FS_CardinalityType
<1> QED BY <1>2, <1>3, <1>4

\* A service of which a task fell in the window is one whose history is asked for.
LEMMA FallIsSuspect ==
  ASSUME now \in Nat, now > Window, NEW s \in SwarmService, NEW falls,
         DOMAIN s.ended = DOMAIN s.tasks, DOMAIN falls = DOMAIN s.tasks,
         \A k \in DOMAIN s.tasks : SlotKept(s, falls[k], k),
         Len(s.tasks) <= s.replicas, Count(Recent, Every(falls)) # 0
  PROVE  Suspect(s, ServiceTasks(s))
<1>1. PICK p \in DOMAIN Every(falls) : Recent(Every(falls)[p])
  <2>1. {p \in DOMAIN Every(falls) : Recent(Every(falls)[p])} # {}
    BY FS_EmptySet DEF Count
  <2> QED BY <2>1
<1>2. PICK k \in DOMAIN s.tasks : \E a \in DOMAIN falls[k] : p = <<k, a>>
  BY EveryPlace
<1>3. PICK a \in DOMAIN falls[k] : p = <<k, a>>
  BY <1>2
<1>4. Recent(falls[k][a])
  BY <1>1, <1>3, EveryPlace
<1>5. /\ falls[k][a] \in Int /\ falls[k][a] <= s.tasks[k].at /\ s.tasks[k].at \in Int
  <2>1. falls[k] \in Seq(Int) /\ falls[k][a] <= s.tasks[k].at
    BY DEF SlotKept
  <2>2. s.tasks[k] \in SwarmTask
    BY ServiceType
  <2> QED BY <2>1, <2>2 DEF SwarmTask
<1>6. CASE s.tasks[k].placed /\ s.tasks[k].state = "running"
  <2>1. /\ ServiceTasks(s).newest \in Int /\ ServiceTasks(s).newest >= s.tasks[k].at
    BY <1>6, NewestIsLate
  <2>2. now - falls[k][a] <= Window
    BY <1>4, <1>5, RecentIsLate
  <2>3. now - ServiceTasks(s).newest <= Window
    BY <1>5, <2>1, <2>2, DockerAssumption DEF DockerAssumption
  <2> QED BY <2>1, <2>3, RecentIsLate DEF Suspect
<1>7. CASE ~ (s.tasks[k].placed /\ s.tasks[k].state = "running")
  <2>1. ServiceTasks(s).running \in Nat /\ ServiceTasks(s).running < Len(s.tasks)
    BY <1>7, ShortOfOne
  <2>2. s.replicas \in Int /\ Len(s.tasks) \in Nat
    BY ServiceType
  <2> QED BY <2>1, <2>2 DEF Suspect, Global
<1> QED BY <1>6, <1>7

\* What Swarm remembers when the login begins.
LEMMA SlotBefore ==
  ASSUME NEW s \in SwarmService, IsTimely(s), ~ FallenBefore(s).rolled,
         NEW k \in DOMAIN s.tasks
  PROVE  SlotKept(s, FallenBefore(s).at[k], k)
<1> DEFINE n == Len(s.ended[k])
           falls == FallenBefore(s).at[k]
<1>1. k \in DOMAIN s.ended
  BY DEF IsTimely
<1>2. /\ s.ended[k] \in Seq(EndedTask) /\ n \in Nat /\ s.tasks[k].at \in Int
      /\ \A j \in 1..n : s.ended[k][j].at \in Int
  <2>1. s.ended[k] \in Seq(EndedTask) /\ s.tasks[k] \in SwarmTask
    BY <1>1, SlotTasks
  <2>2. n \in Nat /\ \A j \in 1..n : s.ended[k][j] \in EndedTask
    BY <2>1
  <2> QED BY <2>1, <2>2 DEF SwarmTask, EndedTask
<1>3. \A j \in 1..n : Fell(s.ended[k][j])
  <2> SUFFICES ASSUME NEW j \in 1..n  PROVE Fell(s.ended[k][j])
    OBVIOUS
  <2>1. j \in DOMAIN s.ended[k]
    BY <1>2
  <2>2. <<k, j>> \in DOMAIN Every(s.ended) /\ Every(s.ended)[<<k, j>>] = s.ended[k][j]
    BY <1>1, <2>1, EveryPlace
  <2>3. s.ended[k][j] \in Range(Every(s.ended))
    BY <2>2 DEF Range
  <2> QED BY <2>3 DEF FallenBefore
<1>4. /\ \A a \in 1..n : /\ s.ended[k][a].at <= s.tasks[k].at
                         /\ \A b \in a..n : s.ended[k][a].at <= s.ended[k][b].at
  BY <1>2 DEF IsTimely
<1>5. CASE ~ Fell(s.tasks[k])
  <2>1. falls = [j \in DOMAIN s.ended[k] |-> s.ended[k][j].at]
    BY <1>1, <1>5 DEF FallenBefore, Map
  <2>2. /\ falls \in Seq(Int) /\ Len(falls) = n /\ DOMAIN falls = 1..n
        /\ \A j \in 1..n : falls[j] = s.ended[k][j].at
    <3>1. DOMAIN s.ended[k] = 1..n
      BY <1>2
    <3> HIDE DEF n, falls
    <3>2. falls = [j \in 1..n |-> s.ended[k][j].at]
      BY <2>1, <3>1
    <3> QED BY <1>2, <3>2
  <2>3. Remembered(s, k) = n
    BY <1>5 DEF Remembered
  <2>4. \A j \in 1..n : n - n + j = j
    BY <1>2
  <2>5. \A j \in 1..n : AllTasks(s)[k][j] = s.ended[k][j]
    BY <1>1, SlotTasks
  <2> HIDE DEF falls, n
  <2>6. \A a \in 1..n : \A b \in a..n : b \in 1..n
    BY <1>2
  <2>7. \A a \in DOMAIN falls : /\ falls[a] <= s.tasks[k].at
                                /\ \A b \in a..Len(falls) : falls[a] <= falls[b]
    BY <1>4, <2>2, <2>6
  <2>8. SlotKept(s, falls, k)
    BY <1>2, <1>3, <2>2, <2>3, <2>4, <2>5, <2>7 DEF SlotKept
  <2> QED BY <2>8 DEF falls
<1>6. CASE Fell(s.tasks[k])
  <2>1. falls = [j \in DOMAIN AllTasks(s)[k] |-> AllTasks(s)[k][j].at]
    BY <1>1, <1>6 DEF FallenBefore, Map
  <2>2. /\ DOMAIN AllTasks(s)[k] = 1..(n + 1)
        /\ \A j \in 1..n : AllTasks(s)[k][j] = s.ended[k][j]
        /\ AllTasks(s)[k][n + 1] = s.tasks[k]
    BY <1>1, SlotTasks
  <2>3. \A j \in 1..(n + 1) : j \in 1..n \/ j = n + 1
    BY <1>2
  <2>4. /\ DOMAIN falls = 1..(n + 1) /\ falls[n + 1] = s.tasks[k].at
        /\ \A j \in 1..n : falls[j] = s.ended[k][j].at
    <3>1. n + 1 \in 1..(n + 1) /\ \A j \in 1..n : j \in 1..(n + 1)
      BY <1>2
    <3> HIDE DEF n, falls
    <3> QED BY <2>1, <2>2, <3>1
  <2>5. falls \in Seq(Int) /\ Len(falls) = n + 1
    <3>1. \A j \in 1..(n + 1) : AllTasks(s)[k][j].at \in Int
      BY <1>2, <2>2, <2>3
    <3> HIDE DEF n, falls
    <3>2. falls = [j \in 1..(n + 1) |-> AllTasks(s)[k][j].at]
      BY <2>1, <2>2
    <3> QED BY <1>2, <3>1, <3>2
  <2>6. Remembered(s, k) = n + 1
    BY <1>6 DEF Remembered
  <2>7. \A j \in 1..(n + 1) : Fell(AllTasks(s)[k][j]) /\ AllTasks(s)[k][j].at = falls[j]
    BY <1>3, <1>6, <2>2, <2>3, <2>4
  <2>8. \A j \in 1..(n + 1) : (n + 1) - (n + 1) + j = j
    BY <1>2
  <2> HIDE DEF falls
  <2>9. ASSUME NEW a \in 1..(n + 1), NEW b \in a..(n + 1)
        PROVE  falls[a] <= s.tasks[k].at /\ falls[a] <= falls[b]
    <3>1. CASE b = n + 1
      BY <1>2, <1>4, <2>3, <2>4, <3>1
    <3>2. CASE b # n + 1
      <4>1. a \in 1..n /\ b \in a..n /\ b \in 1..n
        <5> HIDE DEF n
        <5> QED BY <1>2, <3>2
      <4> QED BY <1>4, <2>4, <4>1
    <3> QED BY <3>1, <3>2
  <2>10. \A a \in 1..(n + 1) : a \in a..(n + 1)
    BY <1>2
  <2>11. SlotKept(s, falls, k)
    BY <1>2, <2>4, <2>5, <2>6, <2>7, <2>8, <2>9, <2>10 DEF SlotKept
  <2> QED BY <2>11 DEF falls
<1> QED BY <1>5, <1>6

\* What Swarm keeps of each slot is the end of what happened in it.
SlotsKept ==
    /\ DOMAIN fallen = DOMAIN daemon.services
    /\ \A i \in DOMAIN daemon.services :
          LET s == daemon.services[i] IN
          /\ DOMAIN fallen[i] = {"at", "rolled"}
          /\ ~ s.job => /\ DOMAIN fallen[i].at = DOMAIN s.tasks
                        /\ DOMAIN s.ended = DOMAIN s.tasks
                        /\ \A k \in DOMAIN s.tasks :
                              /\ s.tasks[k].at <= now
                              /\ ~ fallen[i].rolled => SlotKept(s, fallen[i].at[k], k)

\* TROUBLE has been told of each service listed so far.
ToldInOrder ==
    /\ \E T : told \in Seq(T)
    /\ DOMAIN told \subseteq DOMAIN daemon.services
    /\ call.next \in {"info", "nodes", "containers", "services"} => told = <<>>
    /\ call.next \in {"tasks", "history"} => call.of = Len(told) + 1
    /\ got.retention \in {0, Retention}

FallsInv == SlotsKept /\ ToldInOrder /\ FallsAreCounted

\* One slot of service i moves.
LEMMA SlotMoves ==
  ASSUME DaemonKept, SlotsKept, UNCHANGED now,
         NEW i \in DOMAIN daemon.services, NEW k \in DOMAIN daemon.services[i].tasks,
         NEW t, SameButSlot(daemon.services[i], t, k), t.tasks[k].at = now,
         daemon' = [daemon EXCEPT !.services[i] = t],
         DOMAIN fallen' = DOMAIN fallen, DOMAIN fallen'[i] = {"at", "rolled"},
         \A j \in DOMAIN fallen \ {i} : fallen'[j] = fallen[j],
         ~ t.job => DOMAIN fallen'[i].at = DOMAIN fallen[i].at,
         ~ t.job /\ ~ fallen'[i].rolled =>
            /\ ~ fallen[i].rolled /\ SlotKept(t, fallen'[i].at[k], k)
            /\ \A l \in DOMAIN fallen[i].at \ {k} : fallen'[i].at[l] = fallen[i].at[l]
  PROVE  SlotsKept'
<1> DEFINE s == daemon.services[i]
<1>1. /\ s \in SwarmService /\ now \in Nat
      /\ t \in SwarmService /\ t.job = s.job
      /\ DOMAIN t.tasks = DOMAIN s.tasks /\ DOMAIN t.ended = DOMAIN s.ended
      /\ \A l \in DOMAIN s.tasks \ {k} : t.tasks[l] = s.tasks[l]
      /\ \A l \in DOMAIN s.ended \ {k} : t.ended[l] = s.ended[l]
  BY DEF DaemonKept, SameButSlot
<1>2. /\ DOMAIN daemon'.services = DOMAIN daemon.services
      /\ \A j \in DOMAIN daemon.services :
            daemon'.services[j] = IF j = i THEN t ELSE daemon.services[j]
  BY DEF DaemonKept
<1>3. ASSUME ~ s.job, NEW l \in DOMAIN s.tasks
      PROVE  /\ t.tasks[l].at <= now
             /\ ~ fallen'[i].rolled => SlotKept(t, fallen'[i].at[l], l)
  <2>1. /\ s.tasks[l].at <= now /\ l \in DOMAIN fallen[i].at /\ l \in DOMAIN s.ended
        /\ ~ fallen[i].rolled => SlotKept(s, fallen[i].at[l], l)
    BY <1>3 DEF SlotsKept
  <2>2. CASE l = k
    BY <1>1, <1>3, <2>2
  <2>3. CASE l # k
    <3>1. t.tasks[l] = s.tasks[l] /\ t.ended[l] = s.ended[l]
      BY <1>1, <2>1, <2>3
    <3>2. ASSUME ~ fallen'[i].rolled  PROVE SlotKept(t, fallen'[i].at[l], l)
      <4>1. fallen'[i].at[l] = fallen[i].at[l] /\ ~ fallen[i].rolled
        BY <1>1, <1>3, <2>1, <2>3, <3>2
      <4> QED BY <1>1, <2>1, <3>1, <4>1, OtherSlot
    <3> QED BY <2>1, <3>1, <3>2
  <2> QED BY <2>2, <2>3
<1>4. ~ s.job => DOMAIN fallen[i].at = DOMAIN s.tasks /\ DOMAIN s.ended = DOMAIN s.tasks
  BY DEF SlotsKept
<1>5. ASSUME NEW j \in DOMAIN daemon.services, j # i
      PROVE  LET u == daemon'.services[j] IN
             /\ DOMAIN fallen'[j] = {"at", "rolled"}
             /\ ~ u.job => /\ DOMAIN fallen'[j].at = DOMAIN u.tasks
                           /\ DOMAIN u.ended = DOMAIN u.tasks
                           /\ \A l \in DOMAIN u.tasks :
                                 /\ u.tasks[l].at <= now
                                 /\ ~ fallen'[j].rolled => SlotKept(u, fallen'[j].at[l], l)
  <2>1. daemon'.services[j] = daemon.services[j] /\ fallen'[j] = fallen[j]
    BY <1>2, <1>5 DEF SlotsKept
  <2> QED BY <2>1 DEF SlotsKept
<1>6. LET u == daemon'.services[i] IN
      /\ DOMAIN fallen'[i] = {"at", "rolled"}
      /\ ~ u.job => /\ DOMAIN fallen'[i].at = DOMAIN u.tasks
                    /\ DOMAIN u.ended = DOMAIN u.tasks
                    /\ \A l \in DOMAIN u.tasks :
                          /\ u.tasks[l].at <= now
                          /\ ~ fallen'[i].rolled => SlotKept(u, fallen'[i].at[l], l)
  BY <1>1, <1>2, <1>3, <1>4
<1>7. DOMAIN fallen' = DOMAIN daemon'.services
  BY <1>2 DEF SlotsKept
<1> QED BY <1>2, <1>5, <1>6, <1>7 DEF SlotsKept

LEMMA SwarmFalls == ASSUME DaemonKept, SlotsKept, Swarm PROVE SlotsKept'
<1>1. now \in Nat /\ DOMAIN fallen = DOMAIN daemon.services
  BY DEF DaemonKept, SlotsKept
<1>2. CASE Tick
  <2>1. UNCHANGED <<daemon, fallen>> /\ now' = now + 1
    BY <1>2 DEF Tick
  <2>2. ASSUME NEW i \in DOMAIN daemon.services, ~ daemon.services[i].job,
               NEW k \in DOMAIN daemon.services[i].tasks
        PROVE  daemon.services[i].tasks[k].at <= now + 1
    <3>1. daemon.services[i].tasks[k] \in SwarmTask
      BY ServiceType DEF DaemonKept
    <3>2. daemon.services[i].tasks[k].at \in Int /\ daemon.services[i].tasks[k].at <= now
      BY <2>2, <3>1 DEF SlotsKept, SwarmTask
    <3> QED BY <1>1, <3>2
  <2> QED BY <2>1, <2>2 DEF SlotsKept
<1>3. ASSUME NEW i \in DOMAIN daemon.services, NEW k \in DOMAIN daemon.services[i].tasks
      PROVE  LET s == daemon.services[i] IN
             /\ s \in SwarmService /\ DOMAIN s.tasks \subseteq DOMAIN s.ended
             /\ DOMAIN fallen[i] = {"at", "rolled"}
             /\ ~ s.job => /\ s.tasks[k].at <= now /\ k \in DOMAIN fallen[i].at
                           /\ ~ fallen[i].rolled => SlotKept(s, fallen[i].at[k], k)
  BY DEF DaemonKept, SlotsKept
<1>4. ASSUME NEW i \in DOMAIN daemon.services, NEW k \in DOMAIN daemon.services[i].tasks,
             Start(i, k)
      PROVE  SlotsKept'
  <2> DEFINE s == daemon.services[i]
             task == [state |-> "running", placed |-> TRUE, err |-> FALSE, at |-> now]
             t == [s EXCEPT !.tasks[k] = task]
  <2>1. task \in SwarmTask /\ ~ Fell(task) /\ task.at = now
    BY <1>1 DEF SwarmTask, TaskStates, Fell
  <2>2. /\ daemon' = [daemon EXCEPT !.services[i] = t] /\ UNCHANGED <<now, fallen>>
        /\ ~ Fell(s.tasks[k])
    BY <1>4 DEF Start, Happens, Task, Fell, StartingStates
  <2> HIDE DEF task
  <2>3. SameButSlot(s, t, k) /\ t.tasks[k] = task /\ t.ended = s.ended
    BY <1>3, <2>1, StartedSlot
  <2>4. t.job = s.job
    BY <2>3 DEF SameButSlot
  <2> HIDE DEF t
  <2>5. ASSUME ~ t.job, ~ fallen[i].rolled  PROVE SlotKept(t, fallen[i].at[k], k)
    BY <1>1, <1>3, <2>1, <2>2, <2>3, <2>4, <2>5, SlotStarts
  <2> QED BY <1>3, <2>1, <2>2, <2>3, <2>5, SlotMoves
<1>5. ASSUME NEW i \in DOMAIN daemon.services, NEW k \in DOMAIN daemon.services[i].tasks,
             Update(i, k)
      PROVE  SlotsKept'
  <2> DEFINE s == daemon.services[i]
             task == [state |-> "starting", placed |-> TRUE, err |-> FALSE, at |-> now]
             t == Followed(s, k, "shutdown", task)
  <2>1. task \in SwarmTask /\ task.at = now /\ "shutdown" \in TaskStates
    BY <1>1 DEF SwarmTask, TaskStates
  <2>2. /\ daemon' = [daemon EXCEPT !.services[i] = t] /\ UNCHANGED now
        /\ fallen' = [fallen EXCEPT ![i].rolled = TRUE]
    BY <1>5 DEF Update, Happens
  <2> HIDE DEF task
  <2>3. SameButSlot(s, t, k) /\ t.tasks[k] = task
    BY <1>1, <1>3, <2>1, FollowedSlot
  <2> HIDE DEF t
  <2>4. /\ DOMAIN fallen' = DOMAIN fallen /\ DOMAIN fallen'[i] = {"at", "rolled"}
        /\ \A j \in DOMAIN fallen \ {i} : fallen'[j] = fallen[j]
        /\ fallen'[i].at = fallen[i].at /\ fallen'[i].rolled
    BY <1>1, <1>3, <2>2
  <2> QED BY <2>1, <2>2, <2>3, <2>4, SlotMoves
<1>6. ASSUME NEW i \in DOMAIN daemon.services, NEW k \in DOMAIN daemon.services[i].tasks,
             NEW placed \in BOOLEAN, Fall(i, k, placed)
      PROVE  SlotsKept'
  <2> DEFINE s == daemon.services[i]
             task == [state |-> IF placed THEN "starting" ELSE "pending",
                      placed |-> placed, err |-> ~ placed, at |-> now]
             t == Followed(s, k, "failed", task)
  <2>1. task \in SwarmTask /\ ~ Fell(task) /\ task.at = now /\ "failed" \in TaskStates
    BY <1>1 DEF SwarmTask, TaskStates, Fell
  <2>2. /\ daemon' = [daemon EXCEPT !.services[i] = t] /\ UNCHANGED now
        /\ fallen' = [fallen EXCEPT ![i].at[k] = Append(fallen[i].at[k], now)]
        /\ ~ Fell(s.tasks[k])
    BY <1>6 DEF Fall, Happens, Task, Fell, StartingStates
  <2> HIDE DEF task
  <2>3. SameButSlot(s, t, k) /\ t.tasks[k] = task /\ t.ended[k] = Ended(s.ended[k], "failed")
    BY <1>1, <1>3, <2>1, FollowedSlot
  <2>4. t.job = s.job
    BY <2>3 DEF SameButSlot
  <2> HIDE DEF t
  <2>5. /\ DOMAIN fallen' = DOMAIN fallen /\ DOMAIN fallen'[i] = {"at", "rolled"}
        /\ \A j \in DOMAIN fallen \ {i} : fallen'[j] = fallen[j]
        /\ fallen'[i].rolled = fallen[i].rolled
        /\ fallen'[i].at = [fallen[i].at EXCEPT ![k] = Append(fallen[i].at[k], now)]
    BY <1>1, <1>3, <2>2
  <2>6. /\ DOMAIN fallen'[i].at = DOMAIN fallen[i].at
        /\ k \in DOMAIN fallen[i].at => fallen'[i].at[k] = Append(fallen[i].at[k], now)
        /\ \A l \in DOMAIN fallen[i].at \ {k} : fallen'[i].at[l] = fallen[i].at[l]
    BY <2>5
  <2>7. ASSUME ~ t.job, ~ fallen'[i].rolled
        PROVE  ~ fallen[i].rolled /\ SlotKept(t, fallen'[i].at[k], k)
    <3>1. SlotKept(s, fallen[i].at[k], k) /\ s.tasks[k].at <= now /\ k \in DOMAIN fallen[i].at
      BY <1>3, <2>4, <2>5, <2>7
    <3>2. /\ now \in Int /\ s \in SwarmService /\ k \in DOMAIN s.tasks /\ k \in DOMAIN s.ended
          /\ ~ Fell(s.tasks[k]) /\ ~ Fell(t.tasks[k]) /\ t.tasks[k].at = now
      BY <1>1, <1>3, <2>1, <2>2, <2>3
    <3> HIDE DEF s
    <3>3. SlotKept(t, Append(fallen[i].at[k], now), k)
      BY <2>3, <3>1, <3>2, SlotFalls
    <3> QED BY <2>5, <2>6, <2>7, <3>1, <3>3
  <2> QED BY <2>1, <2>2, <2>3, <2>5, <2>6, <2>7, SlotMoves
<1> QED BY <1>2, <1>4, <1>5, <1>6 DEF Swarm

\* What TROUBLE may say of a service of whose tasks `falls` fell in the window.
EntryIsTrue(entry, falls, retention) ==
    /\ falls > 0 => /\ entry # NoEntry
                    /\ \/ entry.fails = falls
                       \/ entry.fails < falls /\ (entry.capped \/ retention = 0)
    /\ falls = 0 /\ entry # NoEntry => entry.fails = NoCount

\* TROUBLE is told of the next service.
LEMMA TellOne ==
  ASSUME DaemonKept, ToldInOrder, FallsAreCounted, UNCHANGED daemon,
         NEW i \in DOMAIN daemon.services, call.next \in {"tasks", "history"}, call.of = i,
         call'.next = "tasks", call'.of = i + 1, got'.retention = got.retention,
         NEW entry, NEW heard, Tell(i, entry, heard),
         LET s == daemon.services[i] IN
         heard /\ ~ fallen[i].rolled /\ ~ s.job /\ Len(s.tasks) <= s.replicas =>
            EntryIsTrue(entry, Count(Recent, Every(fallen[i].at)), got.retention)
  PROVE  ToldInOrder' /\ FallsAreCounted'
<1> DEFINE one == [entry |-> entry, heard |-> heard, retention |-> got.retention,
                   falls |-> Count(Recent, Every(fallen[i].at)), rolled |-> fallen[i].rolled]
<1>1. PICK T : told \in Seq(T)
  BY DEF ToldInOrder
<1>2. told' = Append(told, one)
  BY DEF Tell
<1>3. Len(told) + 1 = i
  BY DEF ToldInOrder
<1>4. /\ one.entry = entry /\ one.heard = heard /\ one.retention = got.retention
      /\ one.falls = Count(Recent, Every(fallen[i].at)) /\ one.rolled = fallen[i].rolled
  OBVIOUS
<1> HIDE DEF one
<1>5. told \in Seq(T \cup {one})
  BY <1>1
<1>6. /\ told' \in Seq(T \cup {one}) /\ Len(told') = i /\ told'[i] = one
      /\ DOMAIN told' = DOMAIN told \cup {i}
      /\ \A j \in DOMAIN told : told'[j] = told[j]
  BY <1>2, <1>3, <1>5
<1>7. DOMAIN told' \subseteq DOMAIN daemon'.services
  BY <1>6 DEF ToldInOrder
<1>8. ToldInOrder'
  BY <1>6, <1>7 DEF ToldInOrder
<1>9. ASSUME NEW j \in DOMAIN told'
      PROVE  LET t == told'[j]
                 s == daemon.services[j]
             IN  t.heard /\ ~ t.rolled /\ ~ s.job /\ Len(s.tasks) <= s.replicas =>
                    EntryIsTrue(t.entry, t.falls, t.retention)
  <2>1. CASE j = i
    BY <1>4, <1>6, <2>1
  <2>2. CASE j # i
    BY <1>6, <2>2 DEF FallsAreCounted, EntryIsTrue
  <2> QED BY <2>1, <2>2
<1>10. FallsAreCounted'
  BY <1>9 DEF FallsAreCounted, EntryIsTrue
<1> QED BY <1>8, <1>10

LEMMA ListTasksTells ==
  ASSUME Inv, FallsInv, NEW i \in DOMAIN daemon.services, ListTasks(i)
  PROVE  FallsInv'
<1> DEFINE s == daemon.services[i]
<1>1. /\ call.next = "tasks" /\ call.of = i /\ UNCHANGED <<daemon, now, fallen>>
  BY DEF ListTasks, Ask, Of
<1>2. SlotsKept'
  BY <1>1 DEF FallsInv, SlotsKept
<1>3. PICK facts \in {ServiceTasks(s), NoFacts} :
         \/ /\ got' = [got EXCEPT !.facts = facts] /\ call' = Of(i, "history")
            /\ UNCHANGED told
         \/ /\ ~ (s.job \/ Suspect(s, facts))
            /\ got' = [got EXCEPT !.services = Append(@, ServiceStatus(s, facts, NoRun))]
            /\ Tell(i, NoEntry, facts.known)
            /\ call' = Of(i + 1, "tasks")
  BY DEF ListTasks
<1>4. got'.retention = got.retention
  BY <1>3 DEF Inv, ListsCounted, Nothing
<1>5. CASE UNCHANGED told /\ call' = Of(i, "history")
  <2>1. ToldInOrder'
    BY <1>1, <1>4, <1>5 DEF FallsInv, ToldInOrder, Of
  <2>2. FallsAreCounted'
    BY <1>1, <1>5 DEF FallsInv, FallsAreCounted
  <2> QED BY <1>2, <2>1, <2>2 DEF FallsInv
<1>6. CASE /\ ~ (s.job \/ Suspect(s, facts))
           /\ Tell(i, NoEntry, facts.known) /\ call' = Of(i + 1, "tasks")
  <2>1. call'.next = "tasks" /\ call'.of = i + 1
    BY <1>6 DEF Of
  <2>2. ASSUME facts.known, ~ fallen[i].rolled, ~ s.job, Len(s.tasks) <= s.replicas
        PROVE  EntryIsTrue(NoEntry, Count(Recent, Every(fallen[i].at)), got.retention)
    <3>1. facts = ServiceTasks(s)
      BY <2>2 DEF NoFacts
    <3>2. /\ now \in Nat /\ now > Window /\ s \in SwarmService
          /\ DOMAIN s.ended = DOMAIN s.tasks /\ DOMAIN fallen[i].at = DOMAIN s.tasks
          /\ \A k \in DOMAIN s.tasks : SlotKept(s, fallen[i].at[k], k)
      BY <2>2 DEF Inv, DaemonKept, FallsInv, SlotsKept
    <3>3. Count(Recent, Every(fallen[i].at)) = 0
      BY <1>6, <2>2, <3>1, <3>2, FallIsSuspect
    <3> QED BY <3>3 DEF EntryIsTrue
  <2>3. ToldInOrder' /\ FallsAreCounted'
    BY <1>1, <1>4, <1>6, <2>1, <2>2, TellOne DEF Inv, FallsInv
  <2> QED BY <1>2, <2>3 DEF FallsInv
<1> QED BY <1>3, <1>5, <1>6

LEMMA ListHistoryTells ==
  ASSUME Inv, FallsInv, NEW i \in DOMAIN daemon.services, ListHistory(i)
  PROVE  FallsInv'
<1> DEFINE s == daemon.services[i]
<1>1. /\ call.next = "history" /\ call.of = i /\ UNCHANGED <<daemon, now, fallen>>
  BY DEF ListHistory, Ask, Of
<1>2. SlotsKept'
  BY <1>1 DEF FallsInv, SlotsKept
<1>3. PICK answered \in BOOLEAN : \E entry, run :
         /\ entry = IF s.job THEN NoEntry
                    ELSE ServiceTrouble(got.facts, IF answered THEN FailedHistory(s) ELSE 0,
                                        got.retention)
         /\ got' = [got EXCEPT !.facts = NoFacts, !.trouble = AddEntry(@, entry),
                       !.services = Append(@, ServiceStatus(s, got.facts, run))]
         /\ Tell(i, entry, got.facts.known /\ answered)
         /\ call' = Of(i + 1, "tasks")
  BY Zenon DEF ListHistory
<1>4. PICK entry, run :
         /\ entry = IF s.job THEN NoEntry
                    ELSE ServiceTrouble(got.facts, IF answered THEN FailedHistory(s) ELSE 0,
                                        got.retention)
         /\ got' = [got EXCEPT !.facts = NoFacts, !.trouble = AddEntry(@, entry),
                       !.services = Append(@, ServiceStatus(s, got.facts, run))]
         /\ Tell(i, entry, got.facts.known /\ answered)
         /\ call' = Of(i + 1, "tasks")
  BY Zenon, <1>3
<1>5. got'.retention = got.retention
  BY <1>4 DEF Inv, ListsCounted, Nothing
<1>6. call'.next = "tasks" /\ call'.of = i + 1
  BY <1>4 DEF Of
<1>7. ASSUME answered, ~ fallen[i].rolled, ~ s.job
      PROVE  EntryIsTrue(entry, Count(Recent, Every(fallen[i].at)), got.retention)
  <2> DEFINE fails == FailedHistory(s)
             falls == Count(Recent, Every(fallen[i].at))
  <2>1. /\ now \in Nat /\ now > Window /\ s \in SwarmService
        /\ DOMAIN s.ended = DOMAIN s.tasks /\ DOMAIN fallen[i].at = DOMAIN s.tasks
        /\ \A k \in DOMAIN s.tasks : SlotKept(s, fallen[i].at[k], k)
    BY <1>7 DEF Inv, DaemonKept, FallsInv, SlotsKept
  <2>2. /\ fails \in Nat /\ falls \in Nat /\ fails <= falls
        /\ fails = falls \/ fails >= Retention
    BY <2>1, HistoryCounts
  <2>3. Retention \in Nat \ {0} /\ got.retention \in {0, Retention}
    BY DockerAssumption DEF DockerAssumption, FallsInv, ToldInOrder
  <2>4. entry = ServiceTrouble(got.facts, fails, got.retention)
    BY <1>4, <1>7
  <2> HIDE DEF fails, falls
  <2>5. CASE fails = 0
    <3>1. falls = 0
      BY <2>2, <2>3, <2>5
    <3>2. entry = NoEntry \/ entry.fails = NoCount
      BY <2>4, <2>5 DEF ServiceTrouble
    <3>3. EntryIsTrue(entry, falls, got.retention)
      BY <3>1, <3>2 DEF EntryIsTrue
    <3> QED BY <3>3 DEF falls
  <2>6. CASE fails # 0
    <3>1. /\ entry.entry = TRUE /\ entry.fails = fails
          /\ entry.capped = (got.retention # 0 /\ fails >= got.retention)
      BY <2>4, <2>6 DEF ServiceTrouble
    <3>2. entry # NoEntry
      BY <3>1 DEF NoEntry
    <3>3. falls > 0
      BY <2>2, <2>6
    <3>4. fails = falls \/ (fails < falls /\ (entry.capped \/ got.retention = 0))
      <4>1. CASE fails = falls
        BY <4>1
      <4>2. CASE got.retention = 0
        BY <2>2, <4>2
      <4>3. CASE fails # falls /\ got.retention # 0
        <5>1. fails < falls /\ fails >= Retention /\ got.retention = Retention
          BY <2>2, <2>3, <4>3
        <5>2. got.retention # 0 /\ fails >= got.retention
          BY <4>3, <5>1
        <5>3. entry.capped
          BY <3>1, <5>2
        <5> QED BY <5>1, <5>3
      <4> QED BY <4>1, <4>2, <4>3
    <3>5. EntryIsTrue(entry, falls, got.retention)
      BY <3>1, <3>2, <3>3, <3>4 DEF EntryIsTrue
    <3> QED BY <3>5 DEF falls
  <2> QED BY <2>5, <2>6
<1>8. ToldInOrder' /\ FallsAreCounted'
  BY <1>1, <1>4, <1>5, <1>6, <1>7, TellOne DEF Inv, FallsInv
<1> QED BY <1>2, <1>8 DEF FallsInv

LEMMA SameFalls ==
  ASSUME FallsInv, UNCHANGED <<daemon, now, fallen, told>>,
         got'.retention \in {got.retention, 0, Retention},
         \/ UNCHANGED call
         \/ call.next \in {"info", "nodes", "containers", "services"}
            /\ (call'.next = "tasks" => call'.of = 1) /\ call'.next # "history"
         \/ call'.next \in {"disk", "draw", "row"}
  PROVE  FallsInv'
<1>1. SlotsKept'
  BY DEF FallsInv, SlotsKept
<1>2. FallsAreCounted'
  BY DEF FallsInv, FallsAreCounted
<1>3. ToldInOrder'
  <2>1. /\ \E T : told' \in Seq(T)
        /\ DOMAIN told' \subseteq DOMAIN daemon'.services
        /\ got'.retention \in {0, Retention}
    BY DEF FallsInv, ToldInOrder
  <2>2. CASE UNCHANGED call
    BY <2>1, <2>2 DEF FallsInv, ToldInOrder
  <2>3. CASE call.next \in {"info", "nodes", "containers", "services"}
             /\ (call'.next = "tasks" => call'.of = 1) /\ call'.next # "history"
    <3>1. told = <<>> /\ Len(told) = 0
      BY <2>3 DEF FallsInv, ToldInOrder
    <3> QED BY <2>1, <2>3, <3>1 DEF ToldInOrder
  <2>4. CASE call'.next \in {"disk", "draw", "row"}
    BY <2>1, <2>4 DEF ToldInOrder
  <2> QED BY <2>2, <2>3, <2>4
<1> QED BY <1>1, <1>2, <1>3 DEF FallsInv

LEMMA CollectTells == ASSUME Inv, FallsInv, Collect PROVE FallsInv'
<1>1. DOMAIN got = DOMAIN Nothing
  BY DEF Inv, ListsCounted
<1>2. Nothing.retention = 0 /\ UNCHANGED got.retention => got'.retention \in {got.retention, 0}
  BY DEF Nothing
<1>3. CASE Info
  BY <1>2, <1>3, SameFalls DEF Info, Ask, Unasked, To, Unreachable, Nothing
<1>4. CASE ListNodes
  BY <1>1, <1>4, SameFalls DEF ListNodes, Ask, Unasked, To, Nothing
<1>5. CASE ListContainers
  <2>1. \/ \E silent, listed, trouble :
              /\ got' = [got EXCEPT !.silent = silent, !.containers = listed,
                            !.trouble = trouble]
              /\ call' = To(IF daemon.mode = "standalone" THEN "disk" ELSE "services")
        \/ Unreachable
    BY Zenon, <1>5 DEF ListContainers
  <2>2. call.next = "containers" /\ UNCHANGED <<daemon, now, fallen, told>>
    BY Zenon, <1>5 DEF ListContainers, Ask, Unasked, To
  <2>3. CASE Unreachable
    <3>1. call'.next = "draw" /\ got'.retention = 0
      BY <2>3 DEF Unreachable, To, Nothing
    <3> QED BY <2>2, <3>1, SameFalls
  <2>4. CASE ~ Unreachable
    <3>1. PICK silent, listed, trouble :
              /\ got' = [got EXCEPT !.silent = silent, !.containers = listed,
                            !.trouble = trouble]
              /\ call' = To(IF daemon.mode = "standalone" THEN "disk" ELSE "services")
      BY Zenon, <2>1, <2>4
    <3>2. got'.retention = got.retention
      BY <1>1, <3>1 DEF Nothing
    <3>3. call'.next \in {"disk", "services"}
      BY <3>1 DEF To
    <3> QED BY <2>2, <3>2, <3>3, SameFalls
  <2> QED BY <2>3, <2>4
<1>6. CASE ListServices
  <2>1. /\ call.next = "services" /\ UNCHANGED <<daemon, now, fallen, told>>
        /\ \/ call'.next = "tasks" /\ call'.of = 1
           \/ call'.next = "draw"
    BY <1>6 DEF ListServices, Ask, Unasked, To, Of, Unreachable
  <2>2. got'.retention \in {got.retention, 0, Retention}
    BY <1>1, <1>6 DEF ListServices, Unreachable, Nothing
  <2> QED BY <2>1, <2>2, SameFalls
<1>7. CASE ListedAll
  BY <1>7, SameFalls DEF ListedAll, Ask, To
<1>8. CASE MeasureDisk
  BY <1>1, <1>8, SameFalls DEF MeasureDisk, Ask, Unasked, To, Nothing
<1> QED BY <1>3, <1>4, <1>5, <1>6, <1>7, <1>8, ListTasksTells, ListHistoryTells DEF Collect

LEMMA FallsInitially == Init => FallsInv
<1> SUFFICES ASSUME Init  PROVE FallsInv
  OBVIOUS
<1>1. PICK c \in Cases :
        daemon = [mode |-> c.mode, services |-> c.services, containers |-> c.containers]
  BY DEF Init
<1>2. /\ c.services \in Seq(SwarmService)
      /\ \A i \in DOMAIN c.services : c.services[i].job \/ IsTimely(c.services[i])
  BY CasesAssumption DEF CasesAssumption
<1>3. DOMAIN fallen = DOMAIN daemon.services
  BY DEF Init, Map
<1>4. ASSUME NEW i \in DOMAIN daemon.services
      PROVE  LET s == daemon.services[i] IN
             /\ DOMAIN fallen[i] = {"at", "rolled"}
             /\ ~ s.job => /\ DOMAIN fallen[i].at = DOMAIN s.tasks
                           /\ DOMAIN s.ended = DOMAIN s.tasks
                           /\ \A k \in DOMAIN s.tasks :
                                 /\ s.tasks[k].at <= now
                                 /\ ~ fallen[i].rolled => SlotKept(s, fallen[i].at[k], k)
  <2> DEFINE s == daemon.services[i]
  <2>1. s \in SwarmService /\ (s.job \/ IsTimely(s)) /\ now = Window + 1
    BY <1>1, <1>2 DEF Init
  <2>2. fallen[i] = FallenBefore(s)
    BY DEF Init, Map
  <2>3. DOMAIN fallen[i] = {"at", "rolled"} /\ DOMAIN fallen[i].at = DOMAIN s.ended
    BY <2>2 DEF FallenBefore
  <2> HIDE DEF s
  <2>4. ASSUME ~ s.job
        PROVE  /\ DOMAIN s.ended = DOMAIN s.tasks
               /\ \A k \in DOMAIN s.tasks : s.tasks[k].at <= now
    BY <2>1, <2>4 DEF IsTimely
  <2>5. ASSUME ~ s.job, NEW k \in DOMAIN s.tasks, ~ fallen[i].rolled
        PROVE  SlotKept(s, fallen[i].at[k], k)
    BY <2>1, <2>2, <2>5, SlotBefore
  <2> QED BY <2>3, <2>4, <2>5 DEF s
<1>5. SlotsKept
  BY <1>3, <1>4 DEF SlotsKept
<1>6. ToldInOrder
  <2>1. told = <<>> /\ DOMAIN told = {} /\ call.next = "info" /\ got.retention = 0
    BY DEF Init, To, Nothing
  <2>2. told \in Seq({})
    BY <2>1
  <2> QED BY <2>1, <2>2 DEF ToldInOrder
<1>7. FallsAreCounted
  <2>1. DOMAIN told = {}
    BY DEF Init
  <2> QED BY <2>1 DEF FallsAreCounted
<1> QED BY <1>5, <1>6, <1>7 DEF FallsInv

\* TROUBLE counts what fell, whatever the Swarm does between the listing of a service's
\* tasks and that of its history, and whatever of it Swarm has forgotten.
THEOREM FallsWereCounted == Spec => []FallsAreCounted
<1>1. Inv /\ FallsInv /\ [Next]_vars => FallsInv'
  <2> SUFFICES ASSUME Inv, FallsInv, [Next]_vars  PROVE FallsInv'
    OBVIOUS
  <2>1. CASE call.next \notin {"draw", "row"} /\ Swarm
    <3>1. SlotsKept'
      BY <2>1, SwarmFalls DEF Inv, FallsInv
    <3>2. /\ UNCHANGED <<got, call, told>> /\ DOMAIN daemon'.services = DOMAIN daemon.services
          /\ \A i \in DOMAIN daemon.services :
                LET s == daemon.services[i]
                    t == daemon'.services[i]
                IN  t.job = s.job /\ t.replicas = s.replicas /\ Len(t.tasks) = Len(s.tasks)
      <4>1. DaemonKept' /\ DaemonKept
        BY <2>1, SwarmKeeps DEF Inv
      <4>2. ASSUME NEW i \in DOMAIN daemon.services
            PROVE  Len(daemon'.services[i].tasks) = Len(daemon.services[i].tasks)
        <5>1. /\ daemon'.services[i] \in SwarmService /\ daemon.services[i] \in SwarmService
              /\ DOMAIN daemon'.services[i].tasks = DOMAIN daemon.services[i].tasks
          BY <2>1, <4>1, SwarmKeeps DEF DaemonKept
        <5>2. /\ daemon'.services[i].tasks \in Seq(SwarmTask)
              /\ daemon.services[i].tasks \in Seq(SwarmTask)
          BY <5>1, ServiceType
        <5> QED BY <5>1, <5>2
      <4> QED BY <2>1, <4>1, <4>2, SwarmKeeps, SwarmMoves
    <3>3. ToldInOrder'
      BY <3>2 DEF FallsInv, ToldInOrder
    <3>4. FallsAreCounted'
      BY <3>2 DEF FallsInv, ToldInOrder, FallsAreCounted
    <3> QED BY <3>1, <3>3, <3>4 DEF FallsInv
  <2>2. CASE Collect
    BY <2>2, CollectTells
  <2>3. CASE DrawRow
    BY <2>3, SameFalls DEF DrawRow, To
  <2>4. CASE Row \/ Drawn \/ UNCHANGED vars
    BY <2>4, SameFalls DEF Row, Drawn, vars
  <2> QED BY <2>1, <2>2, <2>3, <2>4 DEF Next
<1>2. FallsInv => FallsAreCounted
  BY DEF FallsInv
<1> QED BY <1>1, <1>2, FallsInitially, Invariance, PTL DEF Spec

=============================================================================
