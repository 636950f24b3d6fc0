------------------------------ MODULE Clusters ------------------------------
(***************************************************************************)
(* What the health checks conclude from the answer of a cluster's tool     *)
(* (collectors/clusters.py: the parsers, and the verdicts of the probes).  *)
(*                                                                         *)
(* An answer is a record of what the text says, a verdict the              *)
(* ClusterService made from it. A host is a number; members are a function *)
(* from where the text has them, where it has one list a sequence.          *)
(* `healthy` and `quorum` have three values: "yes", "no", and "unknown" for *)
(* what was not measured.                                                   *)
(***************************************************************************)
EXTENDS Integers, SequencesExt

Measured(holds) == IF holds THEN "yes" ELSE "no"
Majority(n, of) == n * 2 > of

NoOne == 0      \* no host
NoTli == 0      \* the output has no timeline
NoLsn == 0      \* an LSN that cannot be read
NoLag == 0

Blank == [error |-> FALSE, applicable |-> TRUE, reachable |-> FALSE,
          quorum |-> "unknown", leader |-> NoOne, members |-> <<>>]

Failed        == [Blank EXCEPT !.error = TRUE]
NotApplicable == [Blank EXCEPT !.applicable = FALSE]
Member(host, role, healthy) ==
    [name |-> host, role |-> role, healthy |-> healthy, lag |-> NoLag]

Healthy(members) == Cardinality({i \in DOMAIN members : members[i].healthy = "yes"})
Map(Op(_), s)    == [i \in DOMAIN s |-> Op(s[i])]

-----------------------------------------------------------------------------
(* PostgreSQL. A row of `pg_autoctl show state` has a timeline, an LSN,    *)
(* the state the monitor reports, and whether it has assigned another      *)
(* (`moving`).                                                             *)

LastPrimary(rows) ==
    LET primaries == {i \in DOMAIN rows : rows[i].reported = "primary"}
    IN  IF primaries = {} THEN [tli |-> NoTli, lsn |-> NoLsn] ELSE rows[Max(primaries)]

\* mutant: a foreign timeline is not looked at.
Diverged_Never(row, primary) == FALSE

\* _pg_diverged: unknown on either side is not divergence.
Diverged(row, primary) ==
    primary.tli # NoTli /\ row.tli # NoTli /\ row.tli # primary.tli

\* _lag_distance
LagDistance(here, there) ==
    IF here = NoLsn \/ there = NoLsn \/ there <= here THEN NoLag ELSE there - here

PgMember(rows, i) ==
    LET row     == rows[i]
        primary == LastPrimary(rows)
        apart   == Diverged(row, primary)
    IN  [name    |-> i,
         role    |-> row.reported,
         healthy |-> Measured(~ apart /\ row.reported \in {"primary", "secondary"}),
         lag     |-> IF row.reported = "secondary" /\ ~ apart /\ ~ row.moving
                     THEN LagDistance(row.lsn, primary.lsn) ELSE NoLag]

Leader(members, role) ==
    LET leaders == {i \in DOMAIN members : members[i].role = role}
    IN  IF leaders = {} THEN NoOne ELSE members[Min(leaders)].name

PgQuorum(members) == Measured(Majority(Healthy(members), Len(members)))

\* parse_pg_state: without a row that can be read nothing was measured.
PgState(rows) ==
    LET members == [i \in DOMAIN rows |-> PgMember(rows, i)]
    IN  IF rows = <<>> THEN Blank
        ELSE [Blank EXCEPT !.reachable = TRUE, !.leader = Leader(members, "primary"),
                           !.quorum = PgQuorum(members), !.members = members]

\* pg_isready of a standalone server says nothing of a topology.
Standalone(ready) ==
    IF ready THEN [Blank EXCEPT !.reachable = TRUE, !.quorum = "yes"] ELSE Failed

-----------------------------------------------------------------------------
(* MongoDB. `hosts` is what hello() lists, arbiters and passives with the  *)
(* rest; `states` what the fan-out brought back, of the members it got to. *)

MongoStates ==
    [unreachable |-> "no", primary |-> "yes", secondary |-> "yes", arbiter |-> "yes",
     other |-> "unknown"]

\* _mongo_member_role: measured if possible and inferred if not.
MongoMember(host, reply) ==
    LET state == reply.states[host]
    IN  IF state # "unasked"     THEN Member(host, state, MongoStates[state])
        ELSE IF host = reply.primary THEN Member(host, "primary", "yes")
        ELSE IF host = reply.me      THEN Member(host, "secondary", "yes")
        ELSE Member(host, "member", "unknown")

\* parse_mongo_hello: the quorum means that a primary exists, nothing more.
MongoHello(reply) ==
    IF reply.hosts = <<>> /\ reply.primary = NoOne /\ ~ reply.set THEN Blank
    ELSE [Blank EXCEPT !.reachable = TRUE, !.leader = reply.primary,
                       !.quorum = Measured(reply.primary # NoOne),
                       !.members = Map(LAMBDA h : MongoMember(h, reply), reply.hosts)]

-----------------------------------------------------------------------------
(* Kafka. The output has the `form` of a status; has some of its keys but  *)
(* not the leader, or not a list of voters that can be read (`changed`);   *)
(* or has none of the keys (`other`). What is missing is no host and an    *)
(* empty list; entries of another form are a failure of the check.         *)

KafkaMember(host, leader) ==
    Member(host, IF host = leader THEN "leader" ELSE "voter", "yes")

Recognised(status) == status.form # "other"

\* parse_kafka_quorum: only that there is a leader among the voters.
KafkaQuorum(status) ==
    LET voters == Map(LAMBDA h : KafkaMember(h, status.leader), status.voters)
        leader == Leader(voters, "leader")
    IN  IF ~ Recognised(status) THEN Blank
        ELSE [Blank EXCEPT !.reachable = TRUE, !.leader = leader,
                 !.quorum = Measured(leader # NoOne),
                 !.members = voters
                     \o Map(LAMBDA h : Member(h, "observer", "yes"), status.observers)]

-----------------------------------------------------------------------------
(* GlusterFS: whether each of the other peers is connected, and the        *)
(* entries of each volume, of which the first is shown.                    *)

IsBrick(node) == ~ node.daemon

\* `peer status` does not list this host; without a peer no claim is made.
GlusterQuorum(peers, connected) ==
    IF peers = 0 THEN "unknown" ELSE Measured(Majority(connected + 1, peers + 1))

Bricks(volumes) ==
    IF volumes = <<>> THEN {} ELSE {i \in DOMAIN Head(volumes) : IsBrick(Head(volumes)[i])}

GlusterMember(answer, where, i) ==
    IF where = "peer" THEN Member(i, "peer", Measured(answer.peers[i]))
    ELSE LET node == Head(answer.volumes)[i] IN Member(node.host, "brick", Measured(node.online))

\* parse_gluster
Gluster(answer) ==
    LET connected == {i \in DOMAIN answer.peers : answer.peers[i]}
        where     == ({"peer"} \X DOMAIN answer.peers) \cup ({"brick"} \X Bricks(answer.volumes))
    IN  [Blank EXCEPT
            !.reachable = (answer.peers # <<>> \/ answer.volumes # <<>>),
            !.quorum = GlusterQuorum(Len(answer.peers), Cardinality(connected)),
            !.members = [x \in where |-> GlusterMember(answer, x[1], x[2])]]

-----------------------------------------------------------------------------
(* RustFS: whether each endpoint answered 200; `guessed` says that the     *)
(* list was not read but assumed to be this host alone.                    *)

RustfsQuorum(guessed, live, of) ==
    IF guessed \/ of = 0 THEN "unknown" ELSE Measured(Majority(live, of))

\* probe_rustfs
Rustfs(answer) ==
    LET members == [i \in DOMAIN answer.live |->
                      Member(i, "peer", Measured(answer.live[i]))]
        live    == Healthy(members)
    IN  [Blank EXCEPT !.reachable = (live > 0), !.members = members,
                      !.quorum = RustfsQuorum(answer.guessed, live, Len(members))]

-----------------------------------------------------------------------------
\* What a tool can answer; of the endpoints of RustFS at least this host's is known.
PgRow == [tli : Nat, lsn : Nat, reported : {"primary", "secondary", "other"}, moving : BOOLEAN]
Host  == Nat \ {NoOne}

IsAnswer(a) ==
    /\ a.of \in {"pg_autoctl", "pg_isready", "mongosh", "kafka", "gluster", "curl", "failure",
                 "elsewhere"}
    /\ a.of = "pg_autoctl" => a.rows \in Seq(PgRow)
    /\ a.of = "pg_isready" => a.ready \in BOOLEAN
    /\ a.of = "mongosh" => /\ a.set \in BOOLEAN /\ a.hosts \in Seq(Host) /\ a.primary \in Nat
                          /\ \A h \in ToSet(a.hosts) :
                                a.states[h] \in {"unasked"} \cup DOMAIN MongoStates
    /\ a.of = "kafka" => /\ a.form \in {"status", "changed", "other"} /\ a.leader \in Nat
                         /\ a.voters \in Seq(Host) /\ a.observers \in Seq(Host)
                         /\ a.form = "changed" => a.leader = NoOne \/ a.voters = <<>>
    /\ a.of = "gluster" => /\ a.peers \in Seq(BOOLEAN)
                          /\ a.volumes \in Seq(Seq([host : Host, online : BOOLEAN,
                                                    daemon : BOOLEAN]))
    /\ a.of = "curl" => a.guessed \in BOOLEAN /\ a.live \in Seq(BOOLEAN) \ {<<>>}

\* probe_cluster: what the tool said, an error, or no member on this host.
Verdict(answer) ==
    CASE answer.of = "pg_autoctl" -> PgState(answer.rows)
      [] answer.of = "pg_isready" -> Standalone(answer.ready)
      [] answer.of = "mongosh"    -> MongoHello(answer)
      [] answer.of = "kafka"      -> KafkaQuorum(answer)
      [] answer.of = "gluster"    -> Gluster(answer)
      [] answer.of = "curl"       -> Rustfs(answer)
      [] answer.of = "failure"    -> Failed
      [] answer.of = "elsewhere"  -> NotApplicable
=============================================================================
