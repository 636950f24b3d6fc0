-------------------------------- MODULE Rows --------------------------------
(***************************************************************************)
(* The `Working` cell of a row of DOCKER INFOS (render/verdict.py):        *)
(* Docker's count of the services the row stands for, reconciled with the  *)
(* verdict of the health check of the same kind (render/panels.py:1423).   *)
(*                                                                         *)
(* This module has the row, its services given; Docker.tla collects them    *)
(* from the daemon and draws a row of them.                                *)
(***************************************************************************)
EXTENDS Clusters

CONSTANTS
    Nodes       \* the number of nodes of the Swarm

ASSUME RowsAssumption == Nodes \in Nat

VARIABLES
    answer,     \* what the tool answers
    services,   \* the services of the row, as Docker lists them
    cluster,    \* the verdict in HealthInfo.clusters, or Missing
    cell        \* the icon of the cell

rowVars == <<answer, services, cluster, cell>>

Missing == [missing |-> TRUE]
Undrawn == "undrawn"

Severity == [ok |-> 0, job |-> 0, unknown |-> 1, paused |-> 1, warn |-> 2, dead |-> 3,
             failed |-> 4]

-----------------------------------------------------------------------------
(* Docker's count. A service has its number of `replicas`, or Global; the  *)
(* tasks that run, are starting, or are neither (`down`); those with no    *)
(* node (`unassigned`); and whether it is a job, with its last run.        *)

Global == -1

\* The sum of the numbers n[i], as the number of pairs of an i and one of 1..n[i].
Total(n) == Cardinality(UNION {{i} \X (1..n[i]) : i \in DOMAIN n})

\* _desired: a global service wants what Swarm scheduled.
Desired(s, nodes) ==
    LET scheduled == s.running + s.starting + s.down + s.unassigned
    IN  IF s.replicas # Global THEN s.replicas
        ELSE IF scheduled # 0 THEN scheduled
        ELSE nodes

Running  == Total(Map(LAMBDA s : s.running, services))
Wanted   == Total(Map(LAMBDA s : Desired(s, Nodes), services))
Starting == Total(Map(LAMBDA s : s.starting, services))

\* _replica_icon
ReplicaIcon(running, desired, starting) ==
    IF desired = 0 THEN "paused"
    ELSE IF running = 0 THEN (IF starting > 0 THEN "warn" ELSE "dead")
    ELSE IF running < desired THEN "warn"
    ELSE "ok"

AllJobs == \A i \in DOMAIN services : services[i].job

NoRun == [ran |-> FALSE]
Runs  == {i \in DOMAIN services : services[i].run # NoRun}

\* The last run of each job has an age; the youngest is the newest, of two the first.
Newest ==
    CHOOSE i \in Runs : \A j \in Runs \ {i} :
        \/ services[i].run.age < services[j].run.age
        \/ services[i].run.age = services[j].run.age /\ i < j

\* _job_cell: a run in progress is an ordinary service.
JobIcon ==
    IF Running # 0 THEN ReplicaIcon(Running, Total(Map(LAMBDA s : Desired(s, 0), services)), 0)
    ELSE IF Runs = {} THEN "unknown"
    ELSE IF services[Newest].run.failed THEN "dead"
    ELSE "job"

-----------------------------------------------------------------------------
(* The verdict of the health check. *)

\* mutant: a minority that is down is hidden behind its quorum.
ClusterIcon_QuorumOnly(c) ==
    IF c.error THEN "failed"
    ELSE IF ~ c.applicable \/ c.quorum = "unknown" THEN "unknown"
    ELSE IF c.quorum = "no" THEN "dead"
    ELSE "ok"

\* _cluster_icon
ClusterIcon(c) ==
    IF c.error THEN "failed"
    ELSE IF ~ c.applicable \/ c.quorum = "unknown" THEN "unknown"
    ELSE IF c.quorum = "no" THEN "dead"
    ELSE IF \E i \in DOMAIN c.members : c.members[i].healthy = "no" THEN "warn"
    ELSE "ok"

\* mutant: the verdict of the cluster always wins.
CombinedIcon_Cluster(replica, icon) == icon

\* _combined_icon
CombinedIcon(replica, icon) ==
    IF replica \in {"dead", "warn"} /\ Severity[replica] > Severity[icon]
    THEN replica ELSE icon

\* verdict_icon, for a row of a cluster's kind.
VerdictIcon ==
    IF AllJobs THEN JobIcon
    ELSE CombinedIcon(ReplicaIcon(Running, Wanted, Starting),
                      IF cluster = Missing THEN "unknown" ELSE ClusterIcon(cluster))

-----------------------------------------------------------------------------
\* The check ends in time.
Probe ==
    /\ cell = Undrawn
    /\ cluster = Missing
    /\ cluster' = Verdict(answer)
    /\ UNCHANGED <<answer, services, cell>>

Draw ==
    /\ cell = Undrawn
    /\ cell' = VerdictIcon
    /\ UNCHANGED <<answer, services, cluster>>

-----------------------------------------------------------------------------
(* Properties. What the tools' answers amount to is defined here once      *)
(* more, from the answers.                                                 *)

\* The rows that follow the history of the primary, the last one reported.
Primaries(rows) == {i \in DOMAIN rows : rows[i].reported = "primary"}
Foreign(rows, i) ==
    \E p \in Primaries(rows) :
        /\ \A q \in Primaries(rows) : q <= p
        /\ NoTli \notin {rows[i].tli, rows[p].tli}
        /\ rows[i].tli # rows[p].tli
Serving(rows) ==
    {i \in DOMAIN rows : rows[i].reported \in {"primary", "secondary"} /\ ~ Foreign(rows, i)}

UpTo(s)      == {i \in DOMAIN s : s[i]}
MostOf(n, of) == 2 * n > of

\* The answer says that the cluster has no quorum: no majority of the members that
\* are named, or nobody to lead.
SaysLost(a) ==
    CASE a.of = "pg_autoctl" ->
            a.rows # <<>> /\ ~ MostOf(Cardinality(Serving(a.rows)), Len(a.rows))
      [] a.of = "mongosh" -> a.primary = NoOne /\ (a.set \/ a.hosts # <<>>)
      [] a.of = "kafka"   -> a.form = "status" /\ a.leader \notin ToSet(a.voters)
      [] a.of = "gluster" ->
            a.peers # <<>> /\ ~ MostOf(Cardinality(UpTo(a.peers)) + 1, Len(a.peers) + 1)
      [] a.of = "curl"    ->
            ~ a.guessed /\ ~ MostOf(Cardinality(UpTo(a.live)), Len(a.live))
      [] OTHER -> FALSE

\* The answer says that there is a quorum and nobody who was asked is down.
SaysWell(a) ==
    CASE a.of = "pg_autoctl" -> a.rows # <<>> /\ Serving(a.rows) = DOMAIN a.rows
      [] a.of = "pg_isready" -> a.ready
      [] a.of = "mongosh" ->
            a.primary # NoOne /\ \A h \in ToSet(a.hosts) : a.states[h] # "unreachable"
      [] a.of = "kafka"   -> a.form = "status" /\ a.leader \in ToSet(a.voters)
      [] a.of = "gluster" ->
            /\ a.peers # <<>> /\ UpTo(a.peers) = DOMAIN a.peers
            /\ a.volumes # <<>> =>
                 \A i \in DOMAIN a.volumes[1] :
                    a.volumes[1][i].online \/ a.volumes[1][i].daemon
      [] a.of = "curl"    -> ~ a.guessed /\ UpTo(a.live) = DOMAIN a.live
      [] OTHER -> FALSE

CheckFailed(a) == a.of = "failure" \/ (a.of = "pg_isready" /\ ~ a.ready)

\* Answers the code and the words of the repository judge differently. Kafka's status in
\* another form: an alarm here, none by clusters.py:766. A member on another timeline that
\* leaves a majority: a warning here, red by docs/explanation/cluster-health.md:145.
Disputed(a) ==
    \/ a.of = "kafka" /\ a.form = "changed"
    \/ a.of = "pg_autoctl" /\ \E i \in DOMAIN a.rows : Foreign(a.rows, i)

\* Docker counts no task although some are wanted, and none is on its way.
Outage   == Running = 0 /\ Starting = 0 /\ Wanted > 0
Degraded == Running < Wanted

Judged == cell # Undrawn /\ ~ AllJobs

\* A clustered service is shown as well exactly when its tool said so of the cluster
\* and Docker has every task it wants: never from the count alone, from a check
\* that was cut off, or from an answer that names nobody.
GreenIsEarned == Judged => (cell = "ok" <=> cluster # Missing /\ SaysWell(answer) /\ ~ Degraded)

Broken == Outage \/ (cluster # Missing /\ (SaysLost(answer) \/ CheckFailed(answer)))

\* It is shown as broken exactly when one of the two measured that: an outage Docker
\* counted is never softened by a cluster that is well, and output nobody recognises
\* raises no alarm.  Whether a disputed answer does is left open.
AlarmIsTrue ==
    Judged =>
        LET alarm == cell \in {"dead", "failed"} IN
        /\ Broken => alarm
        /\ alarm => Broken \/ (cluster # Missing /\ Disputed(answer))

\* docs: a stopped standby is not a slow one.  A member on another timeline than the
\* primary counts as down and shows no distance; a distance is shown only of one
\* that counts as up, and only when it trails the primary.
StoppedIsNotSlow ==
    cluster # Missing /\ answer.of = "pg_autoctl" =>
        \A i \in DOMAIN answer.rows :
            LET m == cluster.members[i] IN
            /\ Foreign(answer.rows, i) => m.healthy = "no" /\ m.lag = NoLag
            /\ m.lag # NoLag =>
                 /\ m.healthy = "yes"
                 /\ \E p \in Primaries(answer.rows) :
                        answer.rows[p].lsn = answer.rows[i].lsn + m.lag
                 /\ m.lag > 0
=============================================================================
