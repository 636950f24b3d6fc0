------------------------------- MODULE Health -------------------------------
(***************************************************************************)
(* One health pass: collectors/health.py (collect_health) over the budget's*)
(* contract, the ContainerIndex the cluster probes share                   *)
(* (collectors/clusters.py), and the HEALTH section's choice of blocks     *)
(* (render/health.py).                                                     *)
(*                                                                         *)
(* A check is a task of the contract, a pair <<prefix, name>>.  Its thread *)
(* runs until it has an answer, also after the call is over; a probe that  *)
(* hangs simply takes no step.  The three Docker listings and the Swarm    *)
(* node list are each asked for under a lock and remembered: `cache` holds *)
(* the answer, `holder` the thread inside the lock, `asked` counts the     *)
(* requests.                                                               *)
(***************************************************************************)
EXTENDS Naturals, FiniteSets, SequencesExt

CONSTANTS
    DockerKinds,    \* cluster kinds probed by an exec in a container
    Configs         \* what a host may have: health.enabled, a Docker client, a
                    \* Docker endpoint, whether the caller had the peer names, and
                    \* whether the Docker daemon ever answers

HostRunKinds == {"glusterfs"}               \* HOST_RUN_CLUSTER_KINDS
StateKinds   == {"vrrp", "apache"}          \* read from the state file
HostKinds    == StateKinds \cup {"systemd"} \* HOST_KINDS
ClusterKinds == DockerKinds \cup HostRunKinds

ClusterTask(k) == <<"cluster", k>>
SystemdTask    == <<"host", "systemd">>
PeersTask      == <<"check", "peers">>
DnsTask        == <<"check", "dns">>

ASSUME HealthAssumption ==
    /\ DockerKinds \cap (HostRunKinds \cup HostKinds \cup {"peers", "dns"}) = {}
    /\ \A c \in Configs :
          /\ DOMAIN c = {"enabled", "client", "docker", "given", "answers"}
          /\ {c.client, c.docker, c.given, c.answers} \subseteq BOOLEAN
          /\ c.enabled \in Seq(ClusterKinds \cup HostKinds)

AllTasks == {ClusterTask(k) : k \in ClusterKinds}
              \cup {SystemdTask, PeersTask, DnsTask}

Keys   == {"containers", "info", "services", "nodes"}
NoTask == <<"none", "none">>
Unknown == [asked |-> FALSE]
Error   == [ok |-> FALSE]

\* What the daemon may say.  "containers": the kinds that have a container
\* here; "services": the kinds Swarm wants on this node; "info": whether it
\* names the node; "nodes": whether the node list has names.  known_peer_names
\* takes an error of the node list for an empty list.
Replies(key) ==
    CASE key = "containers" -> {Error} \cup [ok : {TRUE}, kinds : SUBSET DockerKinds]
      [] key = "services"   -> {Error} \cup [ok : {TRUE}, kinds : SUBSET DockerKinds]
      [] key = "info"       -> {Error} \cup [ok : {TRUE}, named : BOOLEAN]
      [] key = "nodes"      -> [ok : {TRUE}, named : BOOLEAN]

VARIABLES
    phase, tasks, answered, verdict,  \* the budget's contract
    config,     \* the member of Configs this host has
    at,         \* where the thread of each check is
    cache,      \* ContainerIndex._cache and resolved_peers
    holder,     \* who is inside the lock of each
    asked,      \* requests made for each
    named,      \* checks that were handed at least one peer name
    entry,      \* what each check that answered says
    knewNames,  \* history: a peer name was known when the budget's call closed
    info        \* the HealthInfo, or NoInfo

budgetVars == <<phase, tasks, answered, verdict>>
indexVars  == <<cache, holder, asked>>
vars == <<budgetVars, config, at, indexVars, named, entry, knewNames, info>>

Budget == INSTANCE BudgetContract

NoInfo == [collected |-> FALSE]

-----------------------------------------------------------------------------
(* Registration: _build_health_tasks. *)

\* list(dict.fromkeys(s)): a kind counts where it stands first.
FirstPlaces(s) == {i \in DOMAIN s : \A j \in DOMAIN s : s[j] = s[i] => i <= j}

Kind(i) == config.enabled[i]

EnabledKinds == FirstPlaces(config.enabled)

Runnable(k)  == k \in ClusterKinds /\ (config.client \/ k \in HostRunKinds)
Unchecked(k) == k \in ClusterKinds /\ ~ Runnable(k) /\ config.docker

RunnableKinds  == {i \in EnabledKinds : Runnable(Kind(i))}
UncheckedKinds == {i \in EnabledKinds : Unchecked(Kind(i))}
ClustersProbed == RunnableKinds # {} \/ UncheckedKinds # {}

Registered ==
    {ClusterTask(Kind(i)) : i \in RunnableKinds}
      \cup {SystemdTask : i \in {j \in EnabledKinds : Kind(j) = "systemd"}}
      \cup {PeersTask, DnsTask}

\* mutant: the host-run probe asks the container index like the others.
FirstStep_AllIndexed(t) ==
    CASE t[1] = "cluster" -> "containers"
      [] t = PeersTask -> "names"
      [] t = DnsTask -> "fqdn"
      [] OTHER -> "probe"

\* The first thing each check does.
FirstStep(t) ==
    CASE t[1] = "cluster" /\ t[2] \in DockerKinds -> "containers"
      [] t = PeersTask -> "names"
      [] t = DnsTask -> "fqdn"
      [] OTHER -> "probe"

Init ==
    /\ Budget!Init
    /\ config \in Configs
    /\ at = [t \in AllTasks |-> "off"]
    /\ cache = [key \in Keys |-> Unknown]
    /\ holder = [key \in Keys |-> NoTask]
    /\ asked = [key \in Keys |-> 0]
    /\ named = {}
    /\ entry = [t \in AllTasks |-> "none"]
    /\ knewNames = FALSE
    /\ info = NoInfo

Open ==
    /\ tasks = {}
    /\ Budget!Open
    /\ tasks' = Registered
    /\ at' = [t \in AllTasks |-> IF t \in Registered THEN FirstStep(t) ELSE "off"]
    /\ UNCHANGED <<config, indexVars, named, entry, knewNames, info>>

-----------------------------------------------------------------------------
(* The check threads. *)

Goes(t, place) ==
    /\ at' = [at EXCEPT ![t] = place]
    /\ UNCHANGED <<budgetVars, entry>>

\* The check returns (or raises) and its thread is through.
Gives(t, answer, what) ==
    /\ Budget!Answer(t)
    /\ answered'[t] = answer
    /\ entry' = [entry EXCEPT ![t] = what]
    /\ at' = [at EXCEPT ![t] = "done"]

Says(t, what) == Gives(t, "value", what)

\* mutant: a container list that failed counts as an empty one.
Unlisted_Never(reply) == FALSE

\* find_containers raised.
Unlisted(reply) == reply = Error

Kinds(reply) == IF reply = Error THEN {} ELSE reply.kinds

\* locate_member (find_containers, then _wanted_on_this_node, whose failure is
\* "not wanted") and known_peer_names: what a check does with the reply.
Concludes(t, key, reply) ==
    /\ named' = IF key = "nodes" /\ reply.named THEN named \cup {t} ELSE named
    /\ CASE key = "containers" /\ Unlisted(reply) -> Says(t, "error")
         [] key = "containers" /\ ~ Unlisted(reply) ->
               Goes(t, IF t[2] \in Kinds(reply) THEN "probe" ELSE "info")
         [] key = "info" ->
               IF reply # Error /\ reply.named THEN Goes(t, "services") ELSE Says(t, "na")
         [] key = "services" ->
               Says(t, IF t[2] \in Kinds(reply) THEN "missing" ELSE "na")
         [] key = "nodes" -> Goes(t, "probe")

\* mutant: the lookup that precedes the request is made outside the lock.
MayAsk_Unlocked(key) == cache[key] = Unknown

MayAsk(key) == cache[key] = Unknown /\ holder[key] = NoTask

\* Inside the lock, nothing remembered: the daemon is asked.
Ask(t, key) ==
    /\ at[t] = key
    /\ MayAsk(key)
    /\ holder' = [holder EXCEPT ![key] = t]
    /\ asked' = [asked EXCEPT ![key] = @ + 1]
    /\ at' = [at EXCEPT ![t] = "asking"]
    /\ UNCHANGED <<budgetVars, config, cache, named, entry, knewNames, info>>

Remembered(reply) == reply

\* mutant: a failing request leaves the lock taken.
Unlocked_OnSuccess(reply, t) == IF reply = Error THEN t ELSE NoTask

Unlocked(reply, t) == NoTask

\* The daemon's reply, or its failure, is remembered and the lock released.
Reply(t, key) ==
    /\ at[t] = "asking"
    /\ holder[key] = t
    /\ \E reply \in Replies(key) :
          /\ cache' = [cache EXCEPT ![key] = Remembered(reply)]
          /\ holder' = [holder EXCEPT ![key] = Unlocked(reply, t)]
          /\ Concludes(t, key, reply)
    /\ UNCHANGED <<config, asked, knewNames, info>>

\* The lock is free and the answer is there.
Reuse(t, key) ==
    /\ at[t] = key
    /\ holder[key] = NoTask
    /\ cache[key] # Unknown
    /\ Concludes(t, key, cache[key])
    /\ UNCHANGED <<config, indexVars, knewNames, info>>

\* known_peer_names: the list the caller had, nothing without a client, or the
\* Swarm node list.
Names(t) ==
    /\ at[t] = "names"
    /\ named' = IF config.given THEN named \cup {t} ELSE named
    /\ Goes(t, IF config.given \/ ~ config.client THEN "probe" ELSE "nodes")
    /\ UNCHANGED <<config, indexVars, knewNames, info>>

\* dns_task resolves the own name first; that may raise.
Fqdn(t) ==
    /\ at[t] = "fqdn"
    /\ Goes(t, "names") \/ Gives(t, "error", "raised")
    /\ UNCHANGED <<config, indexVars, named, knewNames, info>>

\* What a probe may end with.  probe_cluster turns every exception into an error
\* entry; probe_systemd may raise (its subprocess timeout).  collect_peers has a
\* row per peer it was given, and without names a row only if WireGuard has one.
Probe(t) ==
    /\ at[t] = "probe"
    /\ \/ t[1] = "cluster" /\ \E what \in {"probed", "error"} : Says(t, what)
       \/ t = SystemdTask /\ (Says(t, "probed") \/ Gives(t, "error", "raised"))
       \/ t = DnsTask /\ Says(t, "rows")
       \/ t = PeersTask /\ Says(t, "rows")
       \/ t = PeersTask /\ t \notin named /\ Says(t, "empty")
    /\ UNCHANGED <<config, indexVars, named, knewNames, info>>

\* What a check does by itself, and what it needs the Docker daemon for.
OwnStep(t)    == Names(t) \/ Fqdn(t) \/ Probe(t)
DaemonStep(t) == \E key \in Keys : Ask(t, key) \/ Reply(t, key) \/ Reuse(t, key)

ThreadStep(t) == phase # "over" /\ (OwnStep(t) \/ DaemonStep(t))

-----------------------------------------------------------------------------
(* The end of the budget's call, and collect_health's assembly. *)

Close ==
    /\ Budget!Close
    /\ knewNames' = (named # {})
    /\ UNCHANGED <<config, at, indexVars, named, entry, info>>

Has(t, v)   == t \in tasks /\ verdict[t] = v
Result(t)   == Has(t, "result")
Failed(t)   == Has(t, "failed")
Answered(t) == Result(t) \/ Failed(t)

RowFor(t) == IF Result(t) THEN entry[t] ELSE "error"

\* mutant: a kind without a result is given an error line.
HasClusterRow_Always(k) == TRUE

HasClusterRow(k) == Answered(ClusterTask(k))

\* _clusters_from, by the places of the kinds: those that produced an answer, and
\* those there is no client for (which the code lists after the others).
ClusterRows ==
    [i \in {j \in RunnableKinds : HasClusterRow(Kind(j))} \cup UncheckedKinds |->
        [kind |-> Kind(i),
         says |-> IF i \in RunnableKinds THEN RowFor(ClusterTask(Kind(i))) ELSE "unchecked"]]

HasHostRow(k) == k \in StateKinds \/ (k = "systemd" /\ Answered(SystemdTask))

HostRows == [i \in {j \in EnabledKinds : HasHostRow(Kind(j))} |-> Kind(i)]

PeerRows == \/ Result(PeersTask) /\ entry[PeersTask] = "rows"
            \/ Failed(PeersTask)

NodesKnown == cache["nodes"] # Unknown /\ cache["nodes"].named

\* The shared list is read here, after the call; a late thread may still fill it.
PeersProbed == PeerRows \/ config.given \/ NodesKnown

Assemble ==
    /\ phase = "idle"
    /\ tasks # {}
    /\ info = NoInfo
    /\ info' = [collected       |-> TRUE,
                clusters        |-> ClusterRows,
                host            |-> HostRows,
                truncated       |-> {t[2] : t \in {u \in tasks : Has(u, "truncated")}},
                clusters_probed |-> ClustersProbed,
                peers_probed    |-> PeersProbed,
                docker_present  |-> config.docker]
    /\ UNCHANGED <<budgetVars, config, at, indexVars, named, entry, knewNames>>

Exit ==
    /\ info # NoInfo
    /\ Budget!Stop
    /\ UNCHANGED <<config, at, indexVars, named, entry, knewNames, info>>

\* The process is gone.
Gone == phase = "over" /\ UNCHANGED vars

Next ==
    \/ Open \/ Close \/ Assemble \/ Exit \/ Gone
    \/ \E t \in AllTasks : ThreadStep(t)

Spec == Init /\ [][Next]_vars

\* Checks run, and nothing is assumed of the Docker daemon.
HostFairness == \A t \in AllTasks : WF_vars(phase # "over" /\ OwnStep(t))

\* Where the daemon answers, with whatever it has, it goes on doing so.
DaemonFairness ==
    \A t \in AllTasks : WF_vars(phase # "over" /\ config.answers /\ DaemonStep(t))

LiveSpec == Spec /\ HostFairness /\ DaemonFairness

-----------------------------------------------------------------------------
(* The HEALTH section: which blocks health_section renders. *)

ClustersShown == info.docker_present \/ info.clusters_probed
PeersShown    == info.peers_probed \/ info.docker_present

\* Where a truncated check has its "time budget exceeded" line.
TruncationLine(name) ==
    IF name = "peers" THEN PeersShown
    ELSE IF name \in {"dns"} \cup HostKinds THEN TRUE
    ELSE ClustersShown /\ info.clusters_probed

-----------------------------------------------------------------------------
(* Properties. *)

\* The daemon is asked for each listing, and for the node list, at most once per
\* pass, however the probes interleave and even when it fails.
AskedOnce == \A key \in Keys : asked[key] <= 1

\* "n/a here" and "no running container" are statements about what the daemon
\* said: the container list came and has no member of that kind, and only a
\* named node whose services want the kind makes it an error.
AbsenceIsMeasured ==
    \A k \in DockerKinds :
        LET says == entry[ClusterTask(k)]
            list == cache["containers"]
        IN  says \in {"na", "missing"} =>
              /\ list \notin {Unknown, Error} /\ k \notin list.kinds
              /\ says = "missing" =>
                   /\ cache["info"] \notin {Unknown, Error} /\ cache["info"].named
                   /\ cache["services"] \notin {Unknown, Error}
                   /\ k \in cache["services"].kinds

Mentions(k) ==
    Cardinality({i \in DOMAIN info.clusters : info.clusters[i].kind = k})
      + Cardinality({i \in DOMAIN info.host : info.host[i] = k})
      + (IF k \in info.truncated THEN 1 ELSE 0)

\* Every enabled kind is accounted for exactly once: a row or a truncation, never
\* both or neither.  The one silence is a Docker kind on a host without Docker.
EveryKindOnce ==
    \A k \in ToSet(config.enabled) :
        Mentions(k) =
          IF k \in DockerKinds /\ ~ config.client /\ ~ config.docker THEN 0 ELSE 1

\* What a row says is what the kind's own check answered within the call, or that
\* there was no client to ask with.
TrueRow(row) ==
    IF row.says = "unchecked"
    THEN config.docker /\ ~ config.client /\ row.kind \in DockerKinds
    ELSE /\ ClusterTask(row.kind) \in tasks
         /\ verdict[ClusterTask(row.kind)] = "result"
         /\ entry[ClusterTask(row.kind)] = row.says

\* A blown budget is never shown as a verdict, no kind is lost or told twice, and
\* (the comment on peers_probed) a peers check that was cut off with peer names in
\* hand still counts as probed.
RowsAreAnswers ==
    info # NoInfo =>
      /\ EveryKindOnce
      /\ \A i \in DOMAIN info.clusters : TrueRow(info.clusters[i])
      /\ knewNames => info.peers_probed

\* docs: a check that misses its deadline is reported as "time budget exceeded".
TruncationIsShown ==
    info # NoInfo => \A name \in info.truncated : TruncationLine(name)

\* A Docker daemon that never answers holds up no check that does not need it.
NeedsDaemon(t) ==
    \/ t[1] = "cluster" /\ t[2] \in DockerKinds
    \/ t \in {PeersTask, DnsTask} /\ config.client /\ ~ config.given

HostChecksAnswer ==
    \A t \in AllTasks :
        t \in tasks /\ ~ NeedsDaemon(t) ~> answered[t] # "none" \/ phase = "over"

\* Where the daemon answers, errors included, no order of the probes and their
\* locks leaves a check waiting for ever.
EveryCheckAnswers ==
    \A t \in AllTasks :
        t \in tasks /\ config.answers ~> answered[t] # "none" \/ phase = "over"
=============================================================================
