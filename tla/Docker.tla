------------------------------- MODULE Docker -------------------------------
(***************************************************************************)
(* DOCKER INFOS and the Docker half of TROUBLE: collectors/docker.py asks  *)
(* the daemon in several calls, each of which may fail, while Swarm goes   *)
(* on restarting tasks between them; render/panels.py then draws a row.    *)
(*                                                                         *)
(* A name is a sequence of words, so that `<project>_<service>` is `\o`.   *)
(* Of a task the model has its state, whether it has a node, whether Swarm *)
(* says why it has none, and when its state changed.                       *)
(***************************************************************************)
EXTENDS Rows

CONSTANTS
    Cases,      \* what a login may meet: the answer of the cluster's tool, the
                \* daemon, and how much may happen (`life`) and fail (`faults`)
    Window,     \* TROUBLE_WINDOW_SECONDS
    Retention,  \* how many ended tasks Swarm keeps of a slot
    Endings     \* the last words of a name that are a host name or a number

ASSUME DockerAssumption == Window \in Nat /\ Retention \in Nat \ {0}

TaskStates ==
    {"new", "allocated", "pending", "assigned", "accepted", "preparing", "ready", "starting",
     "running", "complete", "shutdown", "failed", "rejected", "remove", "orphaned"}

\* ServiceTask._STARTING: on its way up, and not measured yet.
StartingStates ==
    {"new", "allocated", "pending", "assigned", "accepted", "preparing", "ready", "starting"}

SwarmTask == [state : TaskStates, placed : BOOLEAN, err : BOOLEAN, at : Int]
EndedTask == [state : TaskStates, at : Int]

SwarmService ==
    [key : Seq(STRING), stack : Seq(STRING), group : STRING, ui : BOOLEAN, job : BOOLEAN,
     replicas : Nat \cup {Global}, ended : Seq(Seq(EndedTask)), tasks : Seq(SwarmTask)]

\* What the kernel says of a container's memory: none exceeds its limit, 0 being none.
IsWeighable(c) ==
    /\ c.usage \in Nat /\ c.limit \in Nat
    /\ c.limit > 0 => c.usage <= c.limit

\* Swarm's times are in order: a task of a slot ended when its successor was made or
\* earlier, and none after the clock's beginning.
IsTimely(s) ==
    /\ DOMAIN s.ended = DOMAIN s.tasks
    /\ \A k \in DOMAIN s.tasks :
          /\ s.tasks[k].at <= Window + 1
          /\ \A a \in DOMAIN s.ended[k] :
                /\ s.ended[k][a].at <= s.tasks[k].at
                /\ \A b \in a..Len(s.ended[k]) : s.ended[k][a].at <= s.ended[k][b].at

ASSUME CasesAssumption ==
    \A c \in Cases :
        /\ IsAnswer(c.answer)
        /\ c.services \in Seq(SwarmService)
        /\ \A i, j \in DOMAIN c.services : c.services[i].key = c.services[j].key => i = j
        /\ \A i \in DOMAIN c.services :
              /\ DOMAIN c.services[i].tasks \subseteq DOMAIN c.services[i].ended
              /\ c.services[i].job \/ IsTimely(c.services[i])
        /\ IsFiniteSet(DOMAIN c.containers)
        /\ \A i \in DOMAIN c.containers : IsWeighable(c.containers[i])

VARIABLES
    daemon,     \* [mode, services, containers]
    now,        \* the clock
    fallen,     \* history: when tasks of each slot of a service fell (`at`), and
                \* whether one ended without falling (`rolled`)
    life,       \* what may still happen to Swarm's tasks
    faults,     \* the calls that may still fail
    call,       \* the next call of the collector, and of which service
    got,        \* the SwarmInfo so far
    told        \* history: what TROUBLE was told of each service, and what was so

vars == <<rowVars, daemon, now, fallen, life, faults, call, got, told>>

NoTime    == -1     \* a time stamp that cannot be read
NoCount   == -1
NoEntry   == [entry |-> FALSE]
NotSwarm  == <<>>
NoProject == <<>>

Count(Test(_), s) == Cardinality({p \in DOMAIN s : Test(s[p])})

\* The members of lists, by their places.
Every(lists) ==
    [p \in UNION {{k} \X DOMAIN lists[k] : k \in DOMAIN lists} |-> lists[p[1]][p[2]]]

-----------------------------------------------------------------------------
(* Swarm (external). A slot has one task that should be running; one that  *)
(* falls is replaced, and of those that ended the newest are kept.         *)

Ended(slot, state) ==
    LET all == Append(slot, [state |-> state, at |-> now])
    IN  IF Len(all) > Retention THEN Tail(all) ELSE all

\* Something happens to the tasks of service i, which is then `s`.
Happens(i, s) ==
    /\ life > 0 /\ life' = life - 1
    /\ daemon' = [daemon EXCEPT !.services[i] = s]
    /\ UNCHANGED <<rowVars, now, faults, call, got, told>>

Task(i, k) == daemon.services[i].tasks[k]

\* Another task takes the place of one that ended.
Followed(s, k, how, task) == [s EXCEPT !.ended[k] = Ended(@, how), !.tasks[k] = task]

Start(i, k) ==
    LET task == [state |-> "running", placed |-> TRUE, err |-> FALSE, at |-> now] IN
    /\ Task(i, k).state \in StartingStates
    /\ Happens(i, [daemon.services[i] EXCEPT !.tasks[k] = task])
    /\ UNCHANGED fallen

Fall(i, k, placed) ==
    LET task == [state |-> IF placed THEN "starting" ELSE "pending",
                 placed |-> placed, err |-> ~ placed, at |-> now] IN
    /\ Task(i, k).state \in {"running"} \cup StartingStates /\ Task(i, k).placed
    /\ Happens(i, Followed(daemon.services[i], k, "failed", task))
    /\ fallen' = [fallen EXCEPT ![i].at[k] = Append(@, now)]

\* A service is updated: its old task ends as it should.
Update(i, k) ==
    LET task == [state |-> "starting", placed |-> TRUE, err |-> FALSE, at |-> now] IN
    /\ Task(i, k).state = "running"
    /\ Happens(i, Followed(daemon.services[i], k, "shutdown", task))
    /\ fallen' = [fallen EXCEPT ![i].rolled = TRUE]

Tick ==
    /\ life > 0 /\ life' = life - 1
    /\ now' = now + 1
    /\ UNCHANGED <<rowVars, daemon, fallen, faults, call, got, told>>

Swarm ==
    \/ Tick
    \/ \E i \in DOMAIN daemon.services : \E k \in DOMAIN daemon.services[i].tasks :
          \/ Start(i, k) \/ Update(i, k)
          \/ \E placed \in BOOLEAN : Fall(i, k, placed)

-----------------------------------------------------------------------------
(* One service of Swarm. *)

Recent(at) == at # NoTime /\ now - at <= Window

\* The latest readable time.
NewestTime(tasks) == Max({NoTime} \cup {t.at : t \in tasks})

\* _service_tasks: the tasks that should be running. Only one with a node is listed with
\* its state.
ServiceTasks(s) ==
    LET runs(t)   == t.placed /\ t.state = "running"
        starts(t) == t.placed /\ t.state \in StartingStates
    IN  [running    |-> Count(runs, s.tasks),
         starting   |-> Count(starts, s.tasks),
         down       |-> Count(LAMBDA t : t.placed /\ ~ runs(t) /\ ~ starts(t), s.tasks),
         unassigned |-> Count(LAMBDA t : ~ t.placed, s.tasks),
         newest     |-> NewestTime({t \in ToSet(s.tasks) : runs(t)}),
         refused    |-> \E k \in DOMAIN s.tasks : ~ s.tasks[k].placed /\ s.tasks[k].err,
         known      |-> TRUE]

\* A listing that fails has no facts, and nothing says so.
NoFacts == [running |-> 0, starting |-> 0, down |-> 0, unassigned |-> 0, newest |-> NoTime,
            refused |-> FALSE, known |-> FALSE]

Nothing == [reachable |-> FALSE, nodes |-> FALSE, silent |-> {}, retention |-> 0,
            facts |-> NoFacts, services |-> <<>>, containers |-> <<>>, trouble |-> <<>>,
            disk |-> "none"]

\* _FAILED_TASK_STATES
Fell(t) == t.state \in {"failed", "rejected", "orphaned"}

\* Of each slot the tasks that ended, and then the one that should run.
AllTasks(s) ==
    [k \in DOMAIN s.ended |->
        IF k \in DOMAIN s.tasks THEN Append(s.ended[k], s.tasks[k]) ELSE s.ended[k]]

\* _failed_history: how many fell in the window, of those Swarm has kept.
FailedHistory(s) == Count(LAMBDA t : Fell(t) /\ Recent(t.at), Every(AllTasks(s)))

\* mutant: a service that has its tasks again is looked no further at.
Suspect_Short(s, facts) == s.replicas # Global /\ facts.running < s.replicas

\* _service_trouble, the pre-selection: only these pay for the history.
Suspect(s, facts) ==
    \/ s.replicas # Global /\ facts.running < s.replicas
    \/ Recent(facts.newest)

\* _service_trouble, with what the history said.
ServiceTrouble(facts, fails, retention) ==
    IF fails = 0
    THEN IF facts.refused
         THEN [entry |-> TRUE, fails |-> NoCount, capped |-> FALSE, severity |-> "dead"]
         ELSE NoEntry
    ELSE [entry |-> TRUE, fails |-> fails, capped |-> retention # 0 /\ fails >= retention,
          severity |-> IF facts.running > 0 THEN "recovered" ELSE "dead"]

\* _last_run: the newest of a job's tasks, however it ended. Of two of one time it is the
\* one the daemon lists first.
LastRun(s) ==
    LET dated  == {t \in Range(Every(AllTasks(s))) : t.at # NoTime}
        newest == CHOOSE t \in dated : t.at = NewestTime(dated)
    IN  IF dated = {} THEN NoRun ELSE [failed |-> Fell(newest), age |-> now - newest.at]

-----------------------------------------------------------------------------
(* Containers. *)

\* compose_identity, container_labels: the service only inside a project.
Key(c) == <<c.project, c.name>>

\* _reported_state: a health check overrides `running`.
ReportedState(c) == IF c.health \in {"unhealthy", "starting"} THEN c.health ELSE c.state

IsCompletedJob(c) == c.state = "exited" /\ ~ c.nonzero

Live == {"running", "restarting"}

\* _container_groups: what is listed here and not through its service.
Grouped(c) ==
    /\ c.service = NotSwarm
    /\ ~ IsCompletedJob(c)
    /\ c.project = NoProject => c.state \in Live

Containers == ToSet(daemon.containers)

\* The name the memory of a container is kept under.
Origin(c) == IF c.service # NotSwarm THEN c.service ELSE c.project \o c.name

\* _record_memory, _container_memory
Measures(i) ==
    LET c == daemon.containers[i] IN c.state = "running" /\ (c.service # NotSwarm \/ Grouped(c))

\* mutant: the limit of the last task only.
Limit_Last(held) == IF held = {} THEN 0 ELSE daemon.containers[Max(held)].limit

\* _container_memory: the limits of the tasks of a service add up.
Limit(held) == Total([i \in held |-> daemon.containers[i].limit])

\* The containers kept under `name`; one that does not answer is left out.
Held(name, silent) ==
    {i \in DOMAIN daemon.containers \ silent :
        Measures(i) /\ Origin(daemon.containers[i]) = name}

MemoryOf(name, silent) ==
    LET held == Held(name, silent)
    IN  [usage |-> Total([i \in held |-> daemon.containers[i].usage]), limit |-> Limit(held),
         tasks |-> Cardinality(held)]

\* _container_services: every container that is left of a group is wanted.
ContainerService(key, silent) ==
    LET Is(i) == Grouped(daemon.containers[i]) /\ Key(daemon.containers[i]) = key
        members == {i \in DOMAIN daemon.containers : Is(i)}
        In(states) == Cardinality({i \in members : ReportedState(daemon.containers[i]) \in states})
    IN  [key |-> key[2], swarm |-> FALSE, stack |-> key[1], group |-> "none",
         ui |-> daemon.containers[Min(members)].ui, job |-> FALSE,
         replicas |-> Cardinality(members), unassigned |-> 0, run |-> NoRun, measured |-> TRUE,
         running |-> In({"running"}), starting |-> In({"starting"}),
         down |-> In({"unhealthy", "restarting", "exited", "created"}),
         memory |-> MemoryOf(key[1] \o key[2], silent)]

ContainerServices(silent) ==
    LET keys == {Key(c) : c \in {x \in Containers : Grouped(x)}}
    IN  SetToSeq({ContainerService(k, silent) : k \in keys})

\* _container_trouble: it has fallen, and recently.
ContainerTrouble(c) ==
    IF c.restarts > 0 /\ Recent(c.started)
    THEN [entry |-> TRUE, fails |-> c.restarts, capped |-> FALSE,
          severity |-> IF c.state = "running" THEN "recovered"
                       ELSE IF c.state = "restarting" THEN "restarting" ELSE "dead"]
    ELSE NoEntry

AddEntry(entries, e) == IF e = NoEntry THEN entries ELSE Append(entries, e)

-----------------------------------------------------------------------------
(* collect_docker *)

Replies == UNCHANGED faults
Fails   == faults > 0 /\ faults' = faults - 1

\* What fails here takes the whole section with it.
To(what)     == [next |-> what, of |-> 0]
Of(i, what)  == [next |-> what, of |-> i]
Unreachable  == got' = Nothing /\ call' = To("draw")
Ask(c)       == call = c /\ UNCHANGED <<rowVars, daemon, now, fallen, life>>
Unasked      == UNCHANGED told

Info ==
    /\ Ask(To("info")) /\ Unasked
    /\ \/ daemon.mode # "off" /\ Replies /\ UNCHANGED got
          /\ call' = To(IF daemon.mode = "standalone" THEN "containers" ELSE "nodes")
       \/ (daemon.mode = "off" \/ faults > 0) /\ UNCHANGED faults /\ Unreachable

\* _node_map: no nodes when the listing fails, as it does on a worker.
ListNodes ==
    /\ Ask(To("nodes")) /\ Unasked
    /\ \/ daemon.mode = "manager" /\ Replies /\ got' = [got EXCEPT !.nodes = TRUE]
       \/ daemon.mode = "manager" /\ Fails   /\ UNCHANGED got
       \/ daemon.mode = "worker"  /\ Replies /\ UNCHANGED got
    /\ call' = To("containers")

ListContainers ==
    /\ Ask(To("containers")) /\ Unasked
    /\ \/ \E silent \in SUBSET {i \in DOMAIN daemon.containers : Measures(i)} :
             /\ Cardinality(silent) <= faults /\ faults' = faults - Cardinality(silent)
             /\ got' = [got EXCEPT !.silent = silent, !.containers = ContainerServices(silent),
                          !.trouble = FoldLeft(LAMBDA es, c : AddEntry(es, ContainerTrouble(c)),
                                               <<>>, SelectSeq(daemon.containers, Grouped))]
             /\ call' = To(IF daemon.mode = "standalone" THEN "disk" ELSE "services")
       \/ Fails /\ Unreachable

\* _swarm_services. Only a manager lists the services.
ListServices ==
    /\ Ask(To("services")) /\ Unasked
    /\ \/ /\ daemon.mode = "manager" /\ got' = [got EXCEPT !.retention = Retention]
          /\ Replies /\ call' = Of(1, "tasks")
       \/ /\ daemon.mode = "manager" /\ UNCHANGED got    \* _retention_limit cannot be read
          /\ Fails /\ call' = Of(1, "tasks")
       \/ daemon.mode = "worker"  /\ Replies /\ Unreachable
       \/ daemon.mode = "manager" /\ Fails   /\ Unreachable

ServiceStatus(s, facts, run) ==
    [key |-> s.key, swarm |-> TRUE, stack |-> s.stack, group |-> s.group, ui |-> s.ui,
     job |-> s.job, replicas |-> s.replicas, running |-> facts.running, starting |-> facts.starting,
     down |-> facts.down, unassigned |-> facts.unassigned, run |-> run,
     measured |-> facts.known, memory |-> MemoryOf(s.key, got.silent)]

\* The history variable: how many tasks of i did fall in the window, those Swarm has
\* forgotten included, and whether the daemon answered (`heard`).
Tell(i, entry, heard) ==
    told' = Append(told, [entry |-> entry, heard |-> heard, retention |-> got.retention,
                          falls |-> Count(Recent, Every(fallen[i].at)), rolled |-> fallen[i].rolled])

ListTasks(i) ==
    /\ Ask(Of(i, "tasks")) /\ i \in DOMAIN daemon.services
    /\ \E facts \in {ServiceTasks(daemon.services[i]), NoFacts} :
          LET s == daemon.services[i] IN
          /\ IF facts.known THEN Replies ELSE Fails
          /\ IF s.job \/ Suspect(s, facts)
             THEN /\ got' = [got EXCEPT !.facts = facts] /\ call' = Of(i, "history")
                  /\ UNCHANGED told
             ELSE /\ got' = [got EXCEPT !.services = Append(@, ServiceStatus(s, facts, NoRun))]
                  /\ Tell(i, NoEntry, facts.known)
                  /\ call' = Of(i + 1, "tasks")

\* The history: of a job its last run, of any other what fell.
ListHistory(i) ==
    /\ Ask(Of(i, "history"))
    /\ \E answered \in BOOLEAN :
          LET s     == daemon.services[i]
              run   == IF answered /\ s.job THEN LastRun(s) ELSE NoRun
              entry == IF s.job THEN NoEntry
                       ELSE ServiceTrouble(got.facts, IF answered THEN FailedHistory(s) ELSE 0,
                                           got.retention)
          IN
          /\ IF answered THEN Replies ELSE Fails
          /\ got' = [got EXCEPT !.facts = NoFacts, !.trouble = AddEntry(@, entry),
                        !.services = Append(@, ServiceStatus(s, got.facts, run))]
          /\ Tell(i, entry, got.facts.known /\ answered)
          /\ call' = Of(i + 1, "tasks")

ListedAll ==
    /\ Ask(Of(Len(daemon.services) + 1, "tasks"))
    /\ call' = To("disk")
    /\ UNCHANGED <<faults, got, told>>

\* _disk_usage: its own client, and one line is all it can lose.
MeasureDisk ==
    /\ Ask(To("disk")) /\ Unasked
    /\ \/ Replies /\ got' = [got EXCEPT !.disk = "measured", !.reachable = TRUE]
       \/ Fails   /\ got' = [got EXCEPT !.disk = "error", !.reachable = TRUE]
    /\ call' = To("draw")
-----------------------------------------------------------------------------
(* DOCKER INFOS. A service is `ui` when one of the keywords of an admin    *)
(* interface is in its name; every service of an instance is of the kind   *)
(* of cluster that `answer` is about.                                      *)

Unlabelled == "none"        \* ServiceStatus.group is None
Empty      == "empty"       \* ... is ""

Strip(name) == IF Len(name) > 1 /\ Last(name) \in Endings THEN Front(name) ELSE name

\* _group_key, _base_service_name
GroupKey(s) == IF s.group \in {Unlabelled, Empty} THEN Strip(s.key) ELSE <<s.group>>

\* _classify_origin: the table, the stack and the row of a service; what is of Swarm
\* and what is not share no row.
RowKey(s) ==
    IF s.stack = NoProject THEN <<"standalone", s.swarm, GroupKey(s)>>
    ELSE IF s.ui THEN <<"ui", s.swarm, GroupKey(s)>>
    ELSE <<"stack", s.swarm, s.stack, GroupKey(s)>>

\* The rows, each with its services where they are listed.
Listed == got.services \o got.containers
AllRows ==
    {Restrict(Listed, {i \in DOMAIN Listed : RowKey(Listed[i]) = k}) :
        k \in {RowKey(s) : s \in ToSet(Listed)}}

\* _memory_cell
MemoryCell(row) ==
    LET local == {i \in DOMAIN row : row[i].memory.tasks > 0}
    IN  [used  |-> Total([i \in local |-> row[i].memory.usage]),
         limit |-> Total([i \in local |-> row[i].memory.limit])]

\* A row is drawn; the health check of its kind may end first (Probe).
DrawRow ==
    /\ call.next = "draw" /\ got.reachable
    /\ services' \in AllRows
    /\ call' = To("row")
    /\ UNCHANGED <<answer, cluster, cell, daemon, now, fallen, life, faults, got, told>>

Row ==
    /\ call.next = "row"
    /\ Probe \/ Draw
    /\ UNCHANGED <<daemon, now, fallen, life, faults, call, got, told>>

Drawn ==
    /\ cell # Undrawn \/ (call.next = "draw" /\ AllRows = {})
    /\ UNCHANGED vars

-----------------------------------------------------------------------------
\* Before the login, as far as Swarm remembers.
FallenBefore(s) ==
    LET on(k) == k \in DOMAIN s.tasks /\ ~ Fell(s.tasks[k])
        past(k) == IF on(k) THEN s.ended[k] ELSE AllTasks(s)[k]
    IN  [at     |-> [k \in DOMAIN s.ended |-> Map(LAMBDA t : t.at, past(k))],
         rolled |-> \E t \in Range(Every(s.ended)) : ~ Fell(t)]

Init ==
    /\ \E c \in Cases :
          /\ answer = c.answer /\ life = c.life /\ faults = c.faults
          /\ daemon = [mode |-> c.mode, services |-> c.services, containers |-> c.containers]
    /\ now = Window + 1
    /\ fallen = Map(FallenBefore, daemon.services)
    /\ services = <<>> /\ cluster = Missing /\ cell = Undrawn
    /\ call = To("info") /\ got = Nothing /\ told = <<>>

Collect ==
    \/ Info \/ ListNodes \/ ListContainers \/ ListServices \/ ListedAll \/ MeasureDisk
    \/ \E i \in DOMAIN daemon.services : ListTasks(i) \/ ListHistory(i)

Next == (call.next \notin {"draw", "row"} /\ Swarm) \/ Collect \/ DrawRow \/ Row \/ Drawn

Spec == Init /\ [][Next]_vars

-----------------------------------------------------------------------------
(* Properties *)

\* TROUBLE counts what fell: of a replicated service with no more slots than it wants,
\* whose calls were answered and whose tasks ended only by falling, it has a row if one
\* fell in the window, with the number that did, or, marked as such, the part of it that
\* Swarm still knew; and no count for one of which none fell.
FallsAreCounted ==
    \A i \in DOMAIN told :
        LET t == told[i]
            s == daemon.services[i]
        IN
        t.heard /\ ~ t.rolled /\ ~ s.job /\ Len(s.tasks) <= s.replicas =>
            /\ t.falls > 0 => /\ t.entry # NoEntry
                              /\ \/ t.entry.fails = t.falls
                                 \/ t.entry.fails < t.falls
                                    /\ (t.entry.capped \/ t.retention = 0)
            /\ t.falls = 0 /\ t.entry # NoEntry => t.entry.fails = NoCount

\* Containers whose memory was read and whose service is on the panel.
Weighed ==
    {i \in DOMAIN daemon.containers \ got.silent :
        /\ Measures(i)
        /\ daemon.containers[i].service # NotSwarm =>
              \E s \in ToSet(got.services) : s.key = daemon.containers[i].service}

\* No container goes by the name of a service of Swarm, or of a container of another
\* group, `<project>_<service>` included.
NamesDiffer ==
    \A c \in {x \in Containers : Grouped(x)} :
        /\ Origin(c) \notin {s.key : s \in ToSet(got.services)}
        /\ \A d \in Containers :
              /\ Origin(c) # d.service
              /\ Grouped(d) /\ Origin(d) = Origin(c) => Key(d) = Key(c)

\* The column of memory adds up: what was read of each container is in one row and
\* in no other; and as no container exceeds its limit, no row of containers that
\* all have one exceeds the limit it is held against.
MemoryAddsUp ==
    (call.next \in {"draw", "row"} /\ got.reachable /\ NamesDiffer) =>
        /\ Total([row \in AllRows |-> MemoryCell(row).used])
              = Total([i \in Weighed |-> daemon.containers[i].usage])
        /\ (\A i \in Weighed : daemon.containers[i].limit > 0) =>
              \A row \in AllRows : MemoryCell(row).used <= MemoryCell(row).limit

=============================================================================
