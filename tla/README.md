# terminal_status_panel in TLA+

`terminal_status_panel` prints a status panel when somebody logs in to a server.
It has three programs:

* **the panel** (`terminal-status-panel`), run by the login shell or, with
  `--follow`, again and again in one process. It reads `/proc`, Docker, a few
  commands and one state file, under a time budget, and prints sections: SYSTEM,
  DOCKER, HEALTH, TRAEFIK, TROUBLE;
* **the collector** (`status-collect`, with the shell helper
  `data/keepalived-dump`), run by a systemd timer with the rights the login does
  not have. It leaves its findings in `host.json`;
* **the installer** (`install-panel`), which puts the call of the panel into shell
  rc files and, with `--collector`, installs and removes the collector's units.

What is hard about it is time and company: checks that hang, threads that answer
after they were given up, probes that share one fetch, a journal that is read in
increments by runs that fail or are killed, a daemon that writes a dump with a
password in it whenever it gets round to it, an installer that works under a
running service, files that are replaced while they are read. And much of what it
shows it has to work out from a few answers, some of which fail: which of several
files another program reads, and how many tasks fell between two listings. That is
what is modelled. Source paths below are relative
to `src/src/terminal_status_panel/`.

## Components

| Component | State it keeps | Operations | Modelled by |
|---|---|---|---|
| Time budget, `budget.py` | threads, `results`, `failed`, registry `_stragglers` | `run_with_budget`, `runner`, `_join_stragglers` | `Budget`, `BudgetContract` |
| Health pass, `collectors/health.py` | the tasks, the late list of peer names, `HealthInfo` | `_build_health_tasks`, `collect_health`, assembly | `Health` |
| Container index, `collectors/clusters.py:93-327` | three cached listings and their locks | `containers`, `services`, `info`, `find_containers`, `locate_member` | `Health` |
| HEALTH section, `render/health.py` | none | which blocks and truncation lines appear | `Health` |
| Journal reader, `collector/journal.py` | `journal.json`: cursor, kinds, time stamps | `collect_events` | `Journal` |
| Host half of TROUBLE, `collectors/hoststate.py`, `render/trouble.py` | reads `host.json` | `read_host_state`, rows, notes | `Trouble` |
| Collector run, `collector/run.py`, `vrrp.py`, `apache.py`, `apt.py`, `data/keepalived-dump` | `host.json`, `apache.json`, the dump and its copies | the helper, `run`, `write_state`, ExecStopPost | `Collector` |
| Installer, `install.py` | unit files, the timer, the runtime directory | `apply_collector`, `_remove_collector` | `Install` |
| Command line and follow mode, `cli.py`, `follow.py` | the frame, the time of a pass, the registry across passes | `main`, `collect_all`, `run_follow`, Ctrl-C | `Panel`; `Budget` (Ctrl-C, repeated calls) |
| Configuration, `config.py` | the settings, the problems `--debug` reports | `load_config`, the accessors of `_Reader` | `Config` |
| Network and DNS checks, `collectors/network.py`, `dns.py` | none | parse `wg show dump`, resolver answers | `Health` (their place in the pass) |
| Cluster parsers, `collectors/clusters.py:335-` | none | output of pg_autoctl, mongosh, Kafka, Gluster, RustFS to a verdict | `Clusters` |
| Verdict of a row, `render/verdict.py` | none | Docker's count and the cluster's verdict to an icon | `Rows` |
| Docker section, `collectors/docker.py`, rows of `render/panels.py` | the `SwarmInfo` being collected | `collect_docker`, `_service_trouble`, `_container_groups`, grouping into rows | `Docker` |
| Traefik wiring, `collectors/traefik*.py`, `render/traefik.py` | the `TraefikInfo` being collected | `collect_traefik`, the search for the static configuration, `_absorb_file_provider`, `mark_rejected`, `traefik_section` | `Traefik` |
| Mount resolver, `collectors/traefik_mounts.py` | a path half resolved, a walk half done | `locate`, `presence`, `read_located`, `provider_files` | `Mounts` |
| Layout and panels, the rest of `render/` | none | packing, tables, bars | `Panel` (what is drawn), else not modelled |
| System section, tools | none | single reads | not modelled |

How they interact: the panel calls the health pass, which hands its checks to the
budget; the checks share the container index; the panel reads `host.json`, which
the collector's run replaces with one `os.replace`; the run calls the journal
reader; the run's helper prepares the dump that `vrrp.py` reads; the installer
starts and stops the timer that starts the run. There is no lock between
processes: everything passes through files that are replaced in one step.

What makes each of them correct:

* **budget**: each check gets exactly one verdict, none is cut off before its own
  time, nothing that came late gets in, the call and the exit take bounded time,
  and every thread left behind is waited for briefly at exit;
* **health pass**: requests to Docker are made once, a failed request is never
  reported as an absent member, everything that is enabled is accounted for once,
  no row is made up, and a daemon that hangs holds up only those who need it;
* **journal and TROUBLE**: no event is counted twice or passed over, and a failed
  or outdated read never looks like a quiet host;
* **collector run**: the password does not outlive the run, and what is published
  is no older, and no more, than it says;
* **installer**: success means success, and nothing is deleted under a run;
* **verdict of a row**: green and alarm are shown exactly when they were measured;
* **Docker section**: what fell is counted, what did not fall is not, and the memory
  column adds up over whatever rows there are;
* **mount resolver**: a read gives the file Traefik's container has at that path and
  no file beside the mount, whatever is replaced meanwhile, and comes to an end;
* **Traefik wiring**: the static configuration that is drawn is the one Traefik uses,
  and a router that is not drawn is missed in a line above the tree;
* **configuration**: a value is used as it is written or reported;
* **follow mode**: the panel takes no more than half of the time.

`PROJECT.json` lists the places in the code where these can go wrong
("hazards"), each with the properties that would notice.

## Modules

```
BudgetContract  <--implements--  Budget     <-- BudgetProofs
      ^                             ^-- MCBudget
      |  INSTANCE
    Health    <-- HealthProofs
       ^-- MCHealth
    Journal   <-- JournalProofs <--.
      ^                            |
    Trouble   <-- TroubleProofs ---'
       ^-- MCTrouble
    Collector <-- CollectorProofs
       ^-- MCCollector
    Install   <-- InstallProofs
       ^-- MCInstall
    Clusters <-- Rows <-- Docker <-- DockerProofs
                            ^-- MCDocker
    Mounts <-- Traefik <-- Panel <-- PanelProofs
                 Config <----'^-- MCPanel
```

### BudgetContract and Budget

`BudgetContract` is what a caller of `run_with_budget` may rely on: tasks are
started, each may answer at any time, and when the call closes each is given one
verdict, `ok`, `failed` or `truncated`, that its answer allows. `Budget` is
the code. Its main thread goes through `starting`, `joining`, `abandoning`,
`sweeping`, `reporting`, and at exit through `exiting` and `exitjoin`; a check
thread goes through `running`, `closing` (its answer is in the dictionary and it
is still alive) and ends. A thread is a pair of call and task, so that threads
of an earlier pass still run in a later one. `Threads`, `results`, `failed`,
`stragglers`, `expired` and `abandoned` are the variables of the same names; the
lock is the atomicity of the actions that touch the dictionaries. Time is a
counter: it passes freely while the main thread waits, and by at most `Slack` per
call while it has a step to take. `Slack` is how late the scheduler may be; the
properties about time say by how much it enters.

### Health

One pass over the contract. A check is a small program of steps per thread: take
a lock of the index, ask the daemon, release it, decide where the member is, ask
for the peer names, answer. The lists a probe goes through, the locks it takes and
the error it remembers are `cache`, `holder`, `asked`. `HealthInfo` is built by
the main thread from the verdicts, and from a list that late check threads may
still be filling. `health.enabled` is a list and may name a kind twice: a kind that
counts is a place of the list, the first of its kind (`FirstPlaces`), and the rows of
`HealthInfo` are functions of those places. The HEALTH section is an operator of the
`HealthInfo`.

### Journal and Trouble

The journal is a sequence of entries, a cursor a position in it, a list of time
stamps a bag. A run loads its file, reads after the cursor or over the window,
counts, saves. `World` logs entries, vacuums the oldest, changes the
configuration and loses the file; `Die` ends a run anywhere. `Trouble` adds the
publication in `host.json` and what a login reads from it.

### Collector

The helper's steps, the steps of `run()` and ExecStopPost, next to a keepalived
that serves a signal late and writes its dump in `Parts`, a web server whose
counter restarts, and an apt that fails. The copy of the dump and the totals are
variables of their own because they are files; what keepalived dumps and the
number of updates are identified with the time they belong to, so that "current"
is a relation of numbers.

### Install

`apply_collector` step by step, against what systemd has loaded, has enabled and
runs. Every systemctl call may fail and every step may be interrupted; a run of the
service leaves files in the runtime directory and, when it is killed, in other
places.

### Clusters and Rows

`Clusters` has one operator per parser: from a record of what a tool's text says
to the `ClusterService` made from it. `healthy` and `quorum` keep their three
values. `Rows` is a login that may or may not get the verdict in time and then
draws the icon of the row; `Docker` supplies the row. What an answer amounts to is defined a second time
next to the properties, from the answer alone (sets and majorities instead of
counters and lists), and the icon is compared with that.

### Docker

`collect_docker` call by call (`docker info`, the nodes, the containers, the services,
per service its tasks that should run and its history, the disk), each of which may
fail, next to a Swarm that goes on: tasks fall, start and are replaced by an update,
and Swarm keeps `Retention` ended tasks of a slot. `fallen` and `told` are history
variables: what fell in each slot of a service, and what TROUBLE was told of it. The rows are those of
`_stack_columns` over the names, labels and hosts in names that `_group_key` looks
at; a name is a sequence of words. Services and containers listed are functions of a
place, so that a total over a row is one over a set of places.

### Mounts

A file system is a set of inodes: directories with names, files, relative and
absolute links, pipes, any of them closed to the login. The resolver is a state
machine with one action per system call (`lstat`, `readlink`, `open` of one
component below the directory that is open), so that `Change`, somebody deploying
files, may come between any two. `below` is a history variable: the inodes that
were below the mount's source since the read began, wherever a deployment on the way to
it has put the source meanwhile (`Sources`, `Closure`). The walk of the provider's
directory and the presence check are one step each. What the container itself sees at
a path is written down separately, as the kernel's walk of a path through a tree of
mounts (`Kernel`, `InContainer`, external), and compared with what was read. `Uncovered`
is the same walk as if no mount lay over anything behind the one the path belongs to;
`IsMounted` says what the daemon has seen to before a container runs: every target is
there in the container's name space, and is what the source is on the host.

### Traefik

`collect_traefik` with one action per call of the daemon and per file; each call may
fail, up to `faults` of them, and so may anything in between (`Surprise`). A document
is what it declares: entrypoints, provider, routers. The workload found, the
placement and the state of the Swarm are asked when the code asks for them and kept as
it keeps them. Where each router is drawn, and the lines above the tree, are operators
of the `TraefikInfo`. What Traefik itself does, `TraefikSource` and `ProvidedRouters`,
is defined from the mounts and the kernel's walk, not from the collector.

### Config

One operator per accessor of `_Reader`, from a setting and a value of the file to the
value used, whether a problem was noted and whether the accessor raised. A value is a
number, one with a fraction, an infinite one, one too large for a float, a text, a
list, a table and so on; `Settings` is the table of the settings with accessor,
default and limits. Floats are in tenths.

### Panel

A login: the configuration is loaded, the sections are chosen, Docker and Traefik are
asked as far as the sections want them, the API of Traefik is consulted, a frame is
drawn, and in follow mode the panel rests and begins again. `worked` and `rested` are
history variables of the pacing.

## What is checked

| Run | What it asks | Result |
|---|---|---|
| `budget_call` | one call, three tasks of different deadlines, starts that fail, Ctrl-C anywhere, a late main thread | `OneVerdictEach`, `NoLateAnswer`, `TruncatedHadItsTime`, `WaitsBounded` hold |
| `budget_follow` | two calls of a process and its exit | `RegistryCoversAbandoned`, `RegistrySwept`, `GraceGiven` hold; the calls implement `BudgetContract`; calls and exit end (`CallsAndExitEnd`) |
| `health_pass` | every order and reply on hosts with and without Docker, a client, names | `AskedOnce`, `AbsenceIsMeasured`, `RowsAreAnswers` hold |
| `health_live` | does every check come to an end? | `HostChecksAnswer` and `EveryCheckAnswers` hold |
| `health_shown` | is every truncation visible? | no, see the findings |
| `trouble_reader` | runs that fail or die, a journal that is vacuumed, a lost file, a login at any moment | `CountsAreTrue`, `PlainRowsAreCurrent`, `QuietIsQuiet`, `NothingTwice`, `NothingPassedOver`, `ReplyIsTrue` hold |
| `collector_runs` | service runs killed anywhere next to keepalived, a web server and apt | `CopyIsGoneOrReported`, `VrrpIsThisRuns`, `RateIsTrue`, `FailedCheckIsNotFresh` hold |
| `install_runs` | installs and uninstalls of two versions, failing and interrupted anywhere, next to the service | `NothingDeletedUnderCollector`, `RemovedLeavesNoCopy`, `SuccessMeansRunning` hold |
| `install_unchanged` | does a success mean systemd works with the installed units? | no, see the findings |
| `docker` | a login next to a Swarm whose tasks fall, calls that fail, every answer of six tools, every kind of row | `GreenIsEarned`, `AlarmIsTrue`, `StoppedIsNotSlow`, `FallsAreCounted`, `MemoryAddsUp` hold |
| `panel` | logins over 110 ways to a file of a mount, two of them through another mount, and over deployments meanwhile, every layout of the provider's directory, every source of the static configuration on a Swarm with two faults, follow mode, the API, every value for every setting | `NeverOutside`, `ReadIsContainers`, `StaticIsTraefiks`, `LabelsAreDrawn`, `WiringIsMeasured`, `PanelTakesHalf`, `WhatIsUsedIsWritten` hold; every pass is drawn (`PassIsDrawn`) |
| `config_load` | does `load_config` always return? | no, see the findings |

Each property is stated in words at its definition. Each has, in
`PROJECT.json`, a mutation of the model, written next to what it mutates, that
makes it false: a second start, a swapped order, a lost error, a time stamp too
young, a link that is followed when it is opened.

### Bounds, and why they are enough

* **Budget**: three tasks, one of them with a timeout below the budget although it
  is registered after one with the full budget, is the least number with which a
  join in deadline order differs from one in order of registration and in which
  a wait can use up the time of two others. Two calls are what the registry needs
  (a thread of an earlier call, alive or not, at the sweep of a later one). The
  clock's bound, 9, is out of reach: a call and an exit take at most
  `Budget + Grace` and the delays. The proofs need none of these bounds.
* **Health**: two Docker kinds share the three listings, which gives the races for
  each fetch; each host-side way to run a check appears, one of them configured
  twice. A third probe would do what the second does.
* **Journal**: a window of one unit, three times and two entries contain an entry
  inside, at the edge of and outside the window, one before and one after a
  cursor, and a cursor whose entry is gone. The proofs are for any number.
* **Collector**: two parts of a dump (whole and not), three polls (two equal sizes
  and one more), three times, two requests (one on each side of a restart). Two
  signals in flight are the late answer to a run before this one.
* **Install**: two versions; the state is otherwise finite. No bound limits how
  often anything happens.
* **Clusters and Rows**: up to four members, so that even and odd majorities are met
  and missed; three timelines (unknown, the primary's, another); rows with two
  primaries. Services of a row are summed, so that two of them are all there is to see. A
  task on its way up is `preparing` when the login begins, and `starting` or `pending`
  after an event: the code asks only whether a state is one of `_STARTING`, and the proofs
  are for each of them. A status of Kafka is whole, has lost its leader or its list of
  voters, or is no status.
* **Docker**: five events on tasks with two kept of a slot are enough to push a fall
  out of the history; two containers beside two services meet in one row, in two, and
  in none; a container named after the project and service of another shares that
  one's name in the index of memory.
* **Mounts**: the limits are small (`MaxHops` 4, `MaxProviderFiles` 2,
  `MaxScannedEntries` 5) and trees are made that stay under, meet and exceed each.
  Links lead to files, to directories, through two more links, up, out of the mount,
  to an absolute path, to themselves and nowhere, at two positions of a path. Up to
  two changes of the files fall anywhere. A walk of `n` components through links of at
  most `MaxLink` has ended after `Steps` of them, since each link followed puts its target
  in front of the rest and at most `MaxHops` are followed: no bound of the model but what
  the limits of the kernel amount to (`KernelEnds` and `HostEnds` prove it).
  `MaxSteps` bounds only how many directories a listing goes into, and is more than these
  trees have.
* **Traefik**: mounts at, above and below the directory that is asked for, of each
  kind; four providers; eleven ways to configure Traefik on a Swarm. Two faults are what
  is needed for both listings to fail and for one call to fail after another's failure
  changed the course.
* **Config**: the values are every type of TOML and each side of every limit there is.
  Settings do not depend on one another, so a file gives all of them the same value.
* **Panel**: three passes, each shorter than, equal to and longer than the interval.

### Fairness

* `budget_follow` assumes weak fairness of the main thread's steps and of the
  clock. It assumes nothing of check threads: they may hang for ever, which is
  why the budget exists. Python schedules a runnable thread, and `join` with a
  timeout returns.
* `health_live` assumes weak fairness of each check thread's own steps
  (`HostFairness`: they are computations, lock acquisitions with no competitor that
  stays, and subprocesses with a timeout) and, only on hosts whose daemon is said to
  answer, of the daemon's replies (`DaemonFairness`). An error is a reply. On the
  hosts where it never answers, `HostChecksAnswer` is about those who do not need it.
* `panel` assumes weak fairness of the program's next step. Its calls end: those of the
  daemon and of the API have a time-out, and a file is opened without waiting and read
  up to 1 MiB. The changes of files are bounded by what is deployed during a login.
* Journal, Trouble, Collector, Install and Docker have safety properties only: a timer
  that stops is something the panel has to show, not to prevent.

## What is proved

Eight modules hold theorems, for all values of the constants and with nothing assumed
but the named assumptions of the modules. Those say what the code's types and its
configuration say: numbers where the code has numbers, a positive window or retention, a
list of known kinds (`HealthAssumption`), rows of a listing with the fields that are read
(`CasesAssumption`), and for `Panel` (`LoginsAssumption`) that a directory's names stand for something, a link
is no longer than the kernel lets it be, what is deployed is put into a directory that
exists, and a workload Docker lists has been started (`IsWorkload`): its mounts are where
their targets say, a config is a file, and paths are paths. Docker starts no container
otherwise. For a workload on another node the tree stands for that node's, and nothing of
it is looked at. TLC evaluates each of them on the instances it runs.

Every `Invariance` or `Inductive` below is proved the same way: the initial states
satisfy the invariant, and one step per action keeps each conjunct it can disturb.

**Budget.** The invariant is built in layers, each inductive given `Typed` and those it
names:

1. `Typed`, the types (`TypeCorrect`);
2. `Recorded`: only a thread that got that far has an entry in `results` or
   `failed`, never in both, and threads beyond the current call are new;
3. `Covered` (needs `Recorded`): every live thread of a finished call is in the registry,
   and so is every abandoned one once registered (`RegistryCovers`, `GraceIsGiven`: the
   exit handler starts from the registry);
4. `Fresh` (needs `Recorded`): the registry has no thread that ended before the call began
   (`RegistryIsSwept`);
5. `Timely`: clock, lag, the beginning of a wait and the deadlines bound each
   other. Needed because `WaitsBounded` looks at one wait but a wait begins where
   the one before ended (`WaitsAreBounded`);
6. `Judged` (needs all of these but `Covered` and `Fresh`): what is known of a task once it
   has been joined: whether it is in `expired`, when its thread ended, that an answer in the dictionary of a task not
   expired came in time (`ReportIsPartition`, `AnswersAreTimely`,
   `TruncationIsDeserved`).

`BudgetImplementsContract` maps each action to a step of `BudgetContract` or to a
stutter. `Health` is built on the contract, so what is checked and proved of it does not
depend on how the budget keeps time.

**Health.** `Inv` joins the types with `IndexInv` (a listing is asked for when its lock
is taken, and the lock comes back only with an answer or an error remembered),
`SearchInv` (how far each search has come, and what it has seen by then: who asks for
`docker info` has a container listing without the container, who reports it missing has a
service that wants it) and `NamesInv`. `DaemonAskedOnce` follows from the first,
`AbsenceWasMeasured` from the second: that no member is reported absent after a failed
request is not inductive alone, because the request was made by another thread, which may
be gone. `RowsWereAnswers` has a second layer, `AnswerInv`, that relates the verdicts of
the contract to the answers: a probe never raises, and a verdict `ok` has an answer.

**Journal.** `IInv` joins the types with

* `LogInv`: entries have times in the order of the log and none is in the future;
* `FileInv`: the stamps in the file are those of entries up to the cursor, each at
  most once, and for each saved kind none of the window's entries is missing;
* `RunInv`: the same of a run between its read and its save, with the part it is
  about to add.

`NothingTwice` alone is not inductive: that a stamp is added once needs that what
was read lies behind the cursor of the stamps it is added to, and that a read of
the window replaces them. `CountedOnce`, `NonePassedOver` and `RepliesAreTrue`
follow.

**Trouble.** `TInv` adds to the invariant of `Journal` what the publication keeps:
`Returned` (a run returns no stamp that has left the window), `FileType` and
`LastInWindow` (a count in `host.json` comes with a last stamp inside the window of that
run). `PublishedIsTrue` and `SilenceIsQuiet` compare the counts of a file with the log of
later, which has grown and been vacuumed: a bag of stamps, each of an entry at most once,
is mapped into the entries.

**Collector.** Four invariants, one for each property: `CopyInv` (what a run could
not delete is in its state before that is published), `VrrpInv` (each dump on the way to
the copy is of a time after the run asked, up to the move, and nothing else reads one),
`RateInv` (the totals on file were taken from a counter that began no later than the one
that runs, and count no request that was not served) and `FreshInv` (no result of a check
is from a time that is still to come). `VrrpIsNeverOld` needs the first two parts of a run, the helper and
the collection, in one invariant: the copy is made in one process and read in the other.

**Install.** `UnitsInstalled`, `StaysStopped`, `WrittenSoFar` and `DeletedSoFar`:
what has been looked at of a list of files is as it should be, and a service that runs
has its unit installed. The last is why `NeverDeletedUnderCollector` holds: the
uninstaller concludes from a missing unit file that there is nothing to stop.

**Docker and Rows.** For each of the six tools a lemma says that the icon of the parser's
verdict is ✅ exactly for the answers that say well and 💀 or failed exactly for those
that say lost or failed, and for Kafka's status in another form (`Changed`) (`PostgresIcon` to `RustfsIcon`). Majorities are compared as
cardinalities, so no bound on members is left. `Inv` says that the daemon's services keep
what they want, that what has been listed so far was counted, and that a cell is what row
and verdict say. `GreenWasEarned`, `AlarmWasTrue` and `StoppedIsDown` are theorems of
`Docker`, so of the rows that `collect_docker` produces.

`MemoryAddedUp` is about all rows at once. `MemoryInv` says, between any two calls, that
each service and each group listed keeps the memory that was read under its name, that
every running container of a group is in one, and that the calls come in their order. The
rest is arithmetic: the rows part what is listed (`RowsPartPlaces`), what is listed parts
the containers (`KeptApart`), and a sum of numbers is the size of a pile of things
(`TotalIsPile`), so that sums over the parts make the whole (`TotalOfTotals`) without an
induction. It assumes what Swarm and the kernel see to: no two services have one name, and
no container is above its limit (`CasesAssumption`).

`FallsWereCounted` is about what Swarm forgets. `SlotKept` says of each slot that what
Swarm still has of it is the end of the list of its falls, that the times on that list are
in order, and that if the list is longer Swarm has kept `Retention` of it; each step of
Swarm keeps that (`SwarmFalls`), whichever call of the collector it falls between. Hence
the history has no more falls of the window than there were, and if it has fewer then at
least `Retention`, which is when the row says `≥` (`HistoryCounts`: what is kept maps one
to one into what fell, and in a slot where a recent fall is forgotten all that is kept is
recent). A fall in the window is never missed by the pre-selection (`FallIsSuspect`): the
task that follows it is not running, or has been running for less than the window. That
Swarm's times are in order before the login is assumed (`IsTimely`).

The attempt found what the property has to say. A service with more slots than it wants,
as during a scaling down, may have a fallen slot and still run as many as it wants, with
none of them new; its history is not asked for. `rejected` and `orphaned` tasks are falls
too, and a task starts only from one of `StartingStates`. The property and the model were
corrected.

**Panel.** `Configured`, `Paid`, `LabelsListed` and `Collected` are the invariant of a
login: the configuration is that of its file and did not raise, before each pass the panel
has rested as long as it had worked, and a call that is over has left its routers or its
error in the `TraefikInfo`. `HalfIsLeft`, `UsedWasWritten` (a lemma for each accessor; of a
flag, that a word in quotes is the boolean it names, `WordsFor`) and
`LabelsWereDrawn` follow; the last needs that each router is placed in the tree or among
the orphans (`AllArePlaced`).

**Mounts and Traefik.** Three theorems about the files, for every tree, workload, path and
deployment: `StaysInside` (`NeverOutside`), `ReadsAsContainer` (`ReadIsContainers`) and
`StaticWasTraefiks` (`StaticIsTraefiks`). `Invariance` proves `Inv`, `FilesInv` and
`Decided` together, since each looks at the others.

`FilesInv` has three parts. `Deployed`: what is deployed changes names in directories and
nothing else, and `Steady` means the tree is that of the login. `Traced`: the workload is
one Docker lists, and what is queued is where the mounts say. `Tracked`: while a read is
under way,

* `UnderWay`: it is a read of the mount the path is on, begun only where the workload is;
* `Following`: as long as nothing has been deployed, the read is where the kernel would be
  (`Followed`, below);
* `Inside`: what is below the mount's source is closed under names, has the source in it,
  and has the directory that is open in it. Closed is what `Closure` has to be, whose
  recursion stops after as many rounds as there are inodes: `ClosureCloses` shows that a
  round that adds nothing comes before that. With a history that only followed names added
  below the old source, a deployment on the way to the source made a correct read look like
  one outside; `Change` follows the source.

`ReadsAsContainer` compares two programs. The collector resolves one component after
another by name, asks the host anew for each (a walk as the login from the root of the
host), and opens the result one directory at a time. The kernel walks inodes, as root, from
the mount point in another name space. The argument goes in four layers:

1. a walk ends, in no more than `Steps` steps, and a walk in a walk is a walk: what a path
   leads to depends on what its prefix leads to. A recursive function over the number of
   steps has to be unrolled for this (`UnrollsEnds`, `After`);
2. a path whose every prefix is a directory, with no link and no `..` in it, is walked by
   names alone, and from a mount point as from the source, because the mount point is the
   source's inode (`MountIs`);
3. `Resolves`, for a read in `lstat` or `readlink`: what is resolved by now is such a path,
   and what the kernel still has to do from the inode at its end is what is pending. Each
   step of the read is a step of the kernel, or refuses a path that leaves the mount, is
   closed to the login, or follows more links than the kernel does (`ResolveFollows`).
   `Opens`: the same of the directories already open (`OpenFollows`);
4. a read that has ended is `Owned`.

`StaticWasTraefiks` needs the same of the presence check, which is one step
(`BindPresenceIs`): the first candidate that decides the collector's search is then the
first that is there in the container (`FoundIsThere`), what is read of it is the file
there (`TakenIsThere`, for a config by `AtTarget`: a mount's root is what lies at its
target), and if none is there Traefik falls back as the collector does. `Decided` carries
this from the search to the end of the collection.

The attempt corrected the properties and the model:

* a link below one mount may lead below another and back, and then it is not enough that
  the walk ends on the mount it began on. `OwnMount` now says that no other mount changes
  the walk, and the run has two links that cross a mount;
* `file/../x` is `x` to the collector and an error to the kernel, so `OwnMount` excepts a
  `..` asked of what is no directory (`Climbs`; see the findings);
* the daemon resolves the source of a mount as root. That the login may not is one of the
  ways a read is refused, and no longer part of what the container sees;
* the number of steps a walk was given was a bound of the instance; it is now what the
  limits on links amount to, with `MaxLink` for the length of one;
* in `Owned` a read said to be missing was allowed wherever the walk had left the mount.
  The proof needs no such exception, and the property has it no more;
* a candidate on no mount is passed over by the collector, which cannot look into an
  image. If the image brings a file there, Traefik reads it and the collector does not
  (`Brought`; see the findings).

Where a proof needs an induction over a number, the smallest counterexample is taken
instead (`Least`, `FirstPosition`), which needs no operator as a parameter.

**Only model-checked:**

* liveness (`CallsAndExitEnd`, `HostChecksAnswer`, `EveryCheckAnswers`, `PassIsDrawn`),
  which needs ENABLED and is out of the prover's reach;
* `WiringIsMeasured`, which compares a listing of directories on the host with Traefik's own
  listing in the container: an induction over trees of directories of two name spaces, for
  which the lemmas on one path are a beginning.

## Findings

* **`health_shown`** (bug). A peers check cut off on a host without Docker and
  without peer names has no line: the block that would carry it is left out
  (`render/health.py:288`).
* **`install_unchanged`** (bug). An upgrade whose `daemon-reload` failed reports
  `failed`; the re-run asks only whether the timer is enabled and active, which the
  old one is, and reports `unchanged`. The how-to says a re-run retries the
  activation.
* **`config_load`** (bug). `_Reader` "never raises" by its docstring, and an unreadable
  file "falls back to the built-in defaults — it never raises" by
  `docs/reference/configuration.md:5`. But `width = inf` is an `OverflowError` of `int()` (`config.py:483`), an integer with
  hundreds of digits one of `float()`, `url = "http://["` a `ValueError` of
  `urlsplit`, and a file that is no UTF-8 a `UnicodeDecodeError`. `main` swallows
  each, and the login shows an empty panel instead of one with a default.

Differences that no run is about:

* `collector/journal.py:167-169` says that after a failed write of the state the
  next run reads the window again. It reads after the older cursor that is still
  in the file; counts come out the same (`NothingTwice`, `ReplyIsTrue`).
* The host-health page speaks of an incremental read as short. After a long pause
  it reads everything since the cursor, and one that times out keeps the cursor.
* `collector/apt.py:57` says "at most hourly". A failed simulation is retried on
  each run.
* `collector/apache.py` says that the run after a failed save has no rate. It has
  one over the longer window, since the older totals remain.
* `collectors/clusters.py:766-768` wants no red alarm from Kafka output of a
  changed form. Output that still has one of the status keys, but whose
  `CurrentVoters` is missing or is no JSON, has no leader among the voters and is
  💀. Such output is a form of its own in the model (`changed`), and `AlarmIsTrue`
  claims nothing of its alarm (`Disputed`); that it is not green holds (`GreenIsEarned`).
* The cluster-health page says that a member on a foreign timeline "turns the whole
  cluster's verdict red". It does when it costs the majority; one of three leaves a
  ⚠️ (`test_three_diverged_of_five_lose_the_quorum` asks for the majority). `AlarmIsTrue`
  leaves open whether one that leaves a majority is an alarm (`Disputed`); that it is not
  green, and counts as down, holds (`GreenIsEarned`, `StoppedIsNotSlow`).
* A helper killed while it copies leaves its work directory, with a copy of the
  dump, until uninstall or reboot. The next runs do not look for it.
* `budget.py:11-16` says that the threads left running are waited for at exit. The
  registry is written after the joins (`budget.py:120-137`), so Ctrl-C inside a join
  leaves this call's threads out of it. `RegistryCoversAbandoned` and `GraceGiven` are
  about calls that returned.
* `write_state`'s temporary file, left by a run that was stopped in the middle, is not
  on the list of files an uninstall deletes (`install.py:228`), and `removed` is
  reported with the directory in place. `RemovedLeavesNoCopy` is about copies of the
  dump.

Of the Docker section:

* A service with an empty group label is grouped by its name (`render/panels.py:1156`);
  `docs/reference/configuration.md` says it "groups with no one".
* On a worker `services.list` raises and the whole `SwarmInfo` is unreachable
  (`docker.py:988-989`), so `swarm.enabled` is false there and the line that the
  services could not be listed, which `docs/explanation/traefik-wiring.md:445-449`
  promises, is not drawn. `LabelsAreDrawn` excepts that case.
* `_Memory.partial` is set and never read; a local service whose memory could not be
  read is "elsewhere" in its cell. A row whose task listing failed counts 0/n and is
  💀, as `render/verdict.py:10-12` has it.
* A Compose container whose `<project>_<service>` is the name of a Swarm service adds
  its memory to that service, and two groups of one such name, a container `p_box` beside
  service `box` of project `p`, each show the sum of both (`docker.py:924` looks memory up by that name). `NamesDiffer`
  excepts both; that it has to except the second was found in the proof of
  `MemoryAddedUp`.
* Falls of a global service on a node where nothing runs now are missed, as are those of a
  service that has more slots than it wants, and a rolling update pushes falls out of the
  kept history. `FallsAreCounted` says for which services the count is right.
* `_manager_quorum` warns only if a manager is unreachable, and a placement error of one
  replica makes the row dead while the others run.

Of Traefik and its mounts:

* `mark_rejected` marks each router the API's answer does not mention, not only those it
  reports as rejected (`traefik.py:808-818`); by
  `docs/how-to/enable-the-traefik-cross-check.md:25` nothing is marked unless Traefik
  "actually answered about that router".
* `"no such service"` is claimed of a service of the file provider whose file was not
  read, although `render/traefik.py:66-68` gives no verdict for one that was.
* A link below a mount that leads below another mount nested in it is followed in the
  first mount's source; the container sees the second (`OwnMount` excepts it). An
  absolute link to a directory of the host is left out of a walk as a directory, even if
  the container has a file there. A provider directory reached through an absolute link
  is walked on the host. `file/../x` is resolved to `x`, which the kernel refuses
  (`OwnMount` excepts it).
* A candidate for the static configuration that lies on no mount is passed over, unless
  `--configFile` names it. An image that brings one is not looked into (`Brought`).
* Files of the image next to a mount that lies below the provider's directory are not
  read and leave no note.
* A static configuration without a provider path still shows mounted configs named
  `traefik_dynamic*`, and whatever matches `traefik.match` is taken for Traefik.

Of the configuration and follow mode:

* `[health] enabled` and the other plain lists fall back silently (`Silent`), and so does
  a wrong `traefik.links`; an entry that is a table makes `health.enabled` raise later.
* `int(2.7)` drops the fraction without a problem noted.
* `--interval nan` or a huge interval makes `sleep` raise outside the pass's own `try`,
  and follow mode ends.

## Plan

Every component that has state or an order of its own is modelled, and every safety
invariant but one is a theorem. What is left is that one, `WiringIsMeasured`: that the walk
of a mount (`Walk`) finds what `EntriesBelow` finds in the container, over the lemmas on
walks in `PanelProofs`, with the exceptions for links to directories listed above.

## Not modelled

* Wording, tables, colours, icons, links, the logo, packing, cropping and the status
  line: presentation. Which blocks, rows and lines appear is modelled where a property is
  about it. Long lists of defaults are shortened.
* The texts the parsers read: a model has what they can say (usable, not usable,
  which kind; of a Traefik file its entrypoints, provider and routers).
* The tunnels of `wg show dump`, `/etc/hosts` and the answers of resolvers: parsers of one
  text each. Ports, uptime, image and description of a service.
* Rules of routers, middlewares, and the verdict of a router's service.
* The system section: single reads without state of their own.
* Follow mode into a pipe, which draws one frame. The time `screen.update` takes is not
  part of a pass, in the code as in the model.
* Files that are replaced during a walk of the provider's directory or a presence check:
  each is one step. The order of a listing is arbitrary.
* A wall clock set back between two runs of the collector, and the race between
  the timeout of a host command and the equal deadline of its task: in `Journal`
  the clock does not go back, and in `Health` either outcome of the race may
  happen.
* `tools/`, `docs/`, packaging: not part of the program.
