------------------------------ MODULE Traefik ------------------------------
(***************************************************************************)
(* TRAEFIK WIRING: collectors/traefik.py reads the labels of services and   *)
(* containers, finds Traefik among them, reads its static configuration     *)
(* from the source Traefik itself would use, and then every file its file   *)
(* provider reads; render/traefik.py places the routers.  Each call of the *)
(* daemon may fail, and the files may change (Mounts.tla).                  *)
(*                                                                         *)
(* A document, static or dynamic, is its state (plain, templated, broken,  *)
(* empty), the entrypoints and the provider it declares, and its routers.  *)
(* An optional value is a sequence of at most one.                          *)
(***************************************************************************)
EXTENDS Mounts

CONSTANTS
    StaticNames     \* `traefik` with each of _EXTENSIONS, in Traefik's order

VARIABLES
    daemon,     \* what Docker has: [swarm, services, containers, configs, match, changes]
    faults,     \* the calls that may still fail
    call,       \* the next step of the collector
    state,      \* _DaemonInfo: unasked, active, inactive or failed
    placement,  \* _SwarmPlacement: unasked, here or away
    load,       \* the workload found, if any
    queue,      \* the files of the provider that are left
    info        \* the TraefikInfo so far

traefikVars == <<fileVars, daemon, faults, call, state, placement, load, queue, info>>

Unset    == ""
NoStatic == [entrypoints |-> {}, provider |-> <<>>]

EmptyInfo ==
    [reachable |-> FALSE, error |-> FALSE, serviceError |-> FALSE, containerError |-> FALSE,
     routers |-> {}, entrypoints |-> {}, provider |-> <<>>, source |-> Unset,
     path |-> <<>>, problem |-> Unset, notes |-> {}]

-----------------------------------------------------------------------------
(* The daemon's answers. *)

Fails(certain) == \/ certain /\ UNCHANGED faults
                  \/ ~ certain /\ faults > 0 /\ faults' = faults - 1
Answers(certain) == ~ certain /\ UNCHANGED faults

\* Only a manager lists services and configs.
NoManager == daemon.swarm # "manager"

Goes(next) == call' = next

-----------------------------------------------------------------------------
(* The listings, in their order. *)

Routers(objects) == UNION {o.routers : o \in objects}

\* The containers that are no task of a service.
NoTasks(containers) == {c \in ToSet(containers) : ~ c.task}

\* The objects whose name matches: each is a workload, by its place in the listing.
Matching(listing) == {i \in DOMAIN listing : listing[i].load # <<>>}

\* _absorb_swarm_services: of the services that match the last is Traefik.
ListServices ==
    /\ call = "services"
    /\ \/ /\ Fails(NoManager)
          /\ info' = [info EXCEPT !.serviceError = TRUE]
          /\ UNCHANGED load
       \/ /\ Answers(NoManager)
          /\ info' = [info EXCEPT !.reachable = TRUE, !.routers = Routers(ToSet(daemon.services))]
          /\ \/ Matching(daemon.services) = {} /\ load' = <<>>
             \/ \E i \in Matching(daemon.services) :
                   /\ \A j \in Matching(daemon.services) : j <= i
                   /\ load' = daemon.services[i].load
    /\ Goes("containers")
    /\ UNCHANGED <<fileVars, daemon, state, placement>>

\* _absorb_containers, _traefik_container: a task of a service is its service's;
\* the first container is Traefik if no service is.
ListContainers ==
    LET own == {i \in Matching(daemon.containers) : ~ daemon.containers[i].task}
    IN  /\ call = "containers"
        /\ \/ /\ Fails(FALSE)
              /\ info' = [info EXCEPT !.containerError = TRUE, !.error = ~ info.reachable]
              /\ UNCHANGED load
           \/ /\ Answers(FALSE)
              /\ info' = [info EXCEPT !.reachable = TRUE,
                                      !.routers = @ \cup Routers(NoTasks(daemon.containers))]
              /\ \/ (load # <<>> \/ own = {}) /\ UNCHANGED load
                 \/ /\ load = <<>>
                    /\ \E i \in own : (\A j \in own : i <= j) /\ load' = daemon.containers[i].load
        /\ Goes(IF info'.error THEN "done"
                ELSE IF info.serviceError THEN "state" ELSE "configs")
        /\ UNCHANGED <<fileVars, daemon, state, placement>>

\* swarm_state: `docker info`, asked at most once.
AskState ==
    /\ call = "state"
    /\ \/ Fails(FALSE) /\ state' = "failed"
       \/ Answers(FALSE) /\ state' = IF daemon.swarm = "none" THEN "inactive" ELSE "active"
    /\ Goes(IF state' = "active" THEN "configs" ELSE "found")
    /\ UNCHANGED <<fileVars, daemon, placement, load, info>>

\* _list_configs, _note_file_provider_error
ListConfigs ==
    /\ call = "configs"
    /\ \/ Fails(NoManager) /\ info' = [info EXCEPT !.notes = @ \cup {"configs not listed"}]
       \/ Answers(NoManager) /\ UNCHANGED info
    /\ Goes("found")
    /\ UNCHANGED <<fileVars, daemon, state, placement, load>>

ConfigsListed == "configs not listed" \notin info.notes

\* The two cases of collect_traefik: without a workload the configs that are
\* mounted cannot be told from those that were.
Found ==
    /\ call = "found"
    /\ \/ /\ load = <<>>
          /\ info' = [info EXCEPT
                !.problem = IF info.containerError THEN "no service matches"
                            ELSE IF ~ info.serviceError \/ state = "inactive"
                            THEN "no service or container matches" ELSE Unset,
                !.notes = @ \cup (IF daemon.configs # {} /\ ConfigsListed
                                     /\ (~ info.serviceError \/ state = "active")
                                  THEN {"traefik service not found"} ELSE {})]
          /\ Goes("done")
          /\ UNCHANGED placement
       \/ /\ load # <<>>
          /\ placement' = IF Head(load).service THEN "unasked" ELSE "here"
          /\ Goes("explicit")
          /\ UNCHANGED info
    /\ UNCHANGED <<fileVars, daemon, faults, state, load>>

-----------------------------------------------------------------------------
(* Where Traefik's static configuration is. *)

Workload == Head(load)
Mounts == Workload.mounts

\* _runs_here: what cannot be asked is "not here".
AskPlacement ==
    /\ call \in {"search", "reading", "provider", "files"}
    /\ placement = "unasked"
    /\ \/ Fails(state = "failed") /\ placement' = "away"
       \/ Answers(state = "failed") /\ placement' = IF Workload.here THEN "here" ELSE "away"
    /\ UNCHANGED <<fileVars, daemon, call, state, load, info>>

\* A workload with no bind mount is never asked where it runs.
Placed == placement # "unasked" \/ \A i \in DOMAIN Mounts : Mounts[i].kind # "bind"

\* config_file_arg, joined onto the declared working directory.
Explicit(w) ==
    IF w.explicit = <<>> THEN <<>>
    ELSE IF Head(w.explicit).relative /\ w.workdir # <<>>
    THEN <<Head(w.workdir) \o Head(w.explicit).path>>
    ELSE <<Head(w.explicit).path>>

\* candidate_paths
CandidatePaths(w) ==
    Explicit(w) \o FlattenSeq([d \in DOMAIN (w.dirs \o w.workdir) |->
                                 [n \in DOMAIN StaticNames |->
                                    Append((w.dirs \o w.workdir)[d], StaticNames[n])]])

\* What a workload and the documents it may read declare: mounts that are where they
\* belong, paths that are paths.
ProviderType == [directory : BOOLEAN, relative : BOOLEAN, path : Seq(STRING)]
IsStatic(static) == static.provider # <<>> => Head(static.provider) \in ProviderType
IsWorkload(t, w) ==
    /\ IsMounted(t, w.mounts)
    /\ w.workdir \in Seq(Seq(STRING)) /\ CandidatePaths(w) \in Seq(Seq(STRING))
    /\ w.flags # <<>> => IsStatic(Head(w.flags))
    /\ w.env # <<>> => IsStatic(Head(w.env))
    /\ \A i \in DOMAIN t : t[i].kind = "file" => IsStatic(t[i].doc.static)

Undecided(problem) ==
    /\ info' = [info EXCEPT !.problem = problem]
    /\ Goes("provider")

Absolute ==
    /\ call = "explicit"
    /\ IF Workload.explicit # <<>> /\ Head(Workload.explicit).relative /\ Workload.workdir = <<>>
       THEN Undecided("relative without a working directory")
       ELSE Goes("search") /\ UNCHANGED info
    /\ UNCHANGED <<fileVars, daemon, faults, state, placement, load>>

\* One on no mount is passed over, save the one --configFile names.
CandidateIs(t, w, path, k, isHere, at) ==
    IF at.mount = NoMount
    THEN IF k = 1 /\ w.explicit # <<>> THEN "not mounted" ELSE "absent"
    ELSE Presence(t, w.mounts, at, isHere)

\* _find_static_file: the first candidate that is there, or cannot be decided.
Stops(is) == {k \in DOMAIN is : is[k] # "absent"}
FirstOf(paths, is, stops) ==
    IF stops = {} THEN [is |-> "none", path |-> <<>>]
    ELSE LET first == CHOOSE k \in stops : \A j \in stops : k <= j
         IN  [is |-> is[first], path |-> paths[first]]
Searched(t, w, isHere) ==
    Given(CandidatePaths(w), LAMBDA paths :
      Given([k \in DOMAIN paths |->
                CandidateIs(t, w, paths[k], k, isHere, Locate(w.mounts, paths[k]))],
            LAMBDA is : FirstOf(paths, is, Stops(is))))

\* _read_static: the file, else the flags, else the environment.
FromArguments ==
    IF Workload.flags # <<>>
    THEN [info EXCEPT !.source = "flags", !.entrypoints = Head(Workload.flags).entrypoints,
                      !.provider = Head(Workload.flags).provider]
    ELSE IF Workload.env # <<>>
    THEN [info EXCEPT !.source = "env", !.entrypoints = Head(Workload.env).entrypoints,
                      !.provider = Head(Workload.env).provider]
    ELSE [info EXCEPT !.problem = "no static configuration found"]

Search ==
    /\ call = "search" /\ Placed
    /\ \E found \in {Searched(tree, Workload, placement = "here")} :
          IF found.is = "present" THEN info' = [info EXCEPT !.path = found.path] /\ Goes("reading")
          ELSE IF found.is # "none" THEN Undecided("cannot be checked from here")
          ELSE info' = FromArguments /\ Goes("provider")
    /\ UNCHANGED <<fileVars, daemon, faults, state, placement, load>>

-----------------------------------------------------------------------------
(* read_located: a config by its name; a bind mount by a read of its own. *)

\* What is not read at all, and why; Fine for what is.
Unread(located) ==
    LET mount == Mounts[located.mount]
    IN  IF located.mount = NoMount THEN "not mounted"
        ELSE IF mount.kind = "config"
        THEN (IF ~ ConfigsListed THEN "configs not listed"
              ELSE IF mount.source \notin daemon.configs THEN "config not found" ELSE Fine)
        ELSE IF mount.kind # "bind" THEN "unreadable mount"
        ELSE IF placement # "here" THEN "not readable on this node"
        ELSE Fine

Read(located) ==
    IF Unread(located) = Fine /\ Mounts[located.mount].kind = "bind"
    THEN BeginRead(Mounts[located.mount].source, located.rest)
    ELSE /\ read' = [Reading(<<>>, <<>>) EXCEPT
                        !.at  = "done",
                        !.why = Unread(located),
                        !.got = IF Unread(located) = Fine THEN Mounts[located.mount].source
                                ELSE None]
         /\ below' = {read'.got}

\* The document of what was read.
Document == tree[read.got].doc

ReadStatic ==
    /\ call = "reading" /\ read.at = "idle" /\ Placed
    /\ Read(Locate(Mounts, info.path))
    /\ UNCHANGED <<tree, changes, daemon, faults, call, state, placement, load, info>>

\* _read_static_file: never the flags instead.
TakeStatic ==
    /\ call = "reading" /\ read.at = "done"
    /\ info' = IF read.got = None THEN [info EXCEPT !.problem = read.why]
               ELSE IF Document.state = "broken" THEN [info EXCEPT !.problem = "broken"]
               ELSE [info EXCEPT !.source = "file", !.entrypoints = Document.static.entrypoints,
                                 !.provider = Document.static.provider,
                                 !.problem = IF Document.static.entrypoints = {}
                                             THEN "declares no entrypoints" ELSE Unset]
    /\ read' = Idle /\ below' = {}
    /\ Goes("provider")
    /\ UNCHANGED <<tree, changes, daemon, faults, state, placement, load>>

-----------------------------------------------------------------------------
(* The file provider. *)

\* _anchored_provider
Anchored(w, provider) ==
    IF provider.relative /\ w.workdir # <<>>
    THEN [provider EXCEPT !.path = Head(w.workdir) \o @] ELSE provider

\* _live_configs: without a path, the generations a service mounts.
LiveConfigs ==
    IF ~ ConfigsListed \/ ~ Workload.service THEN <<>>
    ELSE SetToSeq({f \in {Locate(Mounts, Mounts[i].target) : i \in DOMAIN Mounts} :
                     /\ Mounts[f.mount].kind = "config"
                     /\ Mounts[f.mount].source \in daemon.configs \cap daemon.prefixed})

\* _absorb_file_provider, _absorb_generations: which files are read.
ListFiles ==
    /\ call = "provider"
    /\ \/ /\ info.provider = <<>>
          /\ queue' = LiveConfigs /\ UNCHANGED info
       \/ /\ info.provider # <<>>
          /\ Head(info.provider).relative /\ Workload.workdir = <<>>
          /\ info' = [info EXCEPT !.notes = @ \cup {"relative path"}]
          /\ queue' = <<>>
       \/ /\ info.provider # <<>> /\ Placed
          /\ ~ (Head(info.provider).relative /\ Workload.workdir = <<>>)
          /\ \E listing \in {ProviderFiles(tree, Mounts, Anchored(Workload, Head(info.provider)),
                                          placement = "here")} :
                /\ info' = [info EXCEPT !.notes = @ \cup listing.notes]
                /\ queue' = listing.files
    /\ Goes("files")
    /\ UNCHANGED <<fileVars, daemon, faults, state, placement, load>>

ReadFile ==
    /\ call = "files" /\ queue # <<>> /\ read.at = "idle"
    /\ Placed
    /\ Read(Head(queue))
    /\ UNCHANGED <<tree, changes, daemon, faults, call, state, placement, load, queue, info>>

\* _absorb_located, _absorb_text: what yields no router leaves a note.
TakeFile ==
    /\ call = "files" /\ read.at = "done"
    /\ info' = IF read.got = None THEN [info EXCEPT !.notes = @ \cup {read.why}]
               ELSE IF Document.state # "plain"
               THEN [info EXCEPT !.notes = @ \cup {Document.state}]
               ELSE [info EXCEPT !.routers = @ \cup Document.routers]
    /\ queue' = Tail(queue)
    /\ read' = Idle /\ below' = {}
    /\ UNCHANGED <<tree, changes, daemon, faults, call, state, placement, load>>

EndFiles ==
    /\ call = "files" /\ queue = <<>>
    /\ Goes("done")
    /\ UNCHANGED <<fileVars, daemon, faults, state, placement, load, queue, info>>

\* _absorb_traefik: the failure nobody foresaw.
Surprise ==
    /\ call \in {"explicit", "search", "reading", "provider", "files"}
    /\ Fails(FALSE)
    /\ info' = [info EXCEPT !.entrypoints = {}, !.problem = "could not be read"]
    /\ read' = Idle /\ below' = {} /\ queue' = <<>>
    /\ Goes("done")
    /\ UNCHANGED <<tree, changes, daemon, state, placement, load>>

CollectTraefik ==
    \/ (ListServices \/ ListContainers \/ AskState \/ ListConfigs \/ Found \/ AskPlacement
          \/ Absolute \/ Search \/ ReadStatic \/ TakeStatic) /\ UNCHANGED queue
    \/ (ReadStep /\ UNCHANGED <<daemon, faults, call, state, placement, load, queue, info>>)
    \/ (Change /\ call # "done"
          /\ UNCHANGED <<daemon, faults, call, state, placement, load, queue, info>>)
    \/ ListFiles \/ ReadFile \/ TakeFile \/ EndFiles \/ Surprise

-----------------------------------------------------------------------------
(* render/traefik.py: where each router is drawn. *)

\* _attached
Attached(entrypoint) ==
    {r \in info.routers : r.entrypoints = {} \/ entrypoint \in r.entrypoints}

Tree == [e \in info.entrypoints |-> Attached(e)]

\* mutant: a router that names no entrypoint is no orphan.
Orphans_Named ==
    LET known   == info.entrypoints
        missing(r) == r.entrypoints \ known
    IN  {[router |-> r, missing |-> missing(r), red |-> known # {}] :
            r \in {x \in info.routers : missing(x) # {}}}

\* _orphan_block: `red` says that the entrypoint does not exist.
Orphans ==
    LET known   == info.entrypoints
        missing(r) == r.entrypoints \ known
    IN  {[router |-> r, missing |-> missing(r), red |-> missing(r) # {} /\ known # {}] :
            r \in {x \in info.routers : missing(x) # {} \/ (known = {} /\ x.entrypoints = {})}}

\* traefik_section: the banners above the tree.
Banners(swarm) ==
    (IF info.entrypoints = {} THEN {"tree"} ELSE {})
      \cup (IF info.notes # {} THEN {"file provider"} ELSE {})
      \cup (IF info.containerError THEN {"containers"} ELSE {})
      \cup (IF info.serviceError /\ swarm.enabled THEN {"services"} ELSE {})

-----------------------------------------------------------------------------
(* What Traefik does itself (external): it takes the first candidate that   *)
(* exists in its own name space, else its flags, else its environment.      *)

Steady == changes = daemon.changes

\* No other mount lies over what is on the way, and no `..` is asked of a file: the
\* kernel goes up from directories only.
Climbs(w) == w.err = "not a directory" /\ Head(w.rest) = Up
OwnMount(t, mounts, path) ==
    /\ InContainer(t, mounts, path) = Uncovered(t, mounts, path)
    /\ ~ Climbs(Uncovered(t, mounts, path))
\* What is on no mount the image does not bring either.
Brought(path) ==
    Locate(Mounts, path).mount = NoMount => InContainer(tree, Mounts, path).err = "missing"

SourceAt(path, w) ==
    [source |-> "file", path |-> path,
     static |-> IF Regular(tree, w) THEN tree[Here(w)].doc.static ELSE NoStatic]
Argued(source, static) == [source |-> source, path |-> <<>>, static |-> static]
TraefikSource ==
    Given(CandidatePaths(Workload), LAMBDA paths :
      Given([k \in DOMAIN paths |-> InContainer(tree, Mounts, paths[k])], LAMBDA at :
        LET there == {k \in DOMAIN at : at[k].err # "missing"}
            first == CHOOSE k \in there : \A j \in there : k <= j
        IN  IF there # {} THEN SourceAt(paths[first], at[first])
            ELSE IF Workload.flags # <<>> THEN Argued("flags", Head(Workload.flags))
            ELSE IF Workload.env # <<>> THEN Argued("env", Head(Workload.env))
            ELSE Argued(Unset, NoStatic)))

\* The routers of Traefik's file provider, by the static configuration it uses.
ProvidedBy(provider) ==
    UNION {tree[f.inode].doc.routers :
             f \in {p \in Provided(tree, Mounts, Anchored(Workload, provider)) :
                      tree[p.inode].doc.state \in {"plain", "templated"}}}
ProvidedRouters ==
    Given(TraefikSource.static.provider,
          LAMBDA provider : IF \/ provider = <<>>
                               \/ Head(provider).relative /\ Workload.workdir = <<>> THEN {}
                            ELSE ProvidedBy(Head(provider)))

-----------------------------------------------------------------------------
(* Properties. *)

\* While nothing changes, a bind mount's file is the one the container's kernel
\* finds at that path, and it is called missing only where the container has
\* none; a read is refused otherwise only where the path leaves its mount, is
\* no regular file or is closed to the login (_resolved_below_root: "as the
\* kernel does").
Owned(t, r, w) ==
    /\ r.got # None => w.err = Fine /\ r.got = Here(w)
    /\ r.why \in {"missing", "missing component"} => w.err = "missing"
    /\ r.got = None => w.left \/ ~ Regular(t, w) \/ r.why = "denied"
ReadIsContainers ==
    (read.at = "done" /\ Steady /\ placement = "here") =>
        \A located \in {Locate(Mounts, IF call = "reading" THEN info.path ELSE Head(queue).path)} :
            \/ located.mount = NoMount \/ Mounts[located.mount].kind # "bind"
            \/ ~ OwnMount(tree, Mounts, located.path)
            \/ Owned(tree, read, InContainer(tree, Mounts, located.path))

\* The static configuration that is drawn is the one Traefik uses, from the
\* source Traefik takes it from; where that cannot be found out none is drawn
\* (_find_static_file, _read_static: "never the flags instead").
StaticIsTraefiks ==
    (/\ call = "done" /\ Steady /\ info.source # Unset /\ info.problem # "could not be read"
     /\ \A path \in ToSet(CandidatePaths(Workload)) : OwnMount(tree, Mounts, path) /\ Brought(path))
    => \A its \in {TraefikSource} :
          /\ info.source = its.source /\ info.path = its.path
          /\ info.entrypoints = its.static.entrypoints
=============================================================================
