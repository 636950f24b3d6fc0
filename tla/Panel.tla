------------------------------- MODULE Panel -------------------------------
(***************************************************************************)
(* A login (cli.py) and follow mode (follow.py): the configuration is      *)
(* loaded, the sections are collected and the panel is drawn, once or      *)
(* pass after pass.  Traefik.tla collects the wiring and Config.tla reads   *)
(* the configuration; of the other sections only what TRAEFIK WIRING asks   *)
(* of Docker is here.  Times are in tenths of a second.                    *)
(***************************************************************************)
EXTENDS Traefik, Config

CONSTANTS
    Logins,     \* name -> the files, the daemon and what is asked for
    MaxPass     \* the passes a follow run makes here

\* The file has settings the program knows, a pass takes a time that is no less than
\* nothing, a daemon outside a Swarm has no services, what is deployed is put in a
\* directory, and Traefik has been started.
ASSUME LoginsAssumption ==
    \A l \in Range(Logins) :
        /\ DOMAIN l.file.values \subseteq DOMAIN Settings /\ Range(l.file.values) \subseteq RawValue
        /\ l.works \subseteq Nat /\ l.interval \in Seq(Int)
        /\ l.daemon.swarm \in {"none", "worker", "manager"}
        /\ l.daemon.swarm = "none" => l.daemon.services = <<>>
        /\ IsTree(l.tree)
        /\ \A c \in l.daemon.changes :
              /\ c.dir \in DOMAIN l.tree /\ l.tree[c.dir].kind = "dir"
              /\ c.name \in STRING /\ c.to \in DOMAIN l.tree \cup {Absent}
        /\ \A x \in ToSet(l.daemon.services) \cup ToSet(l.daemon.containers) :
              x.load # <<>> => IsWorkload(l.tree, Head(x.load))

VARIABLES
    login,      \* the name of the login
    phase,      \* start, pass, swarm, wiring, api, draw, rest or ended
    cfg,        \* what load_config returned
    swarm,      \* the SwarmInfo: [collected, reachable, enabled]
    accepted,   \* what fetch_accepted returned, if anything
    pass,       \* the number of the pass
    failed,     \* whether the pass has failed
    frame,      \* what is on the screen
    took,       \* how long the last pass took
    worked,     \* history: how long all of them took
    rested      \* history: the time between them

cfgVars   == <<login, cfg>>
clockVars == <<took, worked, rested>>
panelVars == <<cfgVars, phase, swarm, accepted, pass, failed, frame, clockVars>>
vars      == <<traefikVars, panelVars>>

MinInterval == 10   \* MIN_INTERVAL

Case     == Logins[login]
Unasked  == [collected |-> FALSE, reachable |-> FALSE, enabled |-> FALSE]
NoFrame  == [is |-> "empty", banners |-> {}, tree |-> <<>>, orphans |-> {}, rejected |-> {}]

Init ==
    /\ login \in DOMAIN Logins
    /\ tree = Case.tree /\ changes = Case.daemon.changes /\ daemon = Case.daemon
    /\ faults = Case.faults
    /\ read = Idle /\ below = {}
    /\ call = "services" /\ state = "unasked" /\ placement = "unasked"
    /\ load = <<>> /\ queue = <<>> /\ info = EmptyInfo
    /\ phase = "start" /\ cfg = [raises |-> FALSE, noted |-> FALSE, read |-> <<>>]
    /\ swarm = Unasked /\ accepted = <<>> /\ pass = 0 /\ failed = FALSE /\ frame = NoFrame
    /\ took = 0 /\ worked = 0 /\ rested = 0

-----------------------------------------------------------------------------
Value(name) ==
    IF name \in DOMAIN cfg.read THEN cfg.read[name].value ELSE Settings[name].default
WordsOf(name) == {x.word : x \in ToSet(Value(name).items)}

\* default_sections_for, _resolve_sections: a flag wins over the configuration.
Sections ==
    IF Case.sections # {} THEN Case.sections
    ELSE IF Value("sections").items # <<>> THEN WordsOf("sections")
    ELSE ToSet(SectionNames) \ (IF Case.present THEN {} ELSE {"docker", "traefik"})

\* collect_all: `traefik.match = []` states that there is no Traefik to read.
AsksTraefik == "traefik" \in Sections /\ Value("traefik.match").items # <<>>
AsksDocker  == \/ "docker" \in Sections \/ AsksTraefik
               \/ "trouble" \in Sections /\ Case.present

\* main: anything load_config raises leaves an empty panel.
Load ==
    /\ phase = "start"
    /\ cfg' = LoadConfig(Case.file)
    /\ phase' = IF cfg'.raises THEN "ended" ELSE "pass"
    /\ UNCHANGED <<traefikVars, login, swarm, accepted, pass, failed, frame, clockVars>>

\* A pass collects everything anew.
BeginPass ==
    /\ phase = "pass"
    /\ pass' = pass + 1 /\ failed' = FALSE
    /\ call' = "services" /\ state' = "unasked" /\ placement' = "unasked"
    /\ load' = <<>> /\ queue' = <<>> /\ info' = EmptyInfo
    /\ swarm' = Unasked /\ accepted' = <<>>
    /\ phase' = IF AsksDocker THEN "swarm" ELSE "draw"
    /\ UNCHANGED <<fileVars, daemon, faults, cfgVars, frame, clockVars>>

\* collect_docker: services.list() raises where this is no manager, and one
\* failure leaves the whole answer unreachable, `enabled` with it.
CollectSwarm ==
    /\ phase = "swarm"
    /\ \/ /\ Fails(daemon.swarm = "worker")
          /\ swarm' = [Unasked EXCEPT !.collected = TRUE]
       \/ /\ Answers(daemon.swarm = "worker")
          /\ swarm' = [collected |-> TRUE, reachable |-> TRUE,
                       enabled |-> daemon.swarm = "manager"]
    /\ phase' = IF AsksTraefik THEN "wiring" ELSE "draw"
    /\ UNCHANGED <<fileVars, daemon, call, state, placement, load, queue, info,
                   cfgVars, accepted, pass, failed, frame, clockVars>>

Wiring ==
    /\ phase = "wiring" /\ call # "done"
    /\ CollectTraefik
    /\ phase' = IF call' = "done" THEN "api" ELSE "wiring"
    /\ UNCHANGED <<cfgVars, swarm, accepted, pass, failed, frame, clockVars>>

\* parse_api_rawdata: the names Traefik did not report as rejected.
ParseApi(reported) == {x.name : x \in {y \in reported : y.status # "disabled"}}

\* fetch_accepted: nothing is learned from an API that is not configured, does
\* not answer, or answers in another shape.
AskApi ==
    /\ phase = "api"
    /\ accepted' = IF Case.api.answers THEN <<ParseApi(Case.api.reported)>> ELSE <<>>
    /\ phase' = "draw"
    /\ UNCHANGED <<traefikVars, cfgVars, swarm, pass, failed, frame, clockVars>>

\* mark_rejected
Rejected == IF accepted = <<>> THEN {} ELSE {r \in info.routers : r.name \notin Head(accepted)}

\* An exception that nothing below collect_all or build_layout caught.
Fail ==
    /\ phase \in {"swarm", "api", "draw"} /\ ~ failed
    /\ Fails(FALSE)
    /\ failed' = TRUE /\ phase' = "draw"
    /\ UNCHANGED <<fileVars, daemon, call, state, placement, load, queue, info,
                   cfgVars, swarm, accepted, pass, frame, clockVars>>

\* traefik_section; run_follow shows a failed pass as a status line alone, and
\* main shows nothing.
Rendered ==
    IF failed THEN [NoFrame EXCEPT !.is = IF Case.follow THEN "error" ELSE "empty"]
    ELSE IF ~ AsksTraefik THEN [NoFrame EXCEPT !.is = "no wiring"]
    ELSE IF info.error THEN [NoFrame EXCEPT !.is = "unreadable"]
    ELSE [is |-> "wiring", banners |-> Banners(swarm), tree |-> Tree, orphans |-> Orphans,
          rejected |-> Rejected]

Draw ==
    /\ phase = "draw"
    /\ frame' = Rendered
    /\ took' \in Case.works /\ worked' = worked + took'
    /\ phase' = IF Case.follow THEN "rest" ELSE "ended"
    /\ UNCHANGED <<traefikVars, cfgVars, swarm, accepted, pass, failed, rested>>

\* default_interval, and the floor of run_follow.
Interval ==
    LET requested == IF Case.interval # <<>> THEN Head(Case.interval)
                     ELSE IF "health" \in Sections THEN Value("follow.health_interval").n
                     ELSE Value("follow.interval").n
    IN  IF requested < MinInterval THEN MinInterval ELSE requested

\* mutant: a pass that took longer than the interval is followed at once.
NextDelay_NoFloor(interval, elapsed) == IF interval > elapsed THEN interval - elapsed ELSE 0

\* next_delay: what is left of the interval, and at least as long as the pass took.
NextDelay(interval, elapsed) ==
    IF interval - elapsed > elapsed THEN interval - elapsed ELSE elapsed

Rest ==
    /\ phase = "rest" /\ pass < MaxPass
    /\ rested' = rested + NextDelay(Interval, took)
    /\ phase' = "pass"
    /\ UNCHANGED <<traefikVars, cfgVars, swarm, accepted, pass, failed, frame, took, worked>>

Next == Load \/ BeginPass \/ CollectSwarm \/ Wiring \/ AskApi \/ Fail \/ Draw \/ Rest

\* The program runs, and its calls end: each has a time-out or is a read of a
\* regular file.
Spec == Init /\ [][Next]_vars /\ WF_vars(Next)

-----------------------------------------------------------------------------
(* Properties. *)

Drawn == phase \in {"rest", "ended"} /\ frame.is = "wiring"
DrawnRouters == (UNION Range(frame.tree)) \cup {o.router : o \in frame.orphans}

\* A router that a container or a service declares is drawn in the tree or with the
\* orphans; if it is not, a line above the tree says which listing was not read
\* (render/traefik.py: without it the absence "reads as a finding").  Where the
\* Swarm's own data could not be read the line on the services is left out.  What is
\* marked as rejected was left out of, or reported as disabled in, an answer that
\* came.
LabelsAreDrawn ==
    Drawn =>
        /\ \/ Routers(NoTasks(daemon.containers)) \subseteq DrawnRouters
           \/ "containers" \in frame.banners
        /\ \/ Routers(ToSet(daemon.services)) \subseteq DrawnRouters
           \/ "services" \in frame.banners
           \/ ~ swarm.reachable
        /\ info.routers \subseteq DrawnRouters
        /\ \A r \in frame.rejected :
              /\ Case.api.answers
              /\ \A x \in Case.api.reported : x.name = r.name => x.status = "disabled"

\* A router Traefik reads from its files is drawn as well, or a line says that its
\* files or its static configuration were not read.
WiringIsMeasured ==
    (Drawn /\ Steady) =>
        \/ load = <<>> \/ ProvidedRouters \subseteq DrawnRouters
        \/ "file provider" \in frame.banners
        \/ "tree" \in frame.banners /\ info.problem \notin {Unset, "declares no entrypoints"}

\* Follow mode never takes more than half of the wall clock, whatever interval
\* it is told to keep and however long the passes take (next_delay).
PanelTakesHalf == (phase = "pass" /\ pass > 0) => worked <= rested

\* load_config never raises (_Reader: "Reads typed values out of the parsed
\* TOML, and never raises"; a login with a bad value shows a panel).
LoadNeverRaises == ~ cfg.raises

\* A value of the file is used as it is written, a boolean in quotes as the one it names
\* (_FALSE_WORDS: "silently inverts what the file says"), or else reported to --debug
\* (ConfigProblem), for any setting whose accessor reports and any value it can read.
WhatIsUsedIsWritten ==
    (phase # "start" /\ Case.file.state = "toml") =>
        \A name \in DOMAIN Case.file.values :
           LET s == Settings[name]
               r == cfg.read[name]
           IN  SaysTheSame(s, Case.file.values[name], r.value) \/ r.noted \/ r.raises \/ Silent(s)

\* Whatever the files look like, a pass comes to an end and is shown: no chain
\* of links and no listing keeps it (_MAX_SYMLINK_HOPS, MAX_SCANNED_ENTRIES).
PassIsDrawn == (phase = "swarm") ~> (phase \in {"rest", "ended"})
=============================================================================
