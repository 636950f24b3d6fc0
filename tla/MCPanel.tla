------------------------------ MODULE MCPanel ------------------------------
(* Instances of Panel for TLC. *)
EXTENDS Panel

MCDynamic == {"a.yml", "b.yml", "c.yml"}
MCStaticNames == <<"traefik.toml", "traefik.yml">>

-----------------------------------------------------------------------------
(* Documents and file systems.                                             *)

Router(name, entrypoints) == [name |-> name, entrypoints |-> entrypoints]
Provider(path) == [directory |-> TRUE, relative |-> FALSE, path |-> path]
Static(entrypoint, provider) == [entrypoints |-> {entrypoint}, provider |-> provider]
Doc(is, static, routers) == [state |-> is, static |-> static, routers |-> routers]
Statics(entrypoint, provider) == Doc("plain", Static(entrypoint, provider), {})
Dynamics(name) == Doc("plain", NoStatic, {Router(name, {"web"})})

File(doc)  == [kind |-> "file", doc |-> doc, shut |-> FALSE]
Dir(names) == [kind |-> "dir", names |-> names, shut |-> FALSE]
Link(to)   == [kind |-> "link", to |-> to, abs |-> FALSE]
Jump(to)   == [kind |-> "link", to |-> to, abs |-> TRUE]
Shut(node) == [node EXCEPT !.shut = TRUE]

Empty == <<>>

\* The host has /srv/t with what the container may see, and next to it what it
\* may not; the image has a directory for every mount point.
Tree0(t, sub) ==
    "host" :> Dir("srv" :> "srv" @@ "secret" :> "secret") @@ "srv" :> Dir("t" :> "t")
      @@ "t" :> Dir(t) @@ "sub" :> Dir(sub)
      @@ "real" :> Dir("conf" :> "conf" @@ "x" :> "conf" @@ "deep" :> "deep")
      @@ "deep" :> Dir(Empty) @@ "secret" :> File(Statics("secret", <<>>)) @@ "conf" :> File(Statics("web", <<>>))
      @@ "x" :> File(Statics("web", <<>>)) @@ "closed" :> Shut(File(Statics("web", <<>>)))
      @@ "shut" :> Shut(Dir("conf" :> "conf")) @@ "pipe" :> [kind |-> "pipe"]
      @@ "image" :> Dir("etc" :> "etc" @@ "secret" :> "conf")
      @@ "etc" :> Dir("t" :> "hollow") @@ "hollow" :> Dir(Empty)
      @@ "toReal" :> Link(<<"real">>) @@ "toSub" :> Link(<<"sub">>) @@ "toX" :> Link(<<"x">>)
      @@ "upX" :> Link(<<Up, "x">>) @@ "throughDeep" :> Link(<<Up, "toDeep", Up, "x">>)
      @@ "toDeep" :> Link(<<"real", "deep">>) @@ "self" :> Link(<<"conf">>)
      @@ "selfB" :> Link(<<"b.yml">>) @@ "out" :> Link(<<Up, Up, "secret">>)
      @@ "jump" :> Jump(<<"secret">>) @@ "gone" :> Link(<<"nowhere">>)
      @@ "overX" :> Link(<<"x", Up, "x">>) @@ "across" :> Link(<<"sub", "conf">>)
      @@ "around" :> Link(<<"sub", Up, "real", "conf">>)
      @@ "cA" :> File(Dynamics("cA"))

-----------------------------------------------------------------------------
(* Daemons.                                                                *)

Bind(target, source) == [kind |-> "bind", target |-> target, source |-> source]
ConfigAt(target, name) == [kind |-> "config", target |-> target, source |-> name]
Volume(target, inode) == [kind |-> "volume", target |-> target, source |-> inode]

Workload0 ==
    [service |-> FALSE, here |-> TRUE, mounts |-> <<>>, explicit |-> <<>>, workdir |-> <<>>,
     dirs |-> <<>>, flags |-> <<Static("web", <<>>)>>, env |-> <<>>]

Box(routers, w) == [task |-> FALSE, routers |-> routers, load |-> <<w>>]
Service(routers, w) == [routers |-> routers, load |-> w]

Compose(w, events) ==
    [swarm |-> "none", services |-> <<>>, containers |-> <<Box({Router("r", {})}, w)>>,
     configs |-> {}, prefixed |-> {}, changes |-> events]

Manager(w, configs, prefixed) ==
    [swarm |-> "manager", changes |-> {}, configs |-> configs, prefixed |-> prefixed,
     services |-> <<Service({Router("s", {"web"})}, <<>>), Service({}, <<w>>)>>,
     containers |-> <<[task |-> TRUE, routers |-> {}, load |-> <<w>>],
                      [task |-> FALSE, routers |-> {Router("c", {"gone"})}, load |-> <<>>]>>]

Login0 ==
    [tree |-> Tree0(Empty, Empty), daemon |-> Compose(Workload0, {}), faults |-> 0,
     file |-> [state |-> "toml", unknown |-> FALSE, values |-> Empty],
     sections |-> {"traefik"}, present |-> TRUE, follow |-> FALSE, interval |-> <<>>,
     works |-> {0}, api |-> [answers |-> FALSE, reported |-> {}]]

Wires(t, d) == [Login0 EXCEPT !.tree = t, !.daemon = d]

-----------------------------------------------------------------------------
(* A file of a bind mount, through every kind of link, while it changes.   *)

Asks == [Workload0 EXCEPT !.mounts = <<Bind(<<"etc", "t">>, <<"srv", "t">>)>>,
                          !.flags = <<Static("flags", <<>>)>>,
                          !.explicit = <<[relative |-> FALSE,
                                          path |-> <<"etc", "t", "sub", "conf">>]>>]

Subs  == <<"sub", "toReal", "toSub", "jump", "gone", "shut", "pipe", "x", "throughDeep">>
Confs == <<"conf", "toX", "upX", "throughDeep", "self", "out", "jump", "gone", "closed", "pipe",
           "real", "overX">>

LinkTree(sub, conf) ==
    Tree0("sub" :> sub @@ "real" :> "real" @@ "toReal" :> "toReal"
                  @@ "toDeep" :> "toDeep" @@ "x" :> "x",
          "conf" :> conf @@ "x" :> "x")

Event(dir, name, to) == [dir |-> dir, name |-> name, to |-> to]
Events ==
    <<{Event("sub", "conf", "jump")}, {Event("sub", "conf", Absent)},
      {Event("t", "sub", "jump"), Event("sub", "conf", "upX")},
      {Event("t", "sub", "toReal"), Event("sub", "conf", "conf")}, {Event("t", "x", "jump")},
      {Event("sub", "conf", "self")}>>

Links ==
    FlattenSeq([i \in DOMAIN Subs |-> [j \in DOMAIN Confs |->
                   Wires(LinkTree(Subs[i], Confs[j]), Compose(Asks, {}))]])
\* A link that leads through another mount, to a file there or back from there.
Over == [Asks EXCEPT !.mounts = Append(@, Bind(<<"etc", "t", "sub">>, <<"srv", "t", "real">>)),
                     !.explicit = <<[relative |-> FALSE, path |-> <<"etc", "t", "x">>]>>]
Crossings ==
    [i \in 1 .. 2 |->
        Wires(Tree0("sub" :> "sub" @@ "real" :> "real" @@ "x" :> <<"across", "around">>[i],
                    "conf" :> "x"), Compose(Over, {}))]
Deploys ==
    FlattenSeq([j \in DOMAIN Confs |-> [e \in DOMAIN Events |->
                   Wires(LinkTree("sub", Confs[j]), Compose(Asks, Events[e]))]])

-----------------------------------------------------------------------------
(* The file provider's directory: what it lies on, and what lies on it.    *)

Dyn(names) ==
    Tree0("a.yml" :> "dA" @@ "sub" :> "sub", names)
      @@ "dA" :> File(Dynamics("dA")) @@ "dB" :> File(Dynamics("dB"))
      @@ "broken" :> File(Doc("broken", NoStatic, {}))
      @@ "empty" :> File(Doc("empty", NoStatic, {}))
      @@ "templated" :> File(Doc("templated", NoStatic, {Router("t", {"web"})}))
      @@ "vol" :> Dir("b.yml" :> "dB")
DynTrees ==
    <<Dyn("b.yml" :> "dB" @@ "x" :> "x"), Dyn("b.yml" :> "templated" @@ "a.yml" :> "empty"),
      Dyn("b.yml" :> "broken"), Dyn("b.yml" :> "selfB"), Dyn("b.yml" :> "jump"),
      Dyn("b.yml" :> "pipe"), Dyn("b.yml" :> "closed"), Dyn("b.yml" :> "out"),
      Dyn("a.yml" :> "dA" @@ "b.yml" :> "dB" @@ "c.yml" :> "dB"),
      [Dyn("b.yml" :> "dB") EXCEPT !["sub"] = Shut(@)],
      Dyn("b.yml" :> "dB" @@ "u" :> "x" @@ "v" :> "x" @@ "w" :> "x" @@ "x" :> "x"),
      Dyn("back" :> "toSub" @@ "b.yml" :> "upX")>>

At == <<"etc", "t">>
Under0 == Append(At, "sub")
DynMounts ==
    <<<<Bind(At, <<"srv", "t">>)>>, <<Volume(At, "vol")>>, <<Volume(<<"etc">>, "vol")>>, <<>>,
      <<ConfigAt(Append(At, "b.yml"), "cA")>>,
      <<Volume(At, "vol"), ConfigAt(Append(At, "c.yml"), "cA")>>,
      <<Bind(At, <<"srv", "t">>), Volume(Under0, "vol")>>,
      <<Volume(At, "vol"), Bind(Under0, <<"srv", "t", "sub">>)>>,
      <<Bind(At, <<"srv", "t">>), Bind(Append(At, "a.yml"), <<"srv", "t", "sub", "b.yml">>)>>,
      <<Bind(At, <<"srv", "t">>), ConfigAt(Append(Under0, "b.yml"), "cA")>>>>
Providers ==
    <<Provider(At), Provider(Under0), [Provider(<<"t">>) EXCEPT !.relative = TRUE],
      [Provider(Append(At, "a.yml")) EXCEPT !.directory = FALSE]>>

Reads(w, provider, mounts) ==
    [w EXCEPT !.mounts = mounts, !.flags = <<Static("web", <<provider>>)>>,
              !.workdir = IF provider.relative THEN <<<<"etc">>>> ELSE <<>>]

Listings ==
    FlattenSeq([i \in DOMAIN DynMounts |-> FlattenSeq([p \in DOMAIN Providers |->
        FlattenSeq([t \in {1, 2} |-> <<Wires(DynTrees[t],
            Compose(Reads(Workload0, Providers[p], DynMounts[i]), {}))>>])])])
      \o [t \in DOMAIN DynTrees |->
             Wires(DynTrees[t], Compose(Reads(Workload0, Provider(At), DynMounts[1]), {}))]
      \o [p \in {1, 2} |-> Wires(DynTrees[1],
             Compose([Reads(Workload0, Providers[3], DynMounts[p]) EXCEPT !.workdir = <<>>], {}))]

-----------------------------------------------------------------------------
(* Where the static configuration is, on a Swarm with its faults.          *)

InSwarm == [Workload0 EXCEPT !.service = TRUE]
Searching(w, dirs, mounts) == [w EXCEPT !.dirs = dirs, !.mounts = mounts]
EtcT == <<At, Under0>>
Loads ==
    <<InSwarm, [InSwarm EXCEPT !.flags = <<>>, !.env = <<Static("env", <<>>)>>],
      [InSwarm EXCEPT !.flags = <<>>],
      Searching(InSwarm, EtcT, <<Volume(At, "vol")>>),
      Searching(InSwarm, EtcT, <<Bind(At, <<"srv", "t">>)>>),
      [Searching(InSwarm, EtcT, <<Bind(At, <<"srv", "t">>)>>) EXCEPT !.here = FALSE],
      Searching(InSwarm, EtcT, <<ConfigAt(Append(At, "traefik.yml"), "cS"),
                                 ConfigAt(Append(At, "a.yml"), "cA")>>),
      [InSwarm EXCEPT !.explicit = <<[relative |-> FALSE, path |-> <<"own">>]>>],
      [InSwarm EXCEPT !.explicit = <<[relative |-> TRUE, path |-> <<"own">>]>>],
      [Reads(InSwarm, Provider(At), DynMounts[1]) EXCEPT !.here = FALSE],
      Reads(InSwarm, Provider(At), DynMounts[10])>>
SwarmTree(names) == Dyn(names) @@ "cS" :> File(Statics("web", <<Provider(At)>>))
SwarmTrees ==
    <<SwarmTree("traefik.yml" :> "conf"),
      [SwarmTree("traefik.toml" :> "gone") EXCEPT !["t"].names = @ @@ "traefik.yml" :> "conf"],
      SwarmTree(Empty)>>
ConfigSets == <<<<{"cA", "cS"}, {"cA"}>>, <<{"cS"}, {}>>>>

Swarms ==
    FlattenSeq([w \in DOMAIN Loads |-> FlattenSeq([t \in DOMAIN SwarmTrees |->
        [c \in DOMAIN ConfigSets |->
            [Wires(SwarmTrees[t], Manager(Loads[w], ConfigSets[c][1], ConfigSets[c][2]))
                EXCEPT !.faults = 2]]])])

\* A worker, whose Traefik is a task, or a container of its own; and a host on
\* which nothing matches.
Worker == [Manager(InSwarm, {"cA"}, {"cA"}) EXCEPT !.swarm = "worker"]
Quiet  == [Compose(Workload0, {}) EXCEPT
              !.containers = <<[task |-> FALSE, routers |-> {Router("r", {})}, load |-> <<>>]>>]
Others ==
    [k \in 1..4 |->
        [Wires(SwarmTrees[1], <<Worker, [Worker EXCEPT !.containers = Quiet.containers], Quiet,
                                [Quiet EXCEPT !.swarm = "manager", !.configs = {"cA"}]>>[k])
            EXCEPT !.faults = 2]]

-----------------------------------------------------------------------------
(* Follow mode, and the configuration.                                     *)

Section(values) == [state |-> "toml", unknown |-> FALSE, values |-> values]
Follows ==
    [k \in 1..4 |->
        [Login0 EXCEPT !.follow = TRUE, !.works = {0, 10, 25, 300}, !.faults = 1,
            !.present = k # 4,
            !.interval = IF k = 1 THEN <<0>> ELSE IF k = 2 THEN <<30>> ELSE <<>>,
            !.sections = IF k = 3 THEN {"health"} ELSE IF k = 4 THEN {} ELSE {"server"},
            !.file = Section("follow.health_interval" :> Num(35) @@ "follow.interval" :> Num(5))]]

Raws ==
    <<Num(-1), Num(0), Num(7), Num(90), Half(-1), Half(7), NotANumber, Bool(TRUE),
      Word("yes"), Word("off"), Word("docker"), Word("http"), Word("http://host"), Word(""),
      Digits(1), Digits(0),
      Digits(-7), Digits(90), List(<<>>), List(<<Word("docker"), Word("docker"), Word("x")>>),
      List(<<Word(""), Num(1)>>), Words(<<"server", "traefik">>), Dict>>
Wild == <<Infinite, Huge, Word("http://[")>>

\* A file that gives every setting the same value.
Values(raws) ==
    [j \in DOMAIN raws |->
        [Login0 EXCEPT !.sections = {}, !.present = FALSE,
                       !.file = Section([name \in DOMAIN Settings |-> raws[j]])]]
Files ==
    [k \in 1..5 |->
        [Login0 EXCEPT !.sections = {}, !.present = k # 1,
            !.file = [state |-> <<"absent", "unreadable", "toml", "toml", "not UTF-8">>[k],
                      unknown |-> k = 3,
                      values |-> IF k = 4 THEN "traefik.match" :> List(<<>>)
                                                @@ "sections" :> Words(<<"traefik">>)
                                 ELSE Empty]]]

-----------------------------------------------------------------------------
\* An API that answers for the routers it knows.
Consulted ==
    <<[Login0 EXCEPT !.api = [answers |-> TRUE,
                              reported |-> {[name |-> "r", status |-> "disabled"]}]],
      [Login0 EXCEPT !.api = [answers |-> TRUE,
                              reported |-> {[name |-> "r", status |-> "enabled"]}]],
      [Login0 EXCEPT !.api = [answers |-> TRUE, reported |-> {}]]>>

MCLogins == Links \o Crossings \o Deploys \o Listings \o Swarms \o Others \o Follows \o Consulted \o Files
              \o Values(Raws)

\* Every value, the wild ones among them.
MCConfigLogins == Values(Raws \o Wild) \o Files
=============================================================================
