------------------------------- MODULE Mounts -------------------------------
(***************************************************************************)
(* collectors/traefik_mounts.py: what a path in the Traefik container is,   *)
(* whether it can be read on this node, and how it is read.                *)
(*                                                                         *)
(* A file of a bind mount is resolved below the mount's source, one         *)
(* component at a time, and then opened again one component at a time;     *)
(* what lies there may change between any two of these calls.              *)
(*                                                                         *)
(* A path is the sequence of its components.  `tree` maps inodes to files, *)
(* directories, links and what is none of these; the host and the image    *)
(* of the container each have a root in it.                                *)
(***************************************************************************)
EXTENDS Integers, FiniteSets, SequencesExt

CONSTANTS
    HostRoot, ImageRoot,    \* inodes
    Dynamic,                \* the names format_of knows
    MaxHops,                \* _MAX_SYMLINK_HOPS, and the kernel's own limit
    MaxProviderFiles,       \* MAX_PROVIDER_FILES
    MaxScannedEntries,      \* MAX_SCANNED_ENTRIES
    MaxLink,                \* components of the longest link (cf. PATH_MAX)
    MaxSteps                \* directories a walk of the model may list

ASSUME MountsAssumption ==
    /\ MaxHops \in Nat /\ MaxLink \in Nat /\ MaxSteps \in Nat
    /\ MaxProviderFiles \in Nat /\ MaxScannedEntries \in Nat

VARIABLES
    tree,       \* the file systems
    changes,    \* what may still happen to them, in any order: [dir, name, to]
    read,       \* the read that is under way
    below       \* history: what lay below the source of its mount, by directories

fileVars == <<tree, changes, read, below>>

Up     == ".."
Absent == "absent"
Fine   == "fine"
None   == "none"     \* no inode
NoMount == 0

\* A tree has its roots, every name in a directory stands for something, and a link
\* is no longer than a link can be.
IsTree(t) ==
    /\ IsFiniteSet(DOMAIN t) /\ {HostRoot, ImageRoot} \subseteq DOMAIN t
    /\ {None, Absent} \cap DOMAIN t = {}
    /\ \A i \in DOMAIN t :
          /\ t[i].kind = "dir" => /\ DOMAIN t[i] = {"kind", "names", "shut"}
                                  /\ IsFiniteSet(DOMAIN t[i].names)
                                  /\ DOMAIN t[i].names \subseteq STRING
                                  /\ Range(t[i].names) \subseteq DOMAIN t
          /\ t[i].kind = "link" => /\ t[i].to \in Seq(STRING) /\ Len(t[i].to) <= MaxLink
                                   /\ t[i].abs \in BOOLEAN

\* One step after another over a sequence, and n of them; what a step leaves is
\* a set of one value, so that TLC takes each step once.
Through(Op(_, _), x, seq) ==
    LET after[i \in 0 .. Len(seq)] ==
            IF i = 0 THEN {x} ELSE {Op(y, seq[i]) : y \in after[i - 1]}
    IN  CHOOSE y \in after[Len(seq)] : TRUE
Iterate(Op(_), x, n) ==
    LET after[i \in 0 .. n] == IF i = 0 THEN {x} ELSE {Op(y) : y \in after[i - 1]}
    IN  CHOOSE y \in after[n] : TRUE
Given(x, Op(_)) == CHOOSE y \in {Op(z) : z \in {x}} : TRUE

-----------------------------------------------------------------------------
(* The kernel (external). A walk has where it is, as the names and inodes  *)
(* from its root; the components that are left; and how many links it      *)
(* followed. `points` are the mount points of the root's own name space.   *)

Physical(at) == [i \in 1 .. Len(at) - 1 |-> at[i + 1].name]
Here(w) == Last(w.at).inode

Child(t, points, at, name) ==
    LET over  == {p \in points : p.target = Append(Physical(at), name)}
        names == t[Last(at).inode].names
    IN  IF over # {} THEN (CHOOSE p \in over : TRUE).root
        ELSE IF name \in DOMAIN names THEN names[name] ELSE Absent

\* The next component is what `child` says it is.
Entered(t, w, name, child) ==
    IF child = Absent THEN [w EXCEPT !.err = "missing"]
    ELSE IF t[child].kind # "link"
    THEN [w EXCEPT !.rest = Tail(@), !.at = Append(@, [name |-> name, inode |-> child])]
    ELSE IF w.hops = MaxHops THEN [w EXCEPT !.err = "loop"]
    ELSE [w EXCEPT !.rest = t[child].to \o Tail(@), !.hops = @ + 1,
                   !.at   = IF t[child].abs THEN <<Head(@)>> ELSE @,
                   !.left = @ \/ t[child].abs]

KernelStep(t, points, login, w) ==
    IF w.rest = <<>> \/ w.err # Fine THEN w
    ELSE IF t[Here(w)].kind # "dir" THEN [w EXCEPT !.err = "not a directory"]
    ELSE IF login /\ t[Here(w)].shut THEN [w EXCEPT !.err = "denied"]
    ELSE IF Head(w.rest) = Up
    THEN [w EXCEPT !.rest = Tail(@), !.at = IF Len(@) = 1 THEN @ ELSE Front(@),
                   !.left = @ \/ Len(w.at) <= w.base]
    ELSE Entered(t, w, Head(w.rest), Child(t, points, w.at, Head(w.rest)))

\* A walk of so many components has ended after as many steps: each link puts its
\* target in front of the rest, and MaxHops of them are followed.
Steps(path) == Len(path) + MaxHops * MaxLink

\* `left`: the walk went through what is not below where it began.
SetOut(at, path) ==
    [at |-> at, rest |-> path, hops |-> 0, err |-> Fine, left |-> FALSE, base |-> Len(at)]
Kernel(t, points, login, at, path) ==
    Iterate(LAMBDA w : KernelStep(t, points, login, w), SetOut(at, path), Steps(path))

RootAt(inode) == <<[name |-> "/", inode |-> inode]>>
OnHost(t, path) == Kernel(t, {}, TRUE, RootAt(HostRoot), path)
AsRoot(t, path) == Kernel(t, {}, FALSE, RootAt(HostRoot), path)

\* The container's name space: the daemon, as root, resolved the source of a bind on
\* the host; a config, a volume or a tmpfs has an inode of its own.
MountRoot(t, mount) ==
    IF mount.kind = "bind" THEN Here(AsRoot(t, mount.source)) ELSE mount.source
Points(t, mounts) ==
    {[target |-> mounts[i].target, root |-> MountRoot(t, mounts[i])] : i \in DOMAIN mounts}
InImage(t, points, path) == Kernel(t, points, FALSE, RootAt(ImageRoot), path)

-----------------------------------------------------------------------------
(* Where a path comes from. *)

\* _covers, and a config is one file.
Matches(mount, path) ==
    IF mount.kind = "config" THEN path = mount.target ELSE IsPrefix(mount.target, path)

\* locate: the longest target, of two the first; `rest` is below the source.
Beyond(mounts, i, path) == SubSeq(path, Len(mounts[i].target) + 1, Len(path))
Locate(mounts, path) ==
    LET covering == {i \in DOMAIN mounts : Matches(mounts[i], path)}
        best == CHOOSE i \in covering : \A j \in covering :
                    \/ Len(mounts[i].target) > Len(mounts[j].target)
                    \/ Len(mounts[i].target) = Len(mounts[j].target) /\ i <= j
    IN  IF covering = {} THEN [path |-> path, mount |-> NoMount, rest |-> <<>>]
        ELSE [path |-> path, mount |-> best, rest |-> Beyond(mounts, best, path)]

\* The kernel in the container (external), from the mount that a path lies on; and as
\* it would be if no mount lay over anything on the way from there.
FromMount(t, points, over, mounts, located) ==
    IF located.mount = NoMount THEN InImage(t, points, located.path)
    ELSE Kernel(t, over, FALSE, InImage(t, points, mounts[located.mount].target).at,
                located.rest)
InContainer(t, mounts, path) ==
    Given(Points(t, mounts),
          LAMBDA points : FromMount(t, points, points, mounts, Locate(mounts, path)))
Uncovered(t, mounts, path) ==
    Given(Points(t, mounts),
          LAMBDA points : FromMount(t, points, {}, mounts, Locate(mounts, path)))

\* The daemon starts no container but with each mount where it belongs, over what its
\* source is; a config is a file.  (Of a container elsewhere the tree is that host's,
\* and nothing of it is looked at.)
IsMounted(t, mounts) ==
    /\ Len(mounts) \in Nat /\ DOMAIN mounts = 1 .. Len(mounts)
    /\ \A i \in DOMAIN mounts :
       LET m == mounts[i]
           w == InImage(t, Points(t, mounts), m.target)
       IN  /\ m.target \in Seq(STRING)
           /\ IF m.kind = "bind" THEN m.source \in Seq(STRING) /\ AsRoot(t, m.source).err = Fine
              ELSE m.source \in DOMAIN t
           /\ m.kind = "config" => t[m.source].kind = "file"
           /\ w.err = Fine /\ Here(w) = MountRoot(t, m)

-----------------------------------------------------------------------------
(* _resolve_components and _open_below_root, one call of the system each.  *)

Idle == [at |-> "idle"]

Reading(source, rest) ==
    [at |-> "lstat", source |-> source, pending |-> rest, resolved |-> <<>>, hops |-> 0,
     dir |-> None, got |-> None, why |-> Fine]

Refuse(r, why) == [r EXCEPT !.at = "done", !.why = why]

\* What the host finds at the candidate: a name below what is resolved by now.
NameIn(t, w, name) ==
    IF w.err # Fine THEN [inode |-> Absent, err |-> w.err]
    ELSE IF t[Here(w)].kind # "dir" THEN [inode |-> Absent, err |-> "not a directory"]
    ELSE IF t[Here(w)].shut THEN [inode |-> Absent, err |-> "denied"]
    ELSE IF name \notin DOMAIN t[Here(w)].names THEN [inode |-> Absent, err |-> "missing"]
    ELSE [inode |-> t[Here(w)].names[name], err |-> Fine]
Candidate(t, r) == NameIn(t, OnHost(t, r.source \o r.resolved), Head(r.pending))

\* mutant: `..` is undone before the link in front of it is looked at.
Lexical(path) ==
    FoldLeft(LAMBDA p, c : IF c = Up /\ p # <<>> /\ Last(p) # Up THEN Front(p) ELSE Append(p, c),
             <<>>, path)
Inserted_Lexically(to, pending) == Lexical(to \o pending)

\* The target of a relative link takes the link's place.
Inserted(to, pending) == to \o pending

\* _lstat_or_defer: a missing last component is left to the open.
Lstat(t, r, at) ==
    LET name == Head(r.pending)
        took == [r EXCEPT !.pending = Tail(@), !.resolved = Append(@, name)]
    IN  IF name = Up
        THEN IF r.resolved = <<>> THEN Refuse(r, "outside")
             ELSE [r EXCEPT !.pending = Tail(@), !.resolved = Front(@)]
        ELSE IF at.err = "missing"
        THEN IF Len(r.pending) = 1 THEN took ELSE Refuse(r, "missing component")
        ELSE IF at.err # Fine THEN Refuse(r, at.err)
        ELSE IF t[at.inode].kind = "link" THEN [r EXCEPT !.at = "readlink"]
        ELSE took

\* mutant: the links on the way are not counted.
Readlink_Uncounted(t, r, at) ==
    IF at.err # Fine \/ t[at.inode].kind # "link" THEN Refuse(r, "changed")
    ELSE IF t[at.inode].abs THEN Refuse(r, "absolute")
    ELSE [r EXCEPT !.at = "lstat", !.pending = Inserted(t[at.inode].to, Tail(@))]

\* _symlink_hop_components; what is no link any more is an error of the system.
Readlink(t, r, at) ==
    IF r.hops = MaxHops THEN Refuse(r, "loop")
    ELSE IF at.err # Fine \/ t[at.inode].kind # "link" THEN Refuse(r, "changed")
    ELSE IF t[at.inode].abs THEN Refuse(r, "absolute")
    ELSE [r EXCEPT !.at = "lstat", !.hops = @ + 1,
                   !.pending = Inserted(t[at.inode].to, Tail(@))]

ResolveStep(t, r) ==
    IF r.at = "lstat" /\ r.pending = <<>> THEN [r EXCEPT !.at = "open"]
    ELSE IF r.at = "lstat" THEN Lstat(t, r, Candidate(t, r))
    ELSE IF r.at = "readlink" THEN Readlink(t, r, Candidate(t, r))
    ELSE r

\* mutant: a component that became a link since is followed.
OpenedAs_Follow(t, child) ==
    IF t[child].kind = "link" /\ t[child].abs
    THEN Given(OnHost(t, t[child].to), LAMBDA w : IF w.err = Fine THEN Here(w) ELSE child)
    ELSE child

\* O_NOFOLLOW: the name in the directory opened just before, whatever it is.
OpenedAs(t, child) == child

\* _read_host_file: only a regular file is read.
Took(t, r, inode) ==
    IF t[inode].kind = "file" /\ t[inode].shut THEN Refuse(r, "denied")
    ELSE IF t[inode].kind # "file" THEN Refuse(r, "not a regular file")
    ELSE [r EXCEPT !.at = "done", !.got = inode]

\* _open_component, _became_symlink
OpenComponent(t, r, child) ==
    IF t[child].kind = "link" THEN Refuse(r, "changed to a symlink")
    ELSE IF Len(r.resolved) = 1 THEN Took(t, r, child)
    ELSE [r EXCEPT !.dir = child, !.resolved = Tail(@)]

\* _open_below_root, in the directory that is open.
OpenIn(t, r, dir) ==
    IF t[dir].kind # "dir" THEN Refuse(r, "not a directory")
    ELSE IF t[dir].shut THEN Refuse(r, "denied")
    ELSE IF Head(r.resolved) \notin DOMAIN t[dir].names THEN Refuse(r, "missing")
    ELSE OpenComponent(t, r, OpenedAs(t, t[dir].names[Head(r.resolved)]))

OpenRoot(t, r, root) ==
    IF root.err # Fine THEN Refuse(r, root.err)
    ELSE IF r.resolved = <<>> THEN Took(t, r, Here(root))
    ELSE OpenIn(t, r, Here(root))

OpenStep(t, r) ==
    IF r.dir = None THEN OpenRoot(t, r, OnHost(t, r.source)) ELSE OpenIn(t, r, r.dir)

\* What lies at the source of a mount, if anything does.
Sources(t, source) == {Here(w) : w \in {v \in {OnHost(t, source)} : v.err = Fine}}

\* Everything reachable from `inodes` through directories: in as many rounds as there
\* are inodes each is found.
WithEntries(t, S) == S \cup UNION {Range(t[i].names) : i \in {j \in S : t[j].kind = "dir"}}
Closure(t, inodes) ==
    LET found[n \in 0 .. Cardinality(DOMAIN t)] ==
            IF n = 0 THEN {inodes} ELSE {WithEntries(t, S) : S \in found[n - 1]}
    IN  UNION found[Cardinality(DOMAIN t)]

BeginRead(source, rest) ==
    /\ read' = Reading(source, rest)
    /\ below' = Closure(tree, Sources(tree, source))

InProgress == read.at \in {"lstat", "readlink", "open"}

ReadStep ==
    /\ InProgress
    /\ read' = IF read.at = "open" THEN OpenStep(tree, read) ELSE ResolveStep(tree, read)
    /\ UNCHANGED <<tree, changes, below>>

\* Somebody deploys (external): a name in a directory becomes something else, and the
\* source of the mount with it.
Change ==
    \E c \in changes :
       /\ changes' = changes \ {c}
       /\ tree' = [tree EXCEPT ![c.dir].names =
                     [n \in (DOMAIN @ \cup {c.name}) \ (IF c.to = Absent THEN {c.name} ELSE {}) |->
                        IF n = c.name THEN c.to ELSE @[n]]]
       /\ below' = IF InProgress THEN Closure(tree', below \cup Sources(tree', read.source))
                    ELSE below
       /\ UNCHANGED read

-----------------------------------------------------------------------------
(* presence: whether a file is there, as far as this node can tell. *)

Resolved(t, source, rest) ==
    Iterate(LAMBDA r : ResolveStep(t, r), Reading(source, rest), 2 * Steps(rest) + 1)

\* _bind_presence
Stat(w) == IF w.err = "missing" THEN "absent" ELSE IF w.err # Fine THEN "unknown" ELSE "present"
BindPresence(t, source, rest) ==
    Given(Resolved(t, source, rest),
          LAMBDA r : IF r.at = "open" THEN Stat(OnHost(t, source \o r.resolved))
                     ELSE IF r.why = "missing component" THEN "absent" ELSE "unknown")

\* mutant: a directory whose mount cannot be looked into holds no such file.
Presence_Absent(t, mounts, located, isHere) ==
    LET mount == mounts[located.mount]
    IN  IF mount.kind = "config" \/ (mount.kind = "bind" /\ located.rest = <<>>) THEN "present"
        ELSE IF mount.kind # "bind" \/ ~ isHere THEN "absent"
        ELSE BindPresence(t, mount.source, located.rest)

Presence(t, mounts, located, isHere) ==
    LET mount == mounts[located.mount]
    IN  IF mount.kind = "config" \/ (mount.kind = "bind" /\ located.rest = <<>>) THEN "present"
        ELSE IF mount.kind # "bind" \/ ~ isHere THEN "unknown"
        ELSE BindPresence(t, mount.source, located.rest)

-----------------------------------------------------------------------------
(* provider_files: the files Traefik's file provider reads in a directory,  *)
(* taken as one step.  A walk has the directories it has left; what it     *)
(* found; and what it could not list.                                      *)

NoScan == [found |-> {}, notes |-> {}, entries |-> 0, spent |-> FALSE]

Note(s, why) == [s EXCEPT !.notes = @ \cup {why}]

OnSource(mounts, i, path) == mounts[i].source \o Beyond(mounts, i, path)

\* _walked_file: resolved against the bind source, not against the walk's top.
TakenFile(t, mounts, i, path, s, w) ==
    IF w.err # Fine THEN Note(s, w.err)
    ELSE IF t[Here(w)].kind # "file" THEN Note(s, "not a regular file")
    ELSE IF Locate(mounts, path).mount # i THEN s
    ELSE [s EXCEPT !.found = @ \cup {Locate(mounts, path)}]
WalkedFile(t, mounts, i, path, s) ==
    IF Last(path) \notin Dynamic THEN s
    ELSE Given(Resolved(t, mounts[i].source, Beyond(mounts, i, path)),
               LAMBDA r : IF r.at # "open" THEN Note(s, r.why)
                          ELSE TakenFile(t, mounts, i, path, s,
                                         OnHost(t, mounts[i].source \o r.resolved)))

\* _entries_of: a link to a directory counts as one, and is not walked.
Listing(t, names, source) ==
    LET dirs == {n \in names : Given(OnHost(t, source \o <<n>>),
                                     LAMBDA w : w.err = Fine /\ t[Here(w)].kind = "dir")}
    IN  [files |-> names \ dirs, dirs |-> dirs]

\* _walk_tree, _walk: one directory, whose listing is within the budget.
WalkDir(t, mounts, i, v, names, listing) ==
    LET walked  == SetToSeq({n \in listing.dirs : t[names[n]].kind # "link"})
        counted == [v.scan EXCEPT !.entries = @ + Cardinality(DOMAIN names)]
    IN  [v EXCEPT
            !.todo = [k \in DOMAIN walked |-> Append(Head(v.todo), walked[k])] \o Tail(@),
            !.scan = Through(LAMBDA s, n : WalkedFile(t, mounts, i, Append(Head(v.todo), n), s),
                             counted, SetToSeq(listing.files))]

WalkAt(t, mounts, i, v, w) ==
    LET node == t[Here(w)]
    IN  IF w.err # Fine \/ node.kind # "dir" \/ node.shut
        THEN [todo |-> <<>>, kept |-> v.kept,
              scan |-> Note([v.scan EXCEPT !.found = v.kept], "not listed")]
        ELSE IF v.scan.entries + Cardinality(DOMAIN node.names) > MaxScannedEntries
        THEN [v EXCEPT !.todo = <<>>,
                       !.scan = Note([v.scan EXCEPT !.spent = TRUE], "walk stopped")]
        ELSE Given(Listing(t, DOMAIN node.names, OnSource(mounts, i, Head(v.todo))),
                   LAMBDA listing : WalkDir(t, mounts, i, v, node.names, listing))

WalkStep(t, mounts, i, v) ==
    IF v.todo = <<>> \/ v.scan.spent \/ Cardinality(v.scan.found) > MaxProviderFiles THEN v
    ELSE WalkAt(t, mounts, i, v, OnHost(t, OnSource(mounts, i, Head(v.todo))))

Walk(t, mounts, i, top, s) ==
    Iterate(LAMBDA v : WalkStep(t, mounts, i, v),
            [todo |-> <<top>>, scan |-> s, kept |-> s.found], MaxSteps).scan

\* _nested_bind_files
NestedBind(t, mounts, i, isHere, s) ==
    IF ~ isHere THEN Note(s, "not readable on this node")
    ELSE Given(OnHost(t, mounts[i].source),
               LAMBDA w :
                 IF w.err # Fine THEN Note(s, w.err)
                 ELSE IF t[Here(w)].kind # "dir" THEN s
                 ELSE Walk(t, mounts, i, mounts[i].target, s))

\* _covering_bind_files: a more specific mount lists itself.
CoveringBind(t, mounts, i, directory, isHere, s) ==
    IF Locate(mounts, directory).mount # i THEN s
    ELSE IF ~ isHere THEN Note(s, "not readable on this node")
    ELSE Walk(t, mounts, i, directory, s)

\* _files_from_mount
FilesFromMount(t, mounts, i, directory, isHere, s) ==
    LET mount  == mounts[i]
        inside == IsStrictPrefix(directory, mount.target)
        one    == [s EXCEPT !.found = @ \cup {Locate(mounts, mount.target)}]
    IN  IF inside /\ mount.kind \in {"config", "bind"} /\ Last(mount.target) \in Dynamic THEN one
        ELSE IF mount.kind = "config" THEN s
        ELSE IF mount.kind # "bind" THEN (IF inside THEN Note(s, "unreadable mount") ELSE s)
        ELSE IF inside THEN NestedBind(t, mounts, i, isHere, s)
        ELSE IF IsPrefix(mount.target, directory)
        THEN CoveringBind(t, mounts, i, directory, isHere, s)
        ELSE s

\* mutant: what the directory itself lies on is not asked.
OwnerNotes_None(mounts, directory) == {}

\* _owner_note, _unmounted_note
OwnerNotes(mounts, directory) ==
    LET owner == Locate(mounts, directory).mount
    IN  IF owner # NoMount
        THEN IF mounts[owner].kind \in {"bind", "config"} THEN {} ELSE {"unreadable mount"}
        ELSE IF \E i \in DOMAIN mounts : IsPrefix(directory, mounts[i].target) THEN {}
        ELSE {"not mounted"}

\* _capped
Capped(found) ==
    LET ordered == SetToSeq(found)
    IN  IF Cardinality(found) <= MaxProviderFiles THEN ordered
        ELSE SubSeq(ordered, 1, MaxProviderFiles)

Scanned(t, mounts, directory, isHere) ==
    Through(LAMBDA s, i : FilesFromMount(t, mounts, i, directory, isHere, s),
            NoScan, [i \in DOMAIN mounts |-> i])

\* One file, or the whole directory.
ProviderFiles(t, mounts, provider, isHere) ==
    IF ~ provider.directory
    THEN [files |-> <<Locate(mounts, provider.path)>>, notes |-> {}]
    ELSE Given(Scanned(t, mounts, provider.path, isHere),
               LAMBDA scan :
                 [files |-> Capped(scan.found),
                  notes |-> scan.notes \cup OwnerNotes(mounts, provider.path)
                              \cup (IF Cardinality(scan.found) > MaxProviderFiles
                                    THEN {"rest not read"} ELSE {})])

-----------------------------------------------------------------------------
(* What Traefik reads itself (external): it lists the directory, and those *)
(* below it that are no links, in its own name space.                       *)

EntriesAt(t, points, at) ==
    DOMAIN t[Last(at).inode].names
      \cup {Last(p.target) :
              p \in {q \in points : q.target # <<>> /\ Front(q.target) = Physical(at)}}

BelowInContainer(t, points, ats) ==
    ats \cup {Append(x[1], [name |-> x[2], inode |-> Child(t, points, x[1], x[2])]) :
                x \in UNION {{a} \X EntriesAt(t, points, a) :
                               a \in {b \in ats : t[Last(b).inode].kind = "dir"}}}

EntriesBelow(t, points, top) ==
    IF top.err # Fine THEN {}
    ELSE Iterate(LAMBDA S : BelowInContainer(t, points, S), {top.at}, MaxSteps)

Regular(t, w) == w.err = Fine /\ t[Here(w)].kind = "file"

\* The dynamic files of a directory that are regular files, with their names
\* below the directory as it was asked for; or the one file.
Provided(t, mounts, provider) ==
    LET in(points, top) ==
            {[inode |-> Here(w)] : w \in
                {v \in {Kernel(t, points, FALSE, Front(a), <<Last(a).name>>) :
                           a \in {b \in EntriesBelow(t, points, top) : Last(b).name \in Dynamic}} :
                   Regular(t, v)}}
        one(w) == IF Regular(t, w) THEN {[inode |-> Here(w)]} ELSE {}
    IN  IF provider.directory
        THEN Given(Points(t, mounts), LAMBDA points :
                in(points, InImage(t, points, provider.path)))
        ELSE one(InContainer(t, mounts, provider.path))

-----------------------------------------------------------------------------
(* Properties. *)

\* What is read lies below the source of its mount, or did when the read began
\* or later (_open_below_root: "what was checked is what is read"), whoever
\* puts links in the way between the two (traefik_mounts.py:348, 392).
NeverOutside == (read.at = "done" /\ read.got # None) => read.got \in below
=============================================================================
