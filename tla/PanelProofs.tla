---------------------------- MODULE PanelProofs ----------------------------
(***************************************************************************)
(* Theorems about Panel, for any files, daemons, failures, durations and   *)
(* deployments: what the configuration is worth; what is drawn of what     *)
(* Docker declares; how much of the wall clock follow mode takes; that no  *)
(* read leaves the mount it began in; that it finds what the kernel finds  *)
(* in the container; and that the static configuration is Traefik's.       *)
(***************************************************************************)
EXTENDS Panel, FiniteSetTheorems, FunctionTheorems, SequenceTheorems, TLAPS

-----------------------------------------------------------------------------
(* The settings.                                                           *)

Accessors ==
    {"number", "optional", "integer", "flag", "text", "choice", "patterns", "members",
     "list", "kinds", "url", "link"}

\* What holds of every row of a table, and of the two that are the interval of a run.
IsRow(r) ==
    /\ r[2].accessor \in Accessors
    /\ r[1] = "follow.interval" => r[2] = AtLeast(1, 50)
    /\ r[1] = "follow.health_interval" => r[2] = AtLeast(1, 200)

LEMMA TableRows == \A r \in Table : IsRow(r)
<1>1. /\ \A a, d : Of(a, d).accessor = a
      /\ \A n, d : AtLeast(n, d).accessor = "number"
      /\ \A n, d : Optional(n, d).accessor = "optional"
      /\ \A n, d : WholeFrom(n, d).accessor = "integer"
      /\ \A n, d : ClampedTo(n, d).accessor = "integer"
  BY DEF Of, AtLeast, Optional, WholeFrom, ClampedTo
<1>2. /\ \A n : Plain(n).accessor = "number"
      /\ \A w : OneOf(w).accessor = "choice"
      /\ \A w, d : SomeOf(w, d).accessor = "members"
  BY DEF Of, Plain, OneOf, SomeOf
<1>3. \A r \in Thresholds : IsRow(r)
  BY <1>1, <1>2 DEF Thresholds, IsRow, Accessors
<1>4. \A r \in HostKinds : IsRow(r)
  BY <1>1, <1>2 DEF HostKinds, IsRow, Accessors
<1>5. \A r \in Timeouts : IsRow(r)
  BY <1>1, <1>2 DEF Timeouts, IsRow, Accessors
<1>6. \A r \in Probes : IsRow(r)
  BY <1>1, <1>2 DEF Probes, IsRow, Accessors
<1>7. \A r \in HealthKeys : IsRow(r)
  <2>1. \A r \in HealthKeys :
           \/ r[1] = "health.budget" /\ r[2] = AtLeast(1, 80)
           \/ r[1] = "health.enabled" /\ r[2] = Of("kinds", Words(HealthKinds))
           \/ r \in Timeouts \/ r \in Probes \/ r \in HostKinds
    BY DEF HealthKeys
  <2> QED BY <1>1, <1>4, <1>5, <1>6, <2>1 DEF IsRow, Accessors
<1>8. \A r \in Managed : IsRow(r)
  BY <1>1 DEF Managed, IsRow, Accessors
<1>9. \A r \in DockerKeys : IsRow(r)
  BY <1>1 DEF DockerKeys, IsRow, Accessors
<1>10. \A r \in HostKeys : IsRow(r)
  BY <1>1, <1>2 DEF HostKeys, IsRow, Accessors
<1>11. ASSUME NEW r \in Table  PROVE IsRow(r)
  <2>1. \/ r[1] = "width" /\ r[2] = WholeFrom(20, 80)
        \/ r[1] = "sections" /\ r[2] = SomeOf(SectionNames, List(<<>>))
        \/ r[1] = "follow.interval" /\ r[2] = AtLeast(1, 50)
        \/ r[1] = "follow.health_interval" /\ r[2] = AtLeast(1, 200)
        \/ r \in DockerKeys \/ r \in HostKeys \/ r \in Thresholds \/ r \in HealthKeys
        \/ r \in Managed
    BY DEF Table
  <2> QED BY <1>1, <1>2, <1>3, <1>7, <1>8, <1>9, <1>10, <2>1 DEF IsRow, Accessors
<1> QED BY <1>11

\* Every setting has an accessor, and the two intervals are numbers with a minimum.
LEMMA SettingRows ==
  /\ \A name \in DOMAIN Settings : Settings[name].accessor \in Accessors
  /\ Settings["follow.interval"] = AtLeast(1, 50)
  /\ Settings["follow.health_interval"] = AtLeast(1, 200)
<1> DEFINE row(name) == CHOOSE r \in Table : r[1] = name
<1>1. DOMAIN Settings = {r[1] : r \in Table}
  BY DEF Settings, Named
<1>2. ASSUME NEW name \in DOMAIN Settings
      PROVE  row(name) \in Table /\ row(name)[1] = name /\ Settings[name] = row(name)[2]
  <2>1. \E r \in Table : r[1] = name
    BY <1>1
  <2>2. row(name) \in Table /\ row(name)[1] = name
    BY <2>1
  <2>3. Settings[name] = row(name)[2]
    BY <1>1 DEF Settings, Named
  <2> QED BY <2>2, <2>3
<1>3. "follow.interval" \in DOMAIN Settings /\ "follow.health_interval" \in DOMAIN Settings
  <2> DEFINE a == <<"follow.interval", AtLeast(1, 50)>>
             b == <<"follow.health_interval", AtLeast(1, 200)>>
  <2>1. a \in Table /\ b \in Table
    BY DEF Table
  <2>2. a[1] = "follow.interval" /\ b[1] = "follow.health_interval"
    OBVIOUS
  <2> HIDE DEF a, b
  <2> QED BY <1>1, <2>1, <2>2
<1> HIDE DEF row
<1>4. \A name \in DOMAIN Settings : IsRow(row(name))
  BY <1>2, TableRows
<1> QED BY <1>2, <1>3, <1>4 DEF IsRow

\* A setting says what the file says of it, or is reported.
Written(s, raw, r) == SaysTheSame(s, raw, r.value) \/ r.noted \/ r.raises \/ Silent(s)

LEMMA RawForms ==
  ASSUME NEW raw \in RawValue
  PROVE  /\ raw.is \in {"number", "half", "digits", "bool", "word", "inf", "nan", "huge", "table",
                       "list"}
         /\ raw.is = "number" => raw = Num(raw.n)
         /\ raw.is = "huge" => raw = Huge
         /\ raw.is = "list" => raw = List(raw.items) /\ raw.items \in Seq(Scalar)
BY DEF RawValue, Scalar, Num, Huge, List

LEMMA NumberIsWritten ==
  ASSUME NEW s, s.accessor \in {"number", "optional"}, NEW raw \in RawValue
  PROVE  Written(s, raw, Number(s, raw))
BY RawForms DEF Number, Written, SaysTheSame, Raised, Falls, Noted, Taken, IsNumber

LEMMA OptionalIsWritten ==
  ASSUME NEW s, s.accessor = "optional", NEW raw \in RawValue
  PROVE  Written(s, raw, OptionalNumber(s, raw))
BY NumberIsWritten DEF OptionalNumber, Written, Noted

LEMMA IntegerIsWritten ==
  ASSUME NEW s, s.accessor = "integer", NEW raw \in RawValue
  PROVE  Written(s, raw, Integer(s, raw))
BY RawForms DEF Integer, Written, SaysTheSame, Raised, Falls, Noted, Taken, IsNumber

LEMMA FlagIsWritten ==
  ASSUME NEW s, s.accessor = "flag", NEW raw
  PROVE  Written(s, raw, Flag(s, raw))
<1>1. CASE raw.is = "bool"
  <2>1. /\ raw \notin {Word("true"), Word("yes"), Word("on"), Digits(1)}
        /\ raw \notin {Word("false"), Word("no"), Word("off"), Digits(0)}
    BY <1>1 DEF Word, Digits
  <2>2. Flag(s, raw) = Taken(raw)
    BY <1>1, <2>1 DEF Flag
  <2> QED BY <2>2 DEF Taken, Written, SaysTheSame
<1>2. CASE raw.is # "bool" /\ raw \in WordsFor(TRUE)
  <2>1. raw \notin {Word("false"), Word("no"), Word("off"), Digits(0)}
    BY <1>2 DEF WordsFor, Word, Digits
  <2>2. Flag(s, raw).value = Bool(TRUE)
    BY <1>2, <2>1 DEF Flag, Taken, WordsFor, Yes
  <2> QED BY <1>2, <2>2 DEF Written, SaysTheSame
<1>3. CASE raw.is # "bool" /\ raw \in WordsFor(FALSE)
  <2>1. raw \notin {Word("true"), Word("yes"), Word("on"), Digits(1)}
    BY <1>3 DEF WordsFor, Word, Digits
  <2>2. Flag(s, raw).value = Bool(FALSE)
    BY <1>3, <2>1 DEF Flag, Taken, WordsFor, No
  <2> QED BY <1>3, <2>2 DEF Written, SaysTheSame
<1>4. CASE /\ raw.is # "bool"
           /\ raw \notin {Word("true"), Word("yes"), Word("on"), Digits(1)}
           /\ raw \notin {Word("false"), Word("no"), Word("off"), Digits(0)}
  <2>1. Flag(s, raw) = Falls(s)
    BY <1>4 DEF Flag
  <2> QED BY <2>1 DEF Falls, Noted, Written
<1> QED BY <1>1, <1>2, <1>3, <1>4 DEF WordsFor

LEMMA TextIsWritten ==
  ASSUME NEW s, NEW raw
  PROVE  Written(s, raw, Text(s, raw)) /\ Written(s, raw, Choice(s, raw))
BY DEF Text, Choice, Written, SaysTheSame, Falls, Noted, Taken

LEMMA ListIsWritten ==
  ASSUME NEW s, s.accessor \in {"list", "kinds"}, NEW raw
  PROVE  Written(s, raw, ListSetting(s, raw))
BY DEF Written, Silent

LEMMA UrlIsWritten ==
  ASSUME NEW s, s.accessor \in {"url", "link"}, NEW raw
  PROVE  Written(s, raw, Url(s, raw))
BY DEF Url, Written, SaysTheSame, Silent, Falls, Noted, Taken, Raised

\* Of the positions at which a list has an entry one is the first.
LEMMA FirstPosition ==
  ASSUME NEW T \in SUBSET Nat, T # {}
  PROVE  \E n \in T : \A m \in T : n <= m
<1> DEFINE Ups == {0..n : n \in T}
           R == StrictSubsetOrdering(Nat)
<1>1. IsWellFoundedOn(R, FiniteSubsetsOf(Nat))
  BY FS_StrictSubsetOrderingWellFounded
<1>2. Ups \subseteq FiniteSubsetsOf(Nat)
  <2>1. \A n \in T : IsFiniteSet(0..n) /\ 0..n \subseteq Nat
    BY FS_Interval
  <2> QED BY <2>1 DEF FiniteSubsetsOf
<1>3. Ups # {}
  OBVIOUS
<1>4. ASSUME NEW m \in Nat, NEW n \in Nat, m < n  PROVE  <<0..m, 0..n>> \in R
  <2>1. n \in 0..n /\ n \notin 0..m
    BY <1>4
  <2>2. 0..m \subseteq 0..n /\ 0..m # 0..n /\ 0..m \subseteq Nat /\ 0..n \subseteq Nat
    BY <1>4, <2>1
  <2> QED BY <2>2 DEF StrictSubsetOrdering
<1> HIDE DEF R
<1>5. PICK U \in Ups : \A V \in Ups : ~ (<<V, U>> \in R)
  BY <1>1, <1>2, <1>3, WFMin
<1>6. PICK n \in T : U = 0..n
  OBVIOUS
<1>7. \A m \in T : ~ (m < n)
  BY <1>4, <1>5, <1>6
<1> QED BY <1>7

LEMMA PatternsAreWritten ==
  ASSUME NEW s, s.accessor = "patterns", NEW raw \in RawValue
  PROVE  Written(s, raw, Patterns(s, raw))
<1> DEFINE entries == IF IsText(raw) THEN <<raw>> ELSE raw.items
           good == {i \in DOMAIN entries : IsText(entries[i]) /\ entries[i] # Blank}
<1>1. CASE ~ (IsText(raw) \/ raw.is = "list")
  <2>1. Patterns(s, raw) = Falls(s)
    BY <1>1 DEF Patterns
  <2> QED BY <2>1 DEF Falls, Noted, Written
<1>2. CASE IsText(raw) \/ raw.is = "list"
  <2>1. Patterns(s, raw) = Filtered(entries, good)
    BY <1>2 DEF Patterns
  <2>2. /\ Filtered(entries, good).noted = (good # DOMAIN entries)
        /\ Filtered(entries, good).value = List(Restrict(entries, good))
    BY DEF Filtered, Taken
  <2>3. ASSUME good = DOMAIN entries
        PROVE  SaysTheSame(s, raw, List(Restrict(entries, good)))
    <3>1. Restrict(entries, good) = [i \in DOMAIN entries |-> entries[i]]
      BY <2>3 DEF Restrict
    <3>2. CASE IsText(raw)
      <4>1. entries = <<raw>>
        BY <3>2
      <4>2. Restrict(entries, good) = <<raw>>
        BY <3>1, <4>1
      <4> HIDE DEF entries, good
      <4> QED BY <3>2, <4>2 DEF SaysTheSame
    <3>3. CASE ~ IsText(raw)
      <4>1. raw.is = "list" /\ entries = raw.items
        BY <1>2, <3>3
      <4> HIDE DEF entries, good
      <4>2. ToSet(Restrict(entries, good)) = ToSet(entries)
        BY <3>1 DEF ToSet
      <4> QED BY <4>1, <4>2 DEF SaysTheSame, List
    <3> QED BY <3>2, <3>3
  <2> HIDE DEF entries, good
  <2> QED BY <2>1, <2>2, <2>3 DEF Written
<1> QED BY <1>1, <1>2

LEMMA MembersAreWritten ==
  ASSUME NEW s, s.accessor = "members", NEW raw \in RawValue
  PROVE  Written(s, raw, Members(s, raw))
<1> DEFINE items == raw.items
           allowed == {i \in DOMAIN items : items[i] \in s.allowed}
           once == {i \in allowed : \A j \in allowed : items[j] = items[i] => i <= j}
<1>1. CASE raw.is # "list"
  <2>1. Members(s, raw) = Falls(s)
    BY <1>1 DEF Members
  <2> QED BY <2>1 DEF Falls, Noted, Written
<1>2. CASE raw.is = "list"
  <2>1. Members(s, raw) = [Filtered(items, allowed) EXCEPT !.value = List(Restrict(items, once))]
    BY <1>2 DEF Members
  <2>2. /\ Members(s, raw).noted = (allowed # DOMAIN items)
        /\ Members(s, raw).value = List(Restrict(items, once))
    <3> HIDE DEF items, allowed, once
    <3> QED BY <2>1 DEF Filtered, Taken
  <2>3. ASSUME allowed = DOMAIN items
        PROVE  ToSet(Restrict(items, once)) = ToSet(items)
    <3>1. ToSet(Restrict(items, once)) = {items[i] : i \in once}
      <4> HIDE DEF items, once
      <4> QED BY DEF ToSet, Restrict
    <3>2. ASSUME NEW k \in DOMAIN items  PROVE \E i \in once : items[i] = items[k]
      <4> DEFINE Same == {j \in DOMAIN items : items[j] = items[k]}
      <4>1. Same \in SUBSET Nat /\ Same # {}
        <5>1. items \in Seq(Scalar)
          BY <1>2, RawForms
        <5> HIDE DEF items
        <5> QED BY <3>2, <5>1
      <4> HIDE DEF Same
      <4>2. PICK i \in Same : \A j \in Same : i <= j
        BY <4>1, FirstPosition
      <4> USE DEF Same
      <4> HIDE DEF items
      <4> QED BY <2>3, <4>2
    <3>3. once \subseteq DOMAIN items
      OBVIOUS
    <3> HIDE DEF items, once, allowed
    <3> QED BY <3>1, <3>2, <3>3 DEF ToSet
  <2>4. CASE allowed = DOMAIN items
    <3>1. SaysTheSame(s, raw, List(Restrict(items, once)))
      <4>1. items = raw.items
        OBVIOUS
      <4> HIDE DEF items, allowed, once
      <4> QED BY <1>2, <2>3, <2>4, <4>1 DEF SaysTheSame, List
    <3> HIDE DEF items, allowed, once
    <3> QED BY <2>2, <3>1 DEF Written
  <2>5. CASE allowed # DOMAIN items
    <3> HIDE DEF items, allowed, once
    <3> QED BY <2>2, <2>5 DEF Written
  <2> QED BY <2>4, <2>5
<1> QED BY <1>1, <1>2

\* Whatever the setting and whatever the file gives it.
LEMMA SettingIsWritten ==
  ASSUME NEW s, s.accessor \in Accessors, NEW raw \in RawValue
  PROVE  Written(s, raw, Setting(s, raw))
<1> USE DEF Setting
<1>1. CASE s.accessor = "number"
  BY <1>1, NumberIsWritten
<1>2. CASE s.accessor = "optional"
  BY <1>2, OptionalIsWritten
<1>3. CASE s.accessor = "integer"
  BY <1>3, IntegerIsWritten
<1>4. CASE s.accessor = "flag"
  BY <1>4, FlagIsWritten
<1>5. CASE s.accessor \in {"text", "choice"}
  BY <1>5, TextIsWritten
<1>6. CASE s.accessor = "patterns"
  BY <1>6, PatternsAreWritten
<1>7. CASE s.accessor = "members"
  BY <1>7, MembersAreWritten
<1>8. CASE s.accessor \in {"list", "kinds"}
  BY <1>8, ListIsWritten
<1>9. CASE s.accessor \in {"url", "link"}
  BY <1>9, UrlIsWritten
<1> QED BY <1>1, <1>2, <1>3, <1>4, <1>5, <1>6, <1>7, <1>8, <1>9 DEF Accessors

-----------------------------------------------------------------------------
(* The inductive invariant.                                                *)

Phases == {"start", "pass", "swarm", "wiring", "api", "draw", "rest", "ended"}

\* The configuration is what the file of the login says, and one that raised ends
\* the program.
Configured ==
    /\ login \in DOMAIN Logins /\ daemon = Case.daemon
    /\ phase \in Phases
    /\ phase # "start" => cfg = LoadConfig(Case.file)
    /\ phase \notin {"start", "ended"} => ~ cfg.raises

\* Before a pass the program has rested as long as it has worked; after one, it is the
\* last pass that is not paid for yet.
Paid ==
    /\ took \in Nat /\ worked \in Nat /\ rested \in Nat
    /\ phase \notin {"rest", "ended"} => worked <= rested
    /\ phase = "rest" => worked <= rested + took

\* What the labels say was taken over where they were listed.
LabelsListed ==
    /\ DOMAIN info = DOMAIN EmptyInfo
    /\ call # "services" =>
          info.serviceError \/ Routers(ToSet(daemon.services)) \subseteq info.routers
    /\ call \notin {"services", "containers"} =>
          info.containerError \/ Routers(NoTasks(daemon.containers)) \subseteq info.routers

\* The wiring is drawn of a collection that ended, and with what the other calls said.
Collected ==
    /\ phase = "api" => call = "done"
    /\ phase = "draw" /\ ~ failed /\ AsksTraefik => call = "done"
    /\ swarm.reachable => daemon.swarm # "worker" /\ (swarm.enabled <=> daemon.swarm = "manager")
    /\ accepted # <<>> => Case.api.answers /\ accepted = <<ParseApi(Case.api.reported)>>
    /\ phase = "start" => frame = NoFrame

Inv == Configured /\ Paid /\ LabelsListed /\ Collected /\ LabelsAreDrawn

LEMMA CaseOf ==
  ASSUME login \in DOMAIN Logins
  PROVE  /\ DOMAIN Case.file.values \subseteq DOMAIN Settings
         /\ \A name \in DOMAIN Case.file.values : Case.file.values[name] \in RawValue
         /\ Case.works \subseteq Nat /\ Case.interval \in Seq(Int)
         /\ Case.daemon.swarm \in {"none", "worker", "manager"}
         /\ Case.daemon.swarm = "none" => Case.daemon.services = <<>>
<1>1. Case \in Range(Logins)
  BY DEF Case, Range
<1>2. /\ DOMAIN Case.file.values \subseteq DOMAIN Settings
      /\ Range(Case.file.values) \subseteq RawValue
      /\ Case.works \subseteq Nat /\ Case.interval \in Seq(Int)
      /\ Case.daemon.swarm \in {"none", "worker", "manager"}
      /\ Case.daemon.swarm = "none" => Case.daemon.services = <<>>
  BY <1>1, LoginsAssumption DEF LoginsAssumption
<1>3. \A name \in DOMAIN Case.file.values : Case.file.values[name] \in RawValue
  BY <1>2 DEF Range
<1> QED BY <1>2, <1>3

\* What the configuration read of a file.
LEMMA ReadOf ==
  ASSUME NEW file, file.state = "toml"
  PROVE  /\ LoadConfig(file).read =
               [name \in DOMAIN file.values |-> Setting(Settings[name], file.values[name])]
         /\ LoadConfig(file).raises <=>
               \E name \in DOMAIN file.values : Setting(Settings[name], file.values[name]).raises
BY DEF LoadConfig

LEMMA UnreadOf ==
  ASSUME NEW file, file.state # "toml"
  PROVE  LoadConfig(file).read = <<>> /\ DOMAIN LoadConfig(file).read = {}
BY DEF LoadConfig

\* The interval that a run keeps is a number, whatever the file says.
LEMMA IntervalType ==
  ASSUME Configured, phase \notin {"start", "ended"}
  PROVE  Interval \in Int
<1>1. ASSUME NEW name \in {"follow.interval", "follow.health_interval"}
      PROVE  Value(name).n \in Int
  <2>1. PICK n \in Int, d \in Int : Settings[name] = AtLeast(n, d)
    BY SettingRows
  <2>2. /\ AtLeast(n, d).accessor = "number" /\ AtLeast(n, d).default = Num(d)
        /\ Num(d).n = d
    BY DEF AtLeast, Of, Num
  <2>3. CASE name \notin DOMAIN cfg.read
    BY <2>1, <2>2, <2>3 DEF Value
  <2>4. CASE name \in DOMAIN cfg.read
    <3>0. cfg = LoadConfig(Case.file) /\ ~ cfg.raises
      BY DEF Configured
    <3>1. Case.file.state = "toml"
      BY <2>4, <3>0, UnreadOf
    <3>2. /\ name \in DOMAIN Case.file.values
          /\ cfg.read[name] = Setting(Settings[name], Case.file.values[name])
          /\ ~ Setting(Settings[name], Case.file.values[name]).raises
      <4> DEFINE file == Case.file
                 its == [key \in DOMAIN file.values |-> Setting(Settings[key], file.values[key])]
      <4>1. /\ cfg.read = its
            /\ cfg.raises <=> \E key \in DOMAIN file.values :
                                Setting(Settings[key], file.values[key]).raises
        <5>1. file.state = "toml" /\ cfg = LoadConfig(file)
          BY <3>0, <3>1
        <5> HIDE DEF file
        <5> QED BY <5>1, ReadOf
      <4> HIDE DEF file
      <4>2. DOMAIN its = DOMAIN file.values
        OBVIOUS
      <4>3. name \in DOMAIN file.values
        BY <2>4, <4>1, <4>2
      <4>4. its[name] = Setting(Settings[name], file.values[name])
        BY <4>3
      <4> HIDE DEF its
      <4>5. ~ Setting(Settings[name], file.values[name]).raises
        BY <3>0, <4>1, <4>3
      <4> QED BY <4>1, <4>3, <4>4, <4>5 DEF file
    <3> DEFINE raw == Case.file.values[name]
               number == Number(AtLeast(n, d), raw)
    <3>3. raw \in RawValue
      BY <3>2, CaseOf DEF Configured
    <3>4. cfg.read[name] = number /\ ~ number.raises
      BY <2>1, <2>2, <3>2 DEF Setting
    <3>5. number.value.n \in Int
      <4> HIDE DEF raw
      <4>1. IsNumber(raw) => raw.n \in Int
        BY <3>3 DEF IsNumber, RawValue, Scalar
      <4>2. CASE raw.is = "huge"
        BY <3>4, <4>2 DEF Number, Raised
      <4>3. CASE raw.is # "huge" /\ (~ IsNumber(raw) \/ Under(raw.n, AtLeast(n, d).minimum))
        <5>1. number = Falls(AtLeast(n, d))
          BY <4>3 DEF Number
        <5> HIDE DEF number
        <5> QED BY <2>2, <5>1 DEF Falls, Noted
      <4>4. CASE /\ raw.is # "huge"
                 /\ ~ (~ IsNumber(raw) \/ Under(raw.n, AtLeast(n, d).minimum))
        <5>1. number = Taken(IF raw.is = "half" THEN raw ELSE Num(raw.n))
          BY <4>4 DEF Number
        <5> HIDE DEF number
        <5> QED BY <4>1, <4>4, <5>1 DEF Taken, Num
      <4> QED BY <4>2, <4>3, <4>4
    <3> HIDE DEF number
    <3> QED BY <2>4, <3>4, <3>5 DEF Value
  <2> QED BY <2>3, <2>4
<1>2. Case.interval # <<>> => Head(Case.interval) \in Int
  BY CaseOf DEF Configured
<1> QED BY <1>1, <1>2 DEF Interval, MinInterval

-----------------------------------------------------------------------------
(* What a step leaves as it was.                                           *)

LEMMA StaysConfigured ==
  ASSUME Configured, UNCHANGED <<cfgVars, daemon>>,
         phase \notin {"start", "ended"}, phase' \in Phases \ {"start"}
  PROVE  Configured'
BY DEF Configured, Case, cfgVars

LEMMA AskedAlike ==
  ASSUME UNCHANGED cfgVars
  PROVE  AsksTraefik' = AsksTraefik
<1>1. Case' = Case /\ cfg' = cfg
  BY DEF cfgVars, Case
<1>2. \A name : Value(name)' = Value(name)
  BY <1>1 DEF Value
<1>3. WordsOf("sections")' = WordsOf("sections")
  BY <1>2 DEF WordsOf
<1>4. Sections' = Sections
  BY <1>1, <1>2, <1>3 DEF Sections
<1> QED BY <1>2, <1>4 DEF AsksTraefik

LEMMA StaysPaid ==
  ASSUME Paid, UNCHANGED clockVars, phase \notin {"rest", "ended"},
         phase' \notin {"rest", "ended"} \/ phase = "start"
  PROVE  Paid'
BY DEF Paid, clockVars, Phases

LEMMA StaysListed ==
  ASSUME LabelsListed, UNCHANGED <<daemon, call, info>>
  PROVE  LabelsListed'
BY DEF LabelsListed, Routers

\* While a pass goes on nothing new is on the screen.
LEMMA NotDrawn ==
  ASSUME phase' \notin {"rest", "ended"}
  PROVE  LabelsAreDrawn'
BY DEF LabelsAreDrawn, Drawn

\* Once both listings are read, the collector only adds to what they said.
Grown ==
    /\ daemon' = daemon
    /\ {call, call'} \cap {"services", "containers"} = {}
    /\ DOMAIN info' = DOMAIN info
    /\ info'.serviceError = info.serviceError /\ info'.containerError = info.containerError
    /\ info.routers \subseteq info'.routers

LEMMA GrownIsListed ==
  ASSUME LabelsListed, Grown
  PROVE  LabelsListed'
<1>1. Routers(ToSet(daemon.services))' = Routers(ToSet(daemon.services))
  BY DEF Grown, Routers
<1>2. Routers(NoTasks(daemon.containers))' = Routers(NoTasks(daemon.containers))
  BY DEF Grown, Routers
<1>3. call \notin {"services", "containers"} /\ call' \notin {"services", "containers"}
  BY DEF Grown
<1> QED BY <1>1, <1>2, <1>3 DEF LabelsListed, Grown

-----------------------------------------------------------------------------
(* Every step keeps it.                                                    *)

LEMMA LoadKeeps ==
  ASSUME Inv, Load
  PROVE  Inv'
<1> USE DEF Inv, Load
<1>1. Configured'
  <2>1. cfg' = LoadConfig(Case.file) /\ login' = login /\ daemon' = daemon
    BY DEF traefikVars
  <2>2. Case' = Case
    BY <2>1 DEF Case
  <2>3. phase' \in {"pass", "ended"} /\ (phase' = "pass" => ~ cfg'.raises)
    OBVIOUS
  <2>4. login \in DOMAIN Logins /\ daemon = Case.daemon
    BY DEF Configured
  <2> HIDE DEF Inv, Load
  <2> QED BY <2>1, <2>2, <2>3, <2>4 DEF Configured, Phases
<1>2. Paid'
  BY StaysPaid
<1>3. LabelsListed'
  BY StaysListed DEF traefikVars
<1>4. Collected'
  BY DEF Collected, Configured, traefikVars, Case
<1>5. LabelsAreDrawn'
  <2>1. frame' = NoFrame
    BY DEF Collected
  <2> QED BY <2>1 DEF LabelsAreDrawn, Drawn, NoFrame
<1> QED BY <1>1, <1>2, <1>3, <1>4, <1>5

LEMMA BeginPassKeeps ==
  ASSUME Inv, BeginPass
  PROVE  Inv'
<1> USE DEF Inv, BeginPass
<1>1. Configured'
  BY StaysConfigured DEF Phases
<1>2. Paid'
  BY StaysPaid
<1>3. LabelsListed'
  BY DEF LabelsListed, EmptyInfo
<1>4. Collected'
  <2>1. AsksTraefik' = AsksTraefik /\ (phase' = "draw" => ~ AsksTraefik)
    BY AskedAlike DEF AsksDocker
  <2> QED BY <2>1 DEF Collected, Unasked
<1>5. LabelsAreDrawn'
  BY NotDrawn
<1> QED BY <1>1, <1>2, <1>3, <1>4, <1>5

LEMMA CollectSwarmKeeps ==
  ASSUME Inv, CollectSwarm
  PROVE  Inv'
<1> USE DEF Inv, CollectSwarm
<1>1. Configured'
  BY StaysConfigured DEF Phases
<1>2. Paid'
  BY StaysPaid
<1>3. LabelsListed'
  BY StaysListed
<1>4. Collected'
  <2>1. AsksTraefik' = AsksTraefik /\ (phase' = "draw" => ~ AsksTraefik)
    BY AskedAlike
  <2>2. swarm'.reachable =>
           daemon'.swarm # "worker" /\ (swarm'.enabled <=> daemon'.swarm = "manager")
    <3>1. daemon' = daemon
      OBVIOUS
    <3>2. CASE swarm' = [Unasked EXCEPT !.collected = TRUE]
      BY <3>2 DEF Unasked
    <3>3. CASE /\ daemon.swarm # "worker"
               /\ swarm' = [collected |-> TRUE, reachable |-> TRUE,
                           enabled |-> daemon.swarm = "manager"]
      BY <3>1, <3>3
    <3> QED BY <3>2, <3>3 DEF Answers
  <2>3. accepted' # <<>> => Case'.api.answers /\ accepted' = <<ParseApi(Case.api.reported)'>>
    BY DEF Collected, Case, cfgVars, ParseApi
  <2> QED BY <2>1, <2>2, <2>3 DEF Collected
<1>5. LabelsAreDrawn'
  BY NotDrawn
<1> QED BY <1>1, <1>2, <1>3, <1>4, <1>5

\* What the two listings took over.
LEMMA ListServicesLists ==
  ASSUME LabelsListed, ListServices
  PROVE  LabelsListed'
<1>1. CASE info' = [info EXCEPT !.serviceError = TRUE]
  BY <1>1 DEF LabelsListed, ListServices, Goes, EmptyInfo
<1>2. CASE info' = [info EXCEPT !.reachable = TRUE, !.routers = Routers(ToSet(daemon.services))]
  BY <1>2 DEF LabelsListed, ListServices, Goes, EmptyInfo, Routers
<1> QED BY <1>1, <1>2 DEF ListServices

LEMMA ListContainersLists ==
  ASSUME LabelsListed, ListContainers
  PROVE  LabelsListed'
<1>1. call = "containers" /\ call' \in {"done", "state", "configs"} /\ daemon' = daemon
  BY DEF ListContainers, Goes
<1>2. /\ info.serviceError \/ Routers(ToSet(daemon.services)) \subseteq info.routers
      /\ Routers(ToSet(daemon.services))' = Routers(ToSet(daemon.services))
  BY <1>1 DEF LabelsListed, Routers
<1>3. CASE info' = [info EXCEPT !.containerError = TRUE, !.error = ~ info.reachable]
  BY <1>1, <1>2, <1>3 DEF LabelsListed, EmptyInfo
<1>4. CASE info' = [info EXCEPT !.reachable = TRUE,
                                !.routers = @ \cup Routers(NoTasks(daemon.containers))]
  <2>1. Routers(NoTasks(daemon.containers))' = Routers(NoTasks(daemon.containers))
    BY <1>1 DEF Routers
  <2> QED BY <1>1, <1>2, <1>4, <2>1 DEF LabelsListed, EmptyInfo
<1> QED BY <1>3, <1>4 DEF ListContainers

\* No other step of the collector takes a router away.
LEMMA AskStateGrows ==
  ASSUME LabelsListed, AskState \/ ListConfigs \/ Absolute
  PROVE  Grown
BY DEF AskState, ListConfigs, Absolute, Undecided, Goes, Grown, LabelsListed, EmptyInfo

LEMMA FoundGrows ==
  ASSUME LabelsListed, Found
  PROVE  Grown
BY DEF Found, Goes, Grown, LabelsListed, EmptyInfo

LEMMA AskPlacementGrows ==
  ASSUME LabelsListed, AskPlacement
  PROVE  Grown
BY DEF AskPlacement, Grown

LEMMA SearchGrows ==
  ASSUME LabelsListed, Search
  PROVE  Grown
<1>1. PICK found : IF found.is = "present"
                   THEN info' = [info EXCEPT !.path = found.path] /\ Goes("reading")
                   ELSE IF found.is # "none" THEN Undecided("cannot be checked from here")
                   ELSE info' = FromArguments /\ Goes("provider")
  BY DEF Search
<1>2. DOMAIN FromArguments = DOMAIN info /\ FromArguments.routers = info.routers
      /\ FromArguments.serviceError = info.serviceError
      /\ FromArguments.containerError = info.containerError
  BY DEF FromArguments, LabelsListed, EmptyInfo
<1>3. call = "search" /\ daemon' = daemon
  BY DEF Search
<1> QED BY <1>1, <1>2, <1>3 DEF Undecided, Goes, Grown, LabelsListed, EmptyInfo

LEMMA TakesGrow ==
  ASSUME LabelsListed, TakeStatic \/ TakeFile
  PROVE  Grown
<1>1. CASE TakeStatic
  BY <1>1 DEF TakeStatic, Goes, Grown, LabelsListed, EmptyInfo
<1>2. CASE TakeFile
  BY <1>2 DEF TakeFile, Grown, LabelsListed, EmptyInfo
<1> QED BY <1>1, <1>2

LEMMA FilesGrow ==
  ASSUME LabelsListed, ListFiles \/ ReadFile \/ EndFiles \/ ReadStatic
  PROVE  Grown
<1>1. CASE ListFiles
  <2>1. PICK notes : info' = info \/ info' = [info EXCEPT !.notes = @ \cup notes]
    BY <1>1 DEF ListFiles
  <2> QED BY <1>1, <2>1 DEF ListFiles, Goes, Grown, LabelsListed, EmptyInfo
<1>2. CASE ReadFile \/ EndFiles \/ ReadStatic
  BY <1>2 DEF ReadFile, EndFiles, ReadStatic, Goes, Grown
<1> QED BY <1>1, <1>2

LEMMA SurpriseGrows ==
  ASSUME LabelsListed, Surprise
  PROVE  Grown
BY DEF Surprise, Goes, Grown, LabelsListed, EmptyInfo

LEMMA CollectorLists ==
  ASSUME LabelsListed, CollectTraefik
  PROVE  LabelsListed'
<1>1. CASE ListServices
  BY <1>1, ListServicesLists
<1>2. CASE ListContainers
  BY <1>2, ListContainersLists
<1>3. CASE AskState \/ ListConfigs \/ Absolute
  BY <1>3, AskStateGrows, GrownIsListed
<1>4. CASE Found \/ AskPlacement \/ Search
  BY <1>4, FoundGrows, AskPlacementGrows, SearchGrows, GrownIsListed
<1>5. CASE TakeStatic \/ TakeFile \/ Surprise
  BY <1>5, TakesGrow, SurpriseGrows, GrownIsListed
<1>6. CASE ListFiles \/ ReadFile \/ EndFiles \/ ReadStatic
  BY <1>6, FilesGrow, GrownIsListed
<1>7. CASE UNCHANGED <<daemon, call, info>>
  BY <1>7, StaysListed
<1> QED BY <1>1, <1>2, <1>3, <1>4, <1>5, <1>6, <1>7 DEF CollectTraefik

LEMMA WiringKeeps ==
  ASSUME Inv, Wiring
  PROVE  Inv'
<1>1. /\ phase = "wiring" /\ phase' \in {"api", "wiring"} /\ (phase' = "api" => call' = "done")
      /\ UNCHANGED <<cfgVars, swarm, accepted, pass, failed, frame, clockVars>>
      /\ CollectTraefik
  BY DEF Wiring
<1>2. daemon' = daemon
  BY <1>1 DEF CollectTraefik, ListServices, ListContainers, AskState, ListConfigs, Found,
              AskPlacement, Absolute, Search, ReadStatic, TakeStatic, ListFiles, ReadFile,
              TakeFile, EndFiles, Surprise
<1>3. Configured'
  BY <1>1, <1>2, StaysConfigured DEF Inv, Phases
<1>4. Paid'
  BY <1>1, StaysPaid DEF Inv
<1>5. LabelsListed'
  BY <1>1, CollectorLists DEF Inv
<1>6. Collected'
  BY <1>1, <1>2 DEF Inv, Collected, Case, cfgVars, ParseApi
<1>7. LabelsAreDrawn'
  BY <1>1, NotDrawn
<1> QED BY <1>3, <1>4, <1>5, <1>6, <1>7 DEF Inv

LEMMA AskApiKeeps ==
  ASSUME Inv, AskApi
  PROVE  Inv'
<1> USE DEF Inv, AskApi
<1>1. Configured'
  BY StaysConfigured DEF Phases, traefikVars
<1>2. Paid'
  BY StaysPaid
<1>3. LabelsListed'
  BY StaysListed DEF traefikVars
<1>4. Collected'
  BY DEF Collected, Case, cfgVars, ParseApi, traefikVars
<1>5. LabelsAreDrawn'
  BY NotDrawn
<1> QED BY <1>1, <1>2, <1>3, <1>4, <1>5

LEMMA FailKeeps ==
  ASSUME Inv, Fail
  PROVE  Inv'
<1> USE DEF Inv, Fail
<1>1. Configured'
  BY StaysConfigured DEF Phases
<1>2. Paid'
  BY StaysPaid
<1>3. LabelsListed'
  BY StaysListed
<1>4. Collected'
  BY DEF Collected, Case, cfgVars, ParseApi
<1>5. LabelsAreDrawn'
  BY NotDrawn
<1> QED BY <1>1, <1>2, <1>3, <1>4, <1>5

\* Every router that was found has a place: below an entrypoint that there is, or with
\* the orphans.
LEMMA AllArePlaced == info.routers \subseteq (UNION Range(Tree)) \cup {o.router : o \in Orphans}
<1> DEFINE placed   == UNION Range(Tree)
           orphaned == {o.router : o \in Orphans}
<1> SUFFICES ASSUME NEW r \in info.routers
             PROVE  r \in placed \/ r \in orphaned
  OBVIOUS
<1>1. ASSUME r.entrypoints \ info.entrypoints # {} \/ info.entrypoints \cup r.entrypoints = {}
      PROVE  r \in orphaned
  <2> DEFINE missing == r.entrypoints \ info.entrypoints
             red     == missing # {} /\ info.entrypoints # {}
             orphan  == [router |-> r, missing |-> missing, red |-> red]
  <2>1. orphan \in Orphans
    BY <1>1 DEF Orphans
  <2>2. orphan.router = r
    OBVIOUS
  <2> HIDE DEF orphan
  <2> QED BY <2>1, <2>2
<1>2. ASSUME NEW e \in info.entrypoints, r.entrypoints = {} \/ e \in r.entrypoints
      PROVE  r \in placed
  <2>1. r \in Tree[e] /\ e \in DOMAIN Tree
    BY <1>2 DEF Tree, Attached
  <2> QED BY <2>1 DEF Range
<1> HIDE DEF placed, orphaned
<1>3. CASE r.entrypoints = {}
  BY <1>1, <1>2, <1>3
<1>4. CASE r.entrypoints # {}
  <2>1. PICK e \in r.entrypoints : TRUE
    BY <1>4
  <2>2. CASE e \in info.entrypoints
    BY <1>2, <2>2
  <2>3. CASE e \notin info.entrypoints
    <3>1. r.entrypoints \ info.entrypoints # {}
      BY <2>3
    <3>2. r \in orphaned
      BY <1>1, <3>1
    <3> QED BY <3>2
  <2> QED BY <2>2, <2>3
<1> QED BY <1>3, <1>4

\* What the wiring leaves out of the drawing is said above it.
LEMMA WiringIsWhole ==
  ASSUME Inv, AsksTraefik, ~ failed, phase = "draw",
         frame' = [is |-> "wiring", banners |-> Banners(swarm), tree |-> Tree,
                   orphans |-> Orphans, rejected |-> Rejected],
         UNCHANGED <<daemon, info, swarm, accepted, login>>
  PROVE  LabelsAreDrawn'
<1>1. call = "done"
  BY DEF Inv, Collected
<1>2. DrawnRouters' = (UNION Range(Tree)) \cup {o.router : o \in Orphans}
  BY DEF DrawnRouters
<1>3. info.routers \subseteq DrawnRouters'
  BY <1>2, AllArePlaced
<1>4. \/ Routers(NoTasks(daemon.containers)) \subseteq DrawnRouters'
      \/ "containers" \in frame'.banners
  BY <1>1, <1>3 DEF Inv, LabelsListed, Banners
<1>5. \/ Routers(ToSet(daemon.services)) \subseteq DrawnRouters'
      \/ "services" \in frame'.banners
      \/ ~ swarm.reachable
  <2>1. CASE Routers(ToSet(daemon.services)) \subseteq info.routers
    BY <1>3, <2>1
  <2>2. CASE info.serviceError /\ swarm.enabled
    BY <2>2 DEF Banners
  <2>3. CASE info.serviceError /\ ~ swarm.enabled /\ swarm.reachable
    <3>1. daemon.swarm = "none"
      BY <2>3, CaseOf DEF Inv, Collected, Configured
    <3>2. daemon.services = <<>>
      BY <3>1, CaseOf DEF Inv, Configured
    <3>3. Routers(ToSet(daemon.services)) = {}
      BY <3>2 DEF Routers, ToSet
    <3> QED BY <3>3
  <2> QED BY <1>1, <2>1, <2>2, <2>3 DEF Inv, LabelsListed
<1>6. ASSUME NEW r \in frame'.rejected
      PROVE  /\ Case.api.answers
             /\ \A x \in Case.api.reported : x.name = r.name => x.status = "disabled"
  <2>1. accepted # <<>> /\ r.name \notin Head(accepted)
    BY <1>6 DEF Rejected
  <2>2. Case.api.answers /\ Head(accepted) = ParseApi(Case.api.reported)
    BY <2>1 DEF Inv, Collected
  <2> QED BY <2>1, <2>2 DEF ParseApi
<1>7. /\ daemon' = daemon /\ info' = info /\ swarm' = swarm /\ Case' = Case
      /\ Routers(ToSet(daemon.services))' = Routers(ToSet(daemon.services))
      /\ Routers(NoTasks(daemon.containers))' = Routers(NoTasks(daemon.containers))
  BY DEF Case, Routers
<1> QED BY <1>3, <1>4, <1>5, <1>6, <1>7 DEF LabelsAreDrawn

LEMMA DrawKeeps ==
  ASSUME Inv, Draw
  PROVE  Inv'
<1> USE DEF Inv, Draw
<1>1. Configured'
  BY StaysConfigured DEF Phases, traefikVars
<1>2. Paid'
  BY CaseOf DEF Paid, Configured
<1>3. LabelsListed'
  BY StaysListed DEF traefikVars
<1>4. Collected'
  BY DEF Collected, Case, cfgVars, ParseApi, traefikVars
<1>5. LabelsAreDrawn'
  <2>1. CASE ~ failed /\ AsksTraefik /\ ~ info.error
    BY <2>1, WiringIsWhole DEF Rendered, traefikVars, cfgVars
  <2>2. CASE ~ (~ failed /\ AsksTraefik /\ ~ info.error)
    <3>1. frame'.is # "wiring"
      BY <2>2 DEF Rendered, NoFrame
    <3> QED BY <3>1 DEF LabelsAreDrawn, Drawn
  <2> QED BY <2>1, <2>2
<1> QED BY <1>1, <1>2, <1>3, <1>4, <1>5

\* The rest is no shorter than the pass before it.
LEMMA DelayPays ==
  ASSUME NEW interval \in Int, NEW elapsed \in Nat
  PROVE  NextDelay(interval, elapsed) \in Nat /\ NextDelay(interval, elapsed) >= elapsed
BY DEF NextDelay

LEMMA RestKeeps ==
  ASSUME Inv, Rest
  PROVE  Inv'
<1> USE DEF Inv, Rest
<1>1. Configured'
  BY StaysConfigured DEF Phases, traefikVars
<1>2. Paid'
  <2>1. Interval \in Int
    BY IntervalType
  <2>2. NextDelay(Interval, took) \in Nat /\ NextDelay(Interval, took) >= took
    BY <2>1, DelayPays DEF Paid
  <2> QED BY <2>2 DEF Paid
<1>3. LabelsListed'
  BY StaysListed DEF traefikVars
<1>4. Collected'
  BY DEF Collected, Case, cfgVars, ParseApi, traefikVars
<1>5. LabelsAreDrawn'
  BY NotDrawn
<1> QED BY <1>1, <1>2, <1>3, <1>4, <1>5

LEMMA StutterKeeps ==
  ASSUME Inv, UNCHANGED vars
  PROVE  Inv'
<1>1. UNCHANGED <<daemon, call, info, login, cfg, phase, swarm, accepted, pass, failed, frame,
                  took, worked, rested>>
  BY DEF vars, traefikVars, panelVars, cfgVars, clockVars
<1>2. Configured'
  BY <1>1 DEF Inv, Configured, Case
<1>3. Paid'
  BY <1>1 DEF Inv, Paid
<1>4. LabelsListed'
  BY <1>1, StaysListed DEF Inv
<1>5. Collected'
  BY <1>1, AskedAlike DEF Inv, Collected, Case, cfgVars, ParseApi
<1>6. LabelsAreDrawn'
  BY <1>1 DEF Inv, LabelsAreDrawn, Drawn, DrawnRouters, Routers, Case
<1> QED BY <1>2, <1>3, <1>4, <1>5, <1>6 DEF Inv

LEMMA InitHolds ==
  ASSUME Init
  PROVE  Inv
<1>1. Configured
  BY DEF Init, Configured, Phases
<1>2. Paid
  BY DEF Init, Paid
<1>3. LabelsListed
  BY DEF Init, LabelsListed
<1>4. Collected
  BY DEF Init, Collected, Unasked
<1>5. LabelsAreDrawn
  BY DEF Init, LabelsAreDrawn, Drawn
<1> QED BY <1>1, <1>2, <1>3, <1>4, <1>5 DEF Inv

\* What the model takes step by step: a walk of the kernel, what lies below a set of
\* inodes, a path that is resolved, and the listing of a directory.
WalkBy(t, points, asLogin) ==
    [op |-> "walk", tree |-> t, points |-> points, login |-> asLogin]
SpreadIn(t) == [op |-> "spread", tree |-> t]
ResolveIn(t) == [op |-> "resolve", tree |-> t]
ListIn(t, mounts, i) == [op |-> "list", tree |-> t, mounts |-> mounts, mount |-> i]
TakeFrom(t, mounts, i, dir, names) ==
    [op |-> "take", tree |-> t, mounts |-> mounts, mount |-> i, dir |-> dir, names |-> names]
ScanOf(t, mounts, dir, isHere) ==
    [op |-> "scan", tree |-> t, mounts |-> mounts, dir |-> dir, here |-> isHere]

Moved(what, n, y) ==
    IF what.op = "walk" THEN KernelStep(what.tree, what.points, what.login, y)
    ELSE IF what.op = "spread" THEN WithEntries(what.tree, y)
    ELSE IF what.op = "resolve" THEN ResolveStep(what.tree, y)
    ELSE IF what.op = "list" THEN WalkStep(what.tree, what.mounts, what.mount, y)
    ELSE IF what.op = "take"
    THEN WalkedFile(what.tree, what.mounts, what.mount, Append(what.dir, what.names[n]), y)
    ELSE FilesFromMount(what.tree, what.mounts, n, what.dir, what.here, y)

IsChain(g, what, x, N) ==
    DOMAIN g = 0 .. N /\ g[0] = x /\ \A n \in 1 .. N : g[n] = Moved(what, n, g[n - 1])

\* Where n steps lead.
After(what, x, n) == (CHOOSE g : IsChain(g, what, x, n))[n]

LEMMA ChainExists ==
  ASSUME NEW what, NEW x, NEW N \in Nat
  PROVE  \E g : IsChain(g, what, x, N)
<1> DEFINE T == {n \in Nat : ~ \E g : IsChain(g, what, x, n)}
<1>1. SUFFICES ASSUME T # {}  PROVE FALSE
  OBVIOUS
<1>2. PICK n \in T : \A m \in T : n <= m
  BY <1>1, FirstPosition
<1>3. CASE n = 0
  <2>1. IsChain([i \in 0 .. 0 |-> x], what, x, 0)
    BY DEF IsChain
  <2> QED BY <1>3, <2>1
<1>4. CASE n # 0
  <2>1. n - 1 \in Nat /\ n \in Nat
    BY <1>4
  <2>2. n - 1 \notin T
    BY <1>2, <2>1
  <2>3. PICK g : IsChain(g, what, x, n - 1)
    BY <2>1, <2>2
  <2> DEFINE h == [i \in 0 .. n |-> IF i = n THEN Moved(what, n, g[n - 1]) ELSE g[i]]
  <2>4. IsChain(h, what, x, n)
    <3>1. DOMAIN h = 0 .. n /\ h[0] = x
      BY <1>4, <2>1, <2>3 DEF IsChain
    <3>2. ASSUME NEW m \in 1 .. n  PROVE  h[m] = Moved(what, m, h[m - 1])
      <4>1. m - 1 \in 0 .. n /\ m - 1 # n /\ m \in 0 .. n
        BY <2>1
      <4>2. h[m - 1] = g[m - 1]
        BY <4>1
      <4>3. CASE m = n
        BY <4>1, <4>2, <4>3
      <4>4. CASE m # n
        <5>1. m \in 1 .. n - 1
          BY <2>1, <4>4
        <5> QED BY <2>3, <4>1, <4>2, <4>4, <5>1 DEF IsChain
      <4> QED BY <4>3, <4>4
    <3> HIDE DEF h
    <3> QED BY <3>1, <3>2 DEF IsChain
  <2> QED BY <1>2, <2>4
<1> QED BY <1>3, <1>4

LEMMA ChainIsOne ==
  ASSUME NEW what, NEW x, NEW N \in Nat, NEW M \in Nat, NEW g, NEW h,
         IsChain(g, what, x, N), IsChain(h, what, x, M)
  PROVE  \A n \in Nat : n <= N /\ n <= M => g[n] = h[n]
<1> DEFINE T == {n \in Nat : n <= N /\ n <= M /\ g[n] # h[n]}
<1> SUFFICES ASSUME T # {}  PROVE FALSE
  OBVIOUS
<1>1. PICK n \in T : \A m \in T : n <= m
  BY FirstPosition
<1>2. n # 0
  BY DEF IsChain
<1>3. n - 1 \in Nat /\ n - 1 <= N /\ n - 1 <= M /\ n - 1 \notin T /\ n \in 1 .. N /\ n \in 1 .. M
  BY <1>1, <1>2
<1>4. g[n - 1] = h[n - 1]
  BY <1>3
<1>5. g[n] = Moved(what, n, g[n - 1]) /\ h[n] = Moved(what, n, h[n - 1])
  BY <1>3 DEF IsChain
<1> QED BY <1>1, <1>4, <1>5

LEMMA AfterNone ==
  ASSUME NEW what, NEW x
  PROVE  After(what, x, 0) = x
<1> DEFINE g == CHOOSE g : IsChain(g, what, x, 0)
<1>1. IsChain(g, what, x, 0)
  BY ChainExists
<1> HIDE DEF g
<1>2. g[0] = x
  BY <1>1 DEF IsChain
<1> QED BY <1>2 DEF After, g

LEMMA AfterNext ==
  ASSUME NEW what, NEW x, NEW n \in Nat
  PROVE  After(what, x, n + 1) = Moved(what, n + 1, After(what, x, n))
<1> DEFINE g == CHOOSE g : IsChain(g, what, x, n)
           h == CHOOSE h : IsChain(h, what, x, n + 1)
<1>1. IsChain(g, what, x, n)
  BY ChainExists
<1>2. IsChain(h, what, x, n + 1)
  <2>1. n + 1 \in Nat
    OBVIOUS
  <2> QED BY <2>1, ChainExists
<1>3. After(what, x, n) = g[n] /\ After(what, x, n + 1) = h[n + 1]
  BY DEF After
<1> HIDE DEF g, h
<1>4. g[n] = h[n]
  BY <1>1, <1>2, ChainIsOne
<1>5. h[n + 1] = Moved(what, n + 1, h[n])
  <2>1. n + 1 \in 1 .. n + 1 /\ (n + 1) - 1 = n
    OBVIOUS
  <2> QED BY <1>2, <2>1 DEF IsChain
<1> QED BY <1>3, <1>4, <1>5

\* The recursive function of the steps, whose values are sets of one.
Unrolls(f, what, x, N) ==
    f = [i \in 0 .. N |-> IF i = 0 THEN {x} ELSE {Moved(what, i, y) : y \in f[i - 1]}]

LEMMA UnrollsExists ==
  ASSUME NEW what, NEW x, NEW N \in Nat
  PROVE  \E f : Unrolls(f, what, x, N)
<1> DEFINE f == [i \in 0 .. N |-> {After(what, x, i)}]
<1>2. ASSUME NEW i \in 0 .. N, i # 0  PROVE  f[i] = {Moved(what, i, y) : y \in f[i - 1]}
  <2>1. i - 1 \in Nat /\ (i - 1) + 1 = i /\ i - 1 \in 0 .. N
    BY <1>2
  <2>2. f[i - 1] = {After(what, x, i - 1)} /\ f[i] = {After(what, x, i)}
    BY <2>1
  <2>3. After(what, x, i) = Moved(what, i, After(what, x, i - 1))
    BY <2>1, AfterNext
  <2> HIDE DEF f
  <2> QED BY <2>2, <2>3
<1>3. f[0] = {x}
  BY AfterNone
<1>4. f = [i \in 0 .. N |-> f[i]]
  OBVIOUS
<1> HIDE DEF f
<1>5. ASSUME NEW i \in 0 .. N
      PROVE  f[i] = IF i = 0 THEN {x} ELSE {Moved(what, i, y) : y \in f[i - 1]}
  BY <1>2, <1>3
<1>6. f = [i \in 0 .. N |-> IF i = 0 THEN {x} ELSE {Moved(what, i, y) : y \in f[i - 1]}]
  <2> DEFINE F(i) == IF i = 0 THEN {x} ELSE {Moved(what, i, y) : y \in f[i - 1]}
  <2>1. \A i \in 0 .. N : f[i] = F(i)
    BY <1>5
  <2> HIDE DEF F
  <2>2. f = [i \in 0 .. N |-> F(i)]
    BY <1>4, <2>1
  <2> QED BY <2>2 DEF F
<1> QED BY <1>6 DEF Unrolls

LEMMA UnrollsEnds ==
  ASSUME NEW what, NEW x, NEW N \in Nat, NEW f, Unrolls(f, what, x, N)
  PROVE  f[N] = {After(what, x, N)}
<1>2. \A i \in 0 .. N : f[i] = IF i = 0 THEN {x} ELSE {Moved(what, i, y) : y \in f[i - 1]}
  BY DEF Unrolls
<1> DEFINE T == {n \in 0 .. N : f[n] # {After(what, x, n)}}
<1>3. T = {}
  <2> SUFFICES ASSUME T # {}  PROVE  FALSE
    OBVIOUS
  <2>1. T \in SUBSET Nat
    OBVIOUS
  <2>2. PICK n \in T : \A m \in T : n <= m
    BY <2>1, FirstPosition
  <2>3. n # 0
    BY <1>2, AfterNone
  <2>4. n \in 1 .. N /\ n - 1 \in 0 .. N /\ n - 1 \notin T /\ n - 1 \in Nat /\ (n - 1) + 1 = n
    BY <2>2, <2>3
  <2>5. f[n - 1] = {After(what, x, n - 1)}
    BY <2>4
  <2>6. f[n] = {Moved(what, n, y) : y \in f[n - 1]}
    BY <1>2, <2>3
  <2>7. After(what, x, n) = Moved(what, n, After(what, x, n - 1))
    BY <2>4, AfterNext
  <2>8. f[n] = {After(what, x, n)}
    BY <2>5, <2>6, <2>7
  <2> QED BY <2>2, <2>8
<1> QED BY <1>3

\* What such a function is for each of them, and that it ends where n steps lead.
WalkUnrolled(t, points, asLogin, x, n, f) ==
    [i \in 0 .. n |->
        IF i = 0 THEN {x} ELSE {KernelStep(t, points, asLogin, y) : y \in f[i - 1]}]
ResolveUnrolled(t, x, n, f) ==
    [i \in 0 .. n |-> IF i = 0 THEN {x} ELSE {ResolveStep(t, y) : y \in f[i - 1]}]
ListUnrolled(t, mounts, k, x, n, f) ==
    [i \in 0 .. n |-> IF i = 0 THEN {x} ELSE {WalkStep(t, mounts, k, y) : y \in f[i - 1]}]
TakeUnrolled(t, mounts, k, dir, names, x, n, f) ==
    [i \in 0 .. n |->
        IF i = 0 THEN {x}
        ELSE {WalkedFile(t, mounts, k, Append(dir, names[i]), y) : y \in f[i - 1]}]

LEMMA KernelIs ==
  ASSUME NEW t, NEW points, NEW asLogin, NEW at, NEW path, Steps(path) \in Nat
  PROVE  Kernel(t, points, asLogin, at, path)
           = After(WalkBy(t, points, asLogin), SetOut(at, path), Steps(path))
<1> DEFINE x == SetOut(at, path)
           n == Steps(path)
           what == WalkBy(t, points, asLogin)
           after == CHOOSE f : f = WalkUnrolled(t, points, asLogin, x, n, f)
<1>1. Kernel(t, points, asLogin, at, path) = CHOOSE y \in after[n] : TRUE
  BY DEF Kernel, Iterate, WalkUnrolled
<1>2. \A f : Unrolls(f, what, x, n) <=> f = WalkUnrolled(t, points, asLogin, x, n, f)
  BY DEF Unrolls, WalkUnrolled, Moved, WalkBy
<1>3. Unrolls(after, what, x, n)
  BY <1>2, UnrollsExists
<1> HIDE DEF x, n, what, after
<1>4. after[n] = {After(what, x, n)}
  BY <1>3, UnrollsEnds DEF n
<1>5. (CHOOSE y \in after[n] : TRUE) = After(what, x, n)
  BY <1>4
<1> QED BY <1>1, <1>5 DEF x, n, what

LEMMA ResolvedIs ==
  ASSUME NEW t, NEW source, NEW rest, Steps(rest) \in Nat
  PROVE  Resolved(t, source, rest)
           = After(ResolveIn(t), Reading(source, rest), 2 * Steps(rest) + 1)
<1> DEFINE x == Reading(source, rest)
           n == 2 * Steps(rest) + 1
           what == ResolveIn(t)
           after == CHOOSE f : f = ResolveUnrolled(t, x, n, f)
<1>1. Resolved(t, source, rest) = CHOOSE y \in after[n] : TRUE
  BY DEF Resolved, Iterate, ResolveUnrolled
<1>2. \A f : Unrolls(f, what, x, n) <=> f = ResolveUnrolled(t, x, n, f)
  BY DEF Unrolls, ResolveUnrolled, Moved, ResolveIn
<1>0. n \in Nat
  OBVIOUS
<1> HIDE DEF x, n, what
<1>3. Unrolls(after, what, x, n)
  BY <1>0, <1>2, UnrollsExists
<1> HIDE DEF after
<1>4. after[n] = {After(what, x, n)}
  BY <1>0, <1>3, UnrollsEnds
<1>5. (CHOOSE y \in after[n] : TRUE) = After(what, x, n)
  BY <1>4
<1> QED BY <1>1, <1>5 DEF x, n, what

LEMMA WalkIs ==
  ASSUME NEW t, NEW mounts, NEW k, NEW top, NEW s
  PROVE  Walk(t, mounts, k, top, s)
           = After(ListIn(t, mounts, k), [todo |-> <<top>>, scan |-> s, kept |-> s.found],
                   MaxSteps).scan
<1> DEFINE x == [todo |-> <<top>>, scan |-> s, kept |-> s.found]
           n == MaxSteps
           what == ListIn(t, mounts, k)
           after == CHOOSE f : f = ListUnrolled(t, mounts, k, x, n, f)
<1>1. Walk(t, mounts, k, top, s) = (CHOOSE y \in after[n] : TRUE).scan
  BY DEF Walk, Iterate, ListUnrolled
<1>2. \A f : Unrolls(f, what, x, n) <=> f = ListUnrolled(t, mounts, k, x, n, f)
  BY DEF Unrolls, ListUnrolled, Moved, ListIn
<1>0. n \in Nat
  BY MountsAssumption
<1> HIDE DEF x, n, what
<1>3. Unrolls(after, what, x, n)
  BY <1>0, <1>2, UnrollsExists
<1> HIDE DEF after
<1>4. after[n] = {After(what, x, n)}
  BY <1>0, <1>3, UnrollsEnds
<1>5. (CHOOSE y \in after[n] : TRUE) = After(what, x, n)
  BY <1>4
<1> QED BY <1>1, <1>5 DEF x, n, what

TakenFrom(t, mounts, k, dir, names, s) ==
    Through(LAMBDA y, n : WalkedFile(t, mounts, k, Append(dir, n), y), s, names)

LEMMA TakeIs ==
  ASSUME NEW t, NEW mounts, NEW k, NEW dir, NEW names, NEW s, Len(names) \in Nat
  PROVE  TakenFrom(t, mounts, k, dir, names, s)
           = After(TakeFrom(t, mounts, k, dir, names), s, Len(names))
<1> DEFINE n == Len(names)
           what == TakeFrom(t, mounts, k, dir, names)
           after == CHOOSE f : f = TakeUnrolled(t, mounts, k, dir, names, s, n, f)
<1>1. TakenFrom(t, mounts, k, dir, names, s) = CHOOSE y \in after[n] : TRUE
  BY DEF TakenFrom, Through, TakeUnrolled
<1>2. \A f : Unrolls(f, what, s, n) <=> f = TakeUnrolled(t, mounts, k, dir, names, s, n, f)
  BY DEF Unrolls, TakeUnrolled, Moved, TakeFrom
<1>0. n \in Nat
  OBVIOUS
<1> HIDE DEF n, what
<1>3. Unrolls(after, what, s, n)
  BY <1>0, <1>2, UnrollsExists
<1> HIDE DEF after
<1>4. after[n] = {After(what, s, n)}
  BY <1>0, <1>3, UnrollsEnds
<1>5. (CHOOSE y \in after[n] : TRUE) = After(what, s, n)
  BY <1>4
<1> QED BY <1>1, <1>5 DEF n, what

LEMMA ScanIs ==
  ASSUME NEW t, NEW mounts, NEW dir, NEW isHere,
         Len(mounts) \in Nat, DOMAIN mounts = 1 .. Len(mounts)
  PROVE  Scanned(t, mounts, dir, isHere)
           = After(ScanOf(t, mounts, dir, isHere), NoScan, Len(mounts))
<1> DEFINE n == Len(mounts)
           what == ScanOf(t, mounts, dir, isHere)
           seq == [i \in DOMAIN mounts |-> i]
           after == CHOOSE f : f = [i \in 0 .. n |->
                       IF i = 0 THEN {NoScan}
                       ELSE {FilesFromMount(t, mounts, seq[i], dir, isHere, y) : y \in f[i - 1]}]
<1>0. n \in Nat
  OBVIOUS
<1>1. Len(seq) = n
  OBVIOUS
<1>2. Scanned(t, mounts, dir, isHere) = CHOOSE y \in after[n] : TRUE
  BY <1>1 DEF Scanned, Through
<1>3. ASSUME NEW f
      PROVE  Unrolls(f, what, NoScan, n)
               <=> f = [i \in 0 .. n |->
                       IF i = 0 THEN {NoScan}
                       ELSE {FilesFromMount(t, mounts, seq[i], dir, isHere, y) : y \in f[i - 1]}]
  <2> DEFINE G(i) == IF i = 0 THEN {NoScan} ELSE {Moved(what, i, y) : y \in f[i - 1]}
             H(i) == IF i = 0 THEN {NoScan}
                     ELSE {FilesFromMount(t, mounts, seq[i], dir, isHere, y) : y \in f[i - 1]}
  <2>1. \A i \in 0 .. n : G(i) = H(i)
    <3>1. ASSUME NEW i \in 1 .. n, NEW y
          PROVE  Moved(what, i, y) = FilesFromMount(t, mounts, seq[i], dir, isHere, y)
      BY DEF Moved, ScanOf
    <3> HIDE DEF what, seq
    <3>2. ASSUME NEW i \in 1 .. n
          PROVE  {Moved(what, i, y) : y \in f[i - 1]}
                   = {FilesFromMount(t, mounts, seq[i], dir, isHere, y) : y \in f[i - 1]}
      BY <3>1
    <3>3. ASSUME NEW i \in 0 .. n  PROVE  G(i) = H(i)
      <4>1. CASE i = 0
        BY <4>1
      <4>2. CASE i # 0
        <5>1. i \in 1 .. n
          BY <1>0, <4>2
        <5> QED BY <3>2, <4>2, <5>1
      <4> QED BY <4>1, <4>2
    <3> QED BY <3>3
  <2> HIDE DEF G, H
  <2>2. [i \in 0 .. n |-> G(i)] = [i \in 0 .. n |-> H(i)]
    BY <2>1
  <2> QED BY <2>2 DEF Unrolls, G, H
<1> HIDE DEF n, what, seq
<1>4. Unrolls(after, what, NoScan, n)
  <2>1. \E f : Unrolls(f, what, NoScan, n)
    BY <1>0, UnrollsExists
  <2> QED BY <1>3, <2>1
<1> HIDE DEF after
<1>5. after[n] = {After(what, NoScan, n)}
  BY <1>0, <1>4, UnrollsEnds
<1>6. (CHOOSE y \in after[n] : TRUE) = After(what, NoScan, n)
  BY <1>5
<1> QED BY <1>2, <1>6 DEF n, what

-----------------------------------------------------------------------------
(* Walks of the kernel: they stay in the tree and come to an end.          *)

Entry(t) == [name : STRING \cup {"/"}, inode : DOMAIN t]
Errors == {Fine, "missing", "loop", "not a directory", "denied"}
AWalk(t) == [at : Seq(Entry(t)) \ {<<>>}, rest : Seq(STRING), hops : 0 .. MaxHops,
             err : Errors, left : BOOLEAN, base : Nat]
ArePoints(t, points) == \A p \in points : p.root \in DOMAIN t
Ended(w) == w.rest = <<>> \/ w.err # Fine
Ahead(w) == Len(w.rest) + (MaxHops - w.hops) * MaxLink

LEMMA FrontIsSeq ==
  ASSUME NEW S, NEW s \in Seq(S), s # <<>>
  PROVE  /\ Front(s) \in Seq(S) /\ Len(Front(s)) = Len(s) - 1
         /\ \A i \in 1 .. Len(s) - 1 : Front(s)[i] = s[i]
         /\ Len(s) # 1 => Front(s) # <<>>
<1>1. Len(s) \in Nat \ {0} /\ \A i \in 1 .. Len(s) - 1 : s[i] \in S
  BY EmptySeq, ElementOfSeq
<1>2. /\ Front(s) \in Seq(S)
      /\ Len(Front(s)) = IF 1 <= Len(s) - 1 THEN Len(s) - 1 ELSE 0
      /\ \A i \in 1 .. Len(s) - 1 : Front(s)[i] = s[i]
  BY <1>1, SubSeqProperties DEF Front
<1>3. Len(Front(s)) = Len(s) - 1
  <2> DEFINE n == Len(s)
             m == Len(Front(s))
  <2>1. n \in Nat \ {0} /\ m = IF 1 <= n - 1 THEN n - 1 ELSE 0
    BY <1>1, <1>2
  <2> HIDE DEF n, m
  <2>2. m = n - 1
    BY <2>1
  <2> QED BY <2>2 DEF n, m
<1>4. Len(s) # 1 => Front(s) # <<>>
  <2>1. Len(<<>>) = 0
    BY EmptySeq
  <2> QED BY <1>1, <1>3, <2>1
<1> QED BY <1>2, <1>3, <1>4

LEMMA HereInTree ==
  ASSUME NEW t, NEW w \in AWalk(t)
  PROVE  Here(w) \in DOMAIN t
<1>1. w.at \in Seq(Entry(t)) /\ w.at # <<>>
  BY DEF AWalk
<1>2. w.at[Len(w.at)] \in Entry(t)
  <2>1. Len(w.at) \in 1 .. Len(w.at)
    BY <1>1
  <2> QED BY <1>1, <2>1
<1> QED BY <1>2 DEF Here, Last, Entry

LEMMA ChildInTree ==
  ASSUME NEW t, IsTree(t), NEW points, ArePoints(t, points), NEW w \in AWalk(t), NEW name,
         t[Here(w)].kind = "dir"
  PROVE  Child(t, points, w.at, name) \in DOMAIN t \cup {Absent}
<1>1. Here(w) \in DOMAIN t
  BY HereInTree
<1> DEFINE over == {p \in points : p.target = Append(Physical(w.at), name)}
           names == t[Last(w.at).inode].names
<1>2. CASE over # {}
  <2>1. (CHOOSE p \in over : TRUE) \in points
    BY <1>2
  <2> QED BY <1>2, <2>1 DEF Child, ArePoints
<1>3. CASE over = {} /\ name \in DOMAIN names
  <2>1. names[name] \in DOMAIN t
    BY <1>1, <1>3 DEF IsTree, Here, Range
  <2> QED BY <1>3, <2>1 DEF Child
<1>4. CASE over = {} /\ name \notin DOMAIN names
  BY <1>4 DEF Child
<1> QED BY <1>2, <1>3, <1>4

\* A step of a walk that has not ended: it ends, it goes on by one component, or it
\* follows a link.
Advances(t, w, v) ==
    \/ Ended(v)
    \/ v.hops = w.hops /\ v.rest = Tail(w.rest)
    \/ \E i \in DOMAIN t : /\ t[i].kind = "link" /\ w.hops # MaxHops
                           /\ v.hops = w.hops + 1 /\ v.rest = t[i].to \o Tail(w.rest)

LEMMA EnteredType ==
  ASSUME NEW t, IsTree(t), NEW w \in AWalk(t), ~ Ended(w), NEW child \in DOMAIN t \cup {Absent}
  PROVE  LET v == Entered(t, w, Head(w.rest), child)
         IN  v \in AWalk(t) /\ Advances(t, w, v) /\ (w.left => v.left) /\ v.base = w.base
<1> DEFINE name == Head(w.rest)
           v == Entered(t, w, name, child)
<1>1. w.rest \in Seq(STRING) /\ w.rest # <<>> /\ Tail(w.rest) \in Seq(STRING) /\ name \in STRING
  BY DEF AWalk, Ended
<1>2. w.at \in Seq(Entry(t)) /\ w.at # <<>> /\ w.hops \in 0 .. MaxHops /\ MaxHops \in Nat
  BY MountsAssumption DEF AWalk
<1>3. CASE child = Absent
  <2>1. v = [w EXCEPT !.err = "missing"]
    BY <1>3 DEF Entered
  <2> QED BY <2>1 DEF AWalk, Errors, Advances, Ended, Fine
<1>4. CASE child # Absent /\ t[child].kind # "link"
  <2> DEFINE e == [name |-> name, inode |-> child]
  <2>1. v = [w EXCEPT !.rest = Tail(@), !.at = Append(@, e)]
    BY <1>4 DEF Entered
  <2>2. e \in Entry(t)
    BY <1>1, <1>4 DEF Entry
  <2> HIDE DEF e
  <2>3. Append(w.at, e) \in Seq(Entry(t)) /\ Append(w.at, e) # <<>>
    BY <1>2, <2>2
  <2>4. v.rest = Tail(w.rest) /\ v.hops = w.hops /\ v.left = w.left /\ v.base = w.base
    BY <2>1 DEF AWalk
  <2>5. v \in AWalk(t)
    BY <1>1, <2>1, <2>3 DEF AWalk
  <2> QED BY <2>4, <2>5 DEF Advances
<1>5. CASE child # Absent /\ t[child].kind = "link"
  <2>1. t[child].to \in Seq(STRING) /\ t[child].abs \in BOOLEAN
    BY <1>5 DEF IsTree
  <2>2. CASE w.hops = MaxHops
    <3>1. v = [w EXCEPT !.err = "loop"]
      BY <1>5, <2>2 DEF Entered
    <3> QED BY <3>1 DEF AWalk, Errors, Advances, Ended, Fine
  <2>3. CASE w.hops # MaxHops
    <3> DEFINE at == IF t[child].abs THEN <<Head(w.at)>> ELSE w.at
               rest == t[child].to \o Tail(w.rest)
    <3>1. v = [w EXCEPT !.rest = rest, !.hops = w.hops + 1, !.at = at,
                        !.left = w.left \/ t[child].abs]
      BY <1>5, <2>3 DEF Entered, AWalk
    <3>2. at \in Seq(Entry(t)) /\ at # <<>>
      <4>1. Head(w.at) \in Entry(t)
        BY <1>2
      <4>2. <<Head(w.at)>> \in Seq(Entry(t)) /\ <<Head(w.at)>> # <<>>
        BY <4>1
      <4> QED BY <1>2, <4>2
    <3>3. rest \in Seq(STRING)
      BY <1>1, <2>1
    <3>4. w.hops + 1 \in 0 .. MaxHops
      BY <1>2, <2>3
    <3>5. w.left \in BOOLEAN /\ (w.left \/ t[child].abs) \in BOOLEAN
      BY <2>1 DEF AWalk
    <3> HIDE DEF at
    <3>6. v.rest = rest /\ v.hops = w.hops + 1 /\ v.base = w.base
      BY <3>1 DEF AWalk
    <3>7. w.left => v.left
      BY <3>1 DEF AWalk
    <3>8. v \in AWalk(t)
      BY <3>1, <3>2, <3>3, <3>4, <3>5 DEF AWalk
    <3>9. Advances(t, w, v)
      BY <1>5, <2>3, <3>6 DEF Advances
    <3> QED BY <3>6, <3>7, <3>8, <3>9
  <2> QED BY <2>2, <2>3
<1> QED BY <1>3, <1>4, <1>5

LEMMA StepEnded ==
  ASSUME NEW t, NEW points, NEW asLogin, NEW w, Ended(w)
  PROVE  KernelStep(t, points, asLogin, w) = w
BY DEF Ended, KernelStep

LEMMA StepType ==
  ASSUME NEW t, IsTree(t), NEW points, ArePoints(t, points), NEW asLogin,
         NEW w \in AWalk(t), ~ Ended(w)
  PROVE  LET v == KernelStep(t, points, asLogin, w)
         IN  v \in AWalk(t) /\ Advances(t, w, v) /\ (w.left => v.left) /\ v.base = w.base
<1> DEFINE v == KernelStep(t, points, asLogin, w)
<1>1. w.rest \in Seq(STRING) /\ w.rest # <<>> /\ Tail(w.rest) \in Seq(STRING)
  BY DEF AWalk, Ended
<1>2. w.at \in Seq(Entry(t)) /\ w.at # <<>>
  BY DEF AWalk
<1>3. CASE t[Here(w)].kind # "dir" \/ (asLogin /\ t[Here(w)].shut)
  <2>1. v \in {[w EXCEPT !.err = "not a directory"], [w EXCEPT !.err = "denied"]}
    BY <1>3 DEF KernelStep, Ended
  <2> QED BY <2>1 DEF AWalk, Errors, Advances, Ended, Fine
<1>4. CASE ~ (t[Here(w)].kind # "dir" \/ (asLogin /\ t[Here(w)].shut)) /\ Head(w.rest) = Up
  <2> DEFINE at == IF Len(w.at) = 1 THEN w.at ELSE Front(w.at)
  <2>1. v = [w EXCEPT !.rest = Tail(w.rest), !.at = at, !.left = w.left \/ Len(w.at) <= w.base]
    BY <1>4 DEF KernelStep, Ended, AWalk
  <2>2. at \in Seq(Entry(t)) /\ at # <<>>
    BY <1>2, FrontIsSeq
  <2>3. w.left \in BOOLEAN
    BY DEF AWalk
  <2> HIDE DEF at
  <2>4. v.rest = Tail(w.rest) /\ v.hops = w.hops /\ v.base = w.base /\ (w.left => v.left)
    BY <2>1 DEF AWalk
  <2>5. v \in AWalk(t)
    BY <1>1, <2>1, <2>2, <2>3 DEF AWalk
  <2> QED BY <2>4, <2>5 DEF Advances
<1>5. CASE ~ (t[Here(w)].kind # "dir" \/ (asLogin /\ t[Here(w)].shut)) /\ Head(w.rest) # Up
  <2> DEFINE child == Child(t, points, w.at, Head(w.rest))
  <2>1. v = Entered(t, w, Head(w.rest), child)
    BY <1>5 DEF KernelStep, Ended
  <2>2. child \in DOMAIN t \cup {Absent}
    BY <1>5, ChildInTree
  <2> QED BY <2>1, <2>2, EnteredType
<1> QED BY <1>3, <1>4, <1>5

LEMMA TimesLess ==
  ASSUME NEW a \in Nat, NEW b \in Nat, a # 0
  PROVE  a * b \in Nat /\ (a - 1) * b \in Nat /\ (a - 1) * b = a * b - b
OBVIOUS

\* So many components are ahead at most, and each step takes one of them.
LEMMA StepShortens ==
  ASSUME NEW t, IsTree(t), NEW w \in AWalk(t), ~ Ended(w), NEW v \in AWalk(t),
         Advances(t, w, v)
  PROVE  Ended(v) \/ Ahead(v) <= Ahead(w) - 1
<1>1. /\ w.rest \in Seq(STRING) /\ w.rest # <<>> /\ v.rest \in Seq(STRING)
      /\ w.hops \in 0 .. MaxHops /\ MaxHops \in Nat /\ MaxLink \in Nat
  BY MountsAssumption DEF AWalk, Ended
<1>2. Len(w.rest) \in Nat /\ Len(Tail(w.rest)) = Len(w.rest) - 1 /\ Tail(w.rest) \in Seq(STRING)
  BY <1>1, EmptySeq, HeadTailProperties
<1> DEFINE b == MaxHops - w.hops
<1>3. b \in Nat
  BY <1>1
<1>4. CASE v.hops = w.hops /\ v.rest = Tail(w.rest)
  <2>1. b * MaxLink \in Int
    BY <1>1, <1>3
  <2>2. Ahead(v) = Len(w.rest) - 1 + b * MaxLink /\ Ahead(w) = Len(w.rest) + b * MaxLink
    BY <1>2, <1>4 DEF Ahead
  <2> HIDE DEF b
  <2> QED BY <1>2, <2>1, <2>2
<1>5. ASSUME NEW i \in DOMAIN t, t[i].kind = "link", w.hops # MaxHops,
             v.hops = w.hops + 1, v.rest = t[i].to \o Tail(w.rest)
      PROVE  Ahead(v) <= Ahead(w) - 1
  <2>1. t[i].to \in Seq(STRING) /\ Len(t[i].to) \in Nat /\ Len(t[i].to) <= MaxLink
    BY <1>5 DEF IsTree
  <2>2. Len(v.rest) = Len(t[i].to) + Len(w.rest) - 1
    <3>1. Len(t[i].to \o Tail(w.rest)) = Len(t[i].to) + Len(Tail(w.rest))
      BY <1>2, <2>1, ConcatProperties
    <3> QED BY <1>2, <1>5, <2>1, <3>1
  <2>3. b # 0 /\ MaxHops - v.hops = b - 1
    BY <1>1, <1>5
  <2>4. Ahead(v) = Len(v.rest) + (b - 1) * MaxLink /\ Ahead(w) = Len(w.rest) + b * MaxLink
    BY <2>3 DEF Ahead
  <2> HIDE DEF b
  <2>5. b * MaxLink \in Nat /\ (b - 1) * MaxLink = b * MaxLink - MaxLink
    BY <1>1, <1>3, <2>3, TimesLess
  <2> DEFINE c == b * MaxLink
  <2>6. Ahead(v) = Len(t[i].to) + Len(w.rest) - 1 + (c - MaxLink) /\ Ahead(w) = Len(w.rest) + c
        /\ c \in Nat
    BY <2>2, <2>4, <2>5
  <2> HIDE DEF c
  <2> DEFINE l == Len(t[i].to)
             m == Len(w.rest)
  <2>7. l \in Nat /\ l <= MaxLink /\ m \in Nat /\ MaxLink \in Nat /\ c \in Nat
        /\ Ahead(v) = l + m - 1 + (c - MaxLink) /\ Ahead(w) = m + c
    BY <1>1, <1>2, <2>1, <2>6
  <2> HIDE DEF l, m
  <2> QED BY <2>7
<1> QED BY <1>4, <1>5 DEF Advances

LEMMA AheadIsNat ==
  ASSUME NEW t, NEW w \in AWalk(t)
  PROVE  Ahead(w) \in Nat /\ (Ahead(w) = 0 => w.rest = <<>>)
<1>1. /\ w.rest \in Seq(STRING) /\ w.hops \in 0 .. MaxHops /\ MaxHops \in Nat /\ MaxLink \in Nat
  BY MountsAssumption DEF AWalk
<1> DEFINE b == MaxHops - w.hops
           c == b * MaxLink
           l == Len(w.rest)
<1>2. b \in Nat /\ MaxLink \in Nat
  BY <1>1
<1>3. c \in Nat
  <2> HIDE DEF b
  <2> QED BY <1>2
<1>4. l \in Nat /\ (l = 0 => w.rest = <<>>)
  BY <1>1, EmptySeq
<1>5. Ahead(w) = l + c
  BY DEF Ahead
<1> HIDE DEF c, l
<1> QED BY <1>3, <1>4, <1>5

\* Where a walk ends.
End(t, points, asLogin, x) == After(WalkBy(t, points, asLogin), x, Ahead(x))

LEMMA WalkGoesOn ==
  ASSUME NEW t, NEW points, NEW asLogin, NEW x, NEW n \in Nat
  PROVE  After(WalkBy(t, points, asLogin), x, n + 1)
           = KernelStep(t, points, asLogin, After(WalkBy(t, points, asLogin), x, n))
<1> DEFINE what == WalkBy(t, points, asLogin)
<1>1. After(what, x, n + 1) = Moved(what, n + 1, After(what, x, n))
  BY AfterNext
<1>2. \A y, k : Moved(what, k, y) = KernelStep(t, points, asLogin, y)
  BY DEF Moved, WalkBy
<1> QED BY <1>1, <1>2

LEMMA WalkStays ==
  ASSUME NEW t, IsTree(t), NEW points, ArePoints(t, points), NEW asLogin, NEW x \in AWalk(t)
  PROVE  \A n \in Nat :
           LET v == After(WalkBy(t, points, asLogin), x, n)
           IN  /\ v \in AWalk(t) /\ v.base = x.base /\ (x.left => v.left)
               /\ Ended(v) \/ Ahead(v) <= Ahead(x) - n
<1> DEFINE v(n) == After(WalkBy(t, points, asLogin), x, n)
           Good(n) == /\ v(n) \in AWalk(t) /\ v(n).base = x.base /\ (x.left => v(n).left)
                      /\ Ended(v(n)) \/ Ahead(v(n)) <= Ahead(x) - n
           T == {n \in Nat : ~ Good(n)}
<1>1. Good(0)
  <2>1. v(0) = x /\ Ahead(x) \in Nat
    BY AfterNone, AheadIsNat
  <2> QED BY <2>1
<1>2. ASSUME NEW n \in Nat, Good(n)  PROVE  Good(n + 1)
  <2>1. v(n + 1) = KernelStep(t, points, asLogin, v(n))
    BY WalkGoesOn
  <2>2. CASE Ended(v(n))
    BY <1>2, <2>1, <2>2, StepEnded
  <2>3. CASE ~ Ended(v(n))
    <3> DEFINE y == v(n)
               z == v(n + 1)
    <3>1. y \in AWalk(t) /\ y.base = x.base /\ (x.left => y.left) /\ Ahead(y) <= Ahead(x) - n
          /\ ~ Ended(y) /\ z = KernelStep(t, points, asLogin, y)
      BY <1>2, <2>1, <2>3
    <3> HIDE DEF y, z
    <3>2. z \in AWalk(t) /\ Advances(t, y, z) /\ (y.left => z.left) /\ z.base = y.base
      BY <3>1, StepType
    <3>3. Ended(z) \/ Ahead(z) <= Ahead(y) - 1
      BY <3>1, <3>2, StepShortens
    <3>4. Ahead(z) \in Nat /\ Ahead(y) \in Nat /\ Ahead(x) \in Nat
      BY <3>1, <3>2, AheadIsNat
    <3>5. Ended(z) \/ Ahead(z) <= Ahead(x) - (n + 1)
      BY <3>1, <3>3, <3>4
    <3> QED BY <3>1, <3>2, <3>5 DEF y, z
  <2> QED BY <2>2, <2>3
<1> HIDE DEF Good
<1>3. T = {}
  <2> SUFFICES ASSUME T # {}  PROVE  FALSE
    OBVIOUS
  <2>1. PICK n \in T : \A m \in T : n <= m
    BY FirstPosition
  <2>2. n # 0
    BY <1>1, <2>1
  <2>3. n - 1 \in Nat /\ n - 1 \notin T /\ (n - 1) + 1 = n
    BY <2>1, <2>2
  <2> QED BY <1>2, <2>1, <2>3
<1>4. \A n \in Nat : Good(n)
  BY <1>3
<1> QED BY <1>4 DEF Good

LEMMA Settled ==
  ASSUME NEW t, NEW points, NEW asLogin, NEW x, NEW n \in Nat,
         Ended(After(WalkBy(t, points, asLogin), x, n))
  PROVE  \A m \in Nat : n <= m => After(WalkBy(t, points, asLogin), x, m)
                                    = After(WalkBy(t, points, asLogin), x, n)
<1> DEFINE v(m) == After(WalkBy(t, points, asLogin), x, m)
           T == {m \in Nat : n <= m /\ v(m) # v(n)}
<1>1. ASSUME NEW m \in Nat, v(m) = v(n)  PROVE  v(m + 1) = v(n)
  <2>1. v(m + 1) = KernelStep(t, points, asLogin, v(m))
    BY WalkGoesOn
  <2> QED BY <1>1, <2>1, StepEnded
<1> HIDE DEF v
<1>2. T = {}
  <2> SUFFICES ASSUME T # {}  PROVE  FALSE
    OBVIOUS
  <2>1. PICK m \in T : \A k \in T : m <= k
    BY FirstPosition
  <2>2. m # n
    BY <2>1
  <2>3. m - 1 \in Nat /\ n <= m - 1 /\ m - 1 \notin T /\ (m - 1) + 1 = m
    BY <2>1, <2>2
  <2> QED BY <1>1, <2>1, <2>3
<1>3. \A m \in Nat : n <= m => v(m) = v(n)
  BY <1>2
<1> QED BY <1>3 DEF v

LEMMA EndIs ==
  ASSUME NEW t, IsTree(t), NEW points, ArePoints(t, points), NEW asLogin, NEW x \in AWalk(t)
  PROVE  LET e == End(t, points, asLogin, x)
         IN  /\ e \in AWalk(t) /\ Ended(e) /\ e.base = x.base /\ (x.left => e.left)
             /\ \A n \in Nat : Ended(After(WalkBy(t, points, asLogin), x, n))
                                 => After(WalkBy(t, points, asLogin), x, n) = e
<1> DEFINE what == WalkBy(t, points, asLogin)
           N == Ahead(x)
           e == After(what, x, N)
<1>1. N \in Nat
  BY AheadIsNat
<1>2. /\ e \in AWalk(t) /\ e.base = x.base /\ (x.left => e.left)
      /\ Ended(e) \/ Ahead(e) <= N - N
  BY <1>1, WalkStays
<1> HIDE DEF N
<1>3. Ended(e)
  <2>1. Ahead(e) \in Nat /\ (Ahead(e) = 0 => e.rest = <<>>)
    BY <1>2, AheadIsNat
  <2> QED BY <1>1, <1>2, <2>1 DEF Ended
<1>4. ASSUME NEW n \in Nat, Ended(After(what, x, n))  PROVE  After(what, x, n) = e
  <2>1. CASE n <= N
    BY <1>1, <1>4, <2>1, Settled
  <2>2. CASE N <= n
    BY <1>1, <1>3, <2>2, Settled
  <2> QED BY <1>1, <2>1, <2>2
<1> QED BY <1>2, <1>3, <1>4 DEF End, N

LEMMA EndEnded ==
  ASSUME NEW t, IsTree(t), NEW points, ArePoints(t, points), NEW asLogin, NEW x \in AWalk(t),
         Ended(x)
  PROVE  End(t, points, asLogin, x) = x
<1>1. After(WalkBy(t, points, asLogin), x, 0) = x
  BY AfterNone
<1> QED BY <1>1, EndIs

LEMMA WalkShifts ==
  ASSUME NEW t, NEW points, NEW asLogin, NEW x
  PROVE  \A n \in Nat : After(WalkBy(t, points, asLogin), KernelStep(t, points, asLogin, x), n)
                          = After(WalkBy(t, points, asLogin), x, n + 1)
<1> DEFINE y == KernelStep(t, points, asLogin, x)
           u(n) == After(WalkBy(t, points, asLogin), x, n)
           v(n) == After(WalkBy(t, points, asLogin), y, n)
           T == {n \in Nat : v(n) # u(n + 1)}
<1>1. v(0) = u(0 + 1)
  <2>1. u(0) = x /\ v(0) = y
    BY AfterNone
  <2>2. u(0 + 1) = KernelStep(t, points, asLogin, u(0))
    BY WalkGoesOn
  <2> QED BY <2>1, <2>2
<1>2. ASSUME NEW n \in Nat, v(n) = u(n + 1)  PROVE  v(n + 1) = u((n + 1) + 1)
  <2>1. v(n + 1) = KernelStep(t, points, asLogin, v(n))
    BY WalkGoesOn
  <2>2. u((n + 1) + 1) = KernelStep(t, points, asLogin, u(n + 1))
    <3>1. n + 1 \in Nat
      OBVIOUS
    <3> QED BY <3>1, WalkGoesOn
  <2> QED BY <1>2, <2>1, <2>2
<1> HIDE DEF u, v
<1>3. T = {}
  <2> SUFFICES ASSUME T # {}  PROVE  FALSE
    OBVIOUS
  <2>1. PICK n \in T : \A m \in T : n <= m
    BY FirstPosition
  <2>2. n # 0
    BY <1>1, <2>1
  <2>3. n - 1 \in Nat /\ n - 1 \notin T /\ (n - 1) + 1 = n
    BY <2>1, <2>2
  <2> QED BY <1>2, <2>1, <2>3
<1>4. \A n \in Nat : v(n) = u(n + 1)
  BY <1>3
<1> QED BY <1>4 DEF u, v

\* A step on does not change where a walk ends.
LEMMA EndStep ==
  ASSUME NEW t, IsTree(t), NEW points, ArePoints(t, points), NEW asLogin, NEW x \in AWalk(t)
  PROVE  LET y == KernelStep(t, points, asLogin, x)
         IN  /\ y \in AWalk(t) /\ y.base = x.base /\ (x.left => y.left)
             /\ End(t, points, asLogin, y) = End(t, points, asLogin, x)
<1> DEFINE y == KernelStep(t, points, asLogin, x)
           what == WalkBy(t, points, asLogin)
           N == Ahead(y)
<1>1. y \in AWalk(t) /\ y.base = x.base /\ (x.left => y.left)
  <2>1. CASE Ended(x)
    BY <2>1, StepEnded
  <2>2. CASE ~ Ended(x)
    BY <2>2, StepType
  <2> QED BY <2>1, <2>2
<1> HIDE DEF y
<1>2. N \in Nat /\ N + 1 \in Nat
  BY <1>1, AheadIsNat
<1>3. Ended(End(t, points, asLogin, y))
  BY <1>1, EndIs
<1>4. End(t, points, asLogin, y) = After(what, y, N)
  BY DEF End
<1>5. After(what, y, N) = After(what, x, N + 1)
  BY <1>2, WalkShifts DEF y
<1>6. Ended(After(what, x, N + 1))
  BY <1>3, <1>4, <1>5
<1>7. After(what, x, N + 1) = End(t, points, asLogin, x)
  BY <1>2, <1>6, EndIs
<1> QED BY <1>1, <1>4, <1>5, <1>7 DEF y

\* A walk with more to go after what is left of it.
Plus(w, more) == [w EXCEPT !.rest = @ \o more]

LEMMA Fields ==
  ASSUME NEW t, NEW w \in AWalk(t)
  PROVE  w = [at |-> w.at, rest |-> w.rest, hops |-> w.hops, err |-> w.err, left |-> w.left,
              base |-> w.base]
BY DEF AWalk

LEMMA PlusOf ==
  ASSUME NEW w, NEW at, NEW rest, NEW hops, NEW err, NEW left, NEW base, NEW more,
         w = [at |-> at, rest |-> rest, hops |-> hops, err |-> err, left |-> left, base |-> base]
  PROVE  Plus(w, more) = [at |-> at, rest |-> rest \o more, hops |-> hops, err |-> err,
                          left |-> left, base |-> base]
<1> DEFINE to == rest \o more
<1>1. Plus(w, more) = [w EXCEPT !.rest = to]
  <2>1. w.rest = rest
    OBVIOUS
  <2> QED BY <2>1 DEF Plus
<1> HIDE DEF to
<1>2. Plus(w, more) = [at |-> at, rest |-> to, hops |-> hops, err |-> err, left |-> left,
                       base |-> base]
  BY <1>1
<1> QED BY <1>2 DEF to

LEMMA PlusIs ==
  ASSUME NEW t, NEW w \in AWalk(t), NEW more
  PROVE  Plus(w, more) = [at |-> w.at, rest |-> w.rest \o more, hops |-> w.hops, err |-> w.err,
                          left |-> w.left, base |-> w.base]
<1>1. w = [at |-> w.at, rest |-> w.rest, hops |-> w.hops, err |-> w.err, left |-> w.left,
           base |-> w.base]
  BY Fields
<1> QED BY <1>1, PlusOf

LEMMA PlusType ==
  ASSUME NEW t, NEW w \in AWalk(t), NEW more \in Seq(STRING)
  PROVE  Plus(w, more) \in AWalk(t)
<1>1. w.rest \o more \in Seq(STRING)
  BY DEF AWalk
<1> QED BY <1>1 DEF Plus, AWalk

LEMMA FrontOfMore ==
  ASSUME NEW rest \in Seq(STRING), rest # <<>>, NEW more \in Seq(STRING)
  PROVE  /\ rest \o more # <<>> /\ Head(rest \o more) = Head(rest)
         /\ Tail(rest \o more) = Tail(rest) \o more
         /\ Tail(rest) \in Seq(STRING) /\ rest \o more \in Seq(STRING)
         /\ \A to \in Seq(STRING) : to \o (Tail(rest) \o more) = (to \o Tail(rest)) \o more
<1>1. Len(rest) \in Nat \ {0} /\ Tail(rest) \in Seq(STRING)
  BY EmptySeq, HeadTailProperties
<1>2. rest \o more \in Seq(STRING) /\ Len(rest \o more) = Len(rest) + Len(more)
      /\ \A i \in 1 .. Len(rest) : (rest \o more)[i] = rest[i]
  BY <1>1
<1>3. rest \o more # <<>>
  <2>1. Len(more) \in Nat
    OBVIOUS
  <2>2. Len(rest \o more) # 0
    BY <1>1, <1>2, <2>1
  <2> QED BY <2>2, EmptySeq
<1>4. Head(rest \o more) = Head(rest)
  BY <1>1, <1>2
<1>5. Tail(rest \o more) = Tail(rest) \o more
  BY <1>1, <1>3
<1>6. \A to \in Seq(STRING) : to \o (Tail(rest) \o more) = (to \o Tail(rest)) \o more
  BY <1>1
<1> QED BY <1>1, <1>2, <1>3, <1>4, <1>5, <1>6

LEMMA PlusEntered ==
  ASSUME NEW t, IsTree(t), NEW w \in AWalk(t), ~ Ended(w), NEW more \in Seq(STRING), NEW name,
         NEW child \in DOMAIN t \cup {Absent}, name = Head(w.rest)
  PROVE  Entered(t, Plus(w, more), name, child) = Plus(Entered(t, w, name, child), more)
<1> DEFINE p == Plus(w, more)
<1>1. w.rest \in Seq(STRING) /\ w.rest # <<>>
  BY DEF AWalk, Ended
<1>2. Tail(w.rest \o more) = Tail(w.rest) \o more
      /\ \A to \in Seq(STRING) : to \o (Tail(w.rest) \o more) = (to \o Tail(w.rest)) \o more
  BY <1>1, FrontOfMore
<1>4. w = [at |-> w.at, rest |-> w.rest, hops |-> w.hops, err |-> w.err,
           left |-> w.left, base |-> w.base]
  BY Fields
<1>3. p = [at |-> w.at, rest |-> w.rest \o more, hops |-> w.hops, err |-> w.err,
           left |-> w.left, base |-> w.base]
  BY PlusIs
<1>5. CASE child = Absent
  <2>1. Entered(t, p, name, child) = [p EXCEPT !.err = "missing"]
        /\ Entered(t, w, name, child) = [w EXCEPT !.err = "missing"]
    BY <1>5 DEF Entered
  <2> QED BY <1>3, <1>4, <2>1 DEF Plus
<1>6. CASE child # Absent /\ t[child].kind # "link"
  <2> DEFINE e == [name |-> name, inode |-> child]
  <2>1. Entered(t, p, name, child) = [p EXCEPT !.rest = Tail(@), !.at = Append(@, e)]
        /\ Entered(t, w, name, child) = [w EXCEPT !.rest = Tail(@), !.at = Append(@, e)]
    BY <1>6 DEF Entered
  <2> HIDE DEF e
  <2> QED BY <1>2, <1>3, <1>4, <2>1 DEF Plus
<1>7. CASE child # Absent /\ t[child].kind = "link" /\ w.hops = MaxHops
  <2>1. Entered(t, p, name, child) = [p EXCEPT !.err = "loop"]
        /\ Entered(t, w, name, child) = [w EXCEPT !.err = "loop"]
    BY <1>3, <1>7 DEF Entered
  <2> QED BY <1>3, <1>4, <2>1 DEF Plus
<1>8. CASE child # Absent /\ t[child].kind = "link" /\ w.hops # MaxHops
  <2> DEFINE to == t[child].to
             abs == t[child].abs
  <2>1. to \in Seq(STRING)
    BY <1>8 DEF IsTree
  <2> DEFINE at == IF abs THEN <<Head(w.at)>> ELSE w.at
             hops == w.hops + 1
             left == w.left \/ abs
             longer == to \o Tail(w.rest \o more)
             rest == to \o Tail(w.rest)
  <2>2. p.rest = w.rest \o more /\ p.hops = w.hops /\ p.at = w.at /\ p.left = w.left
    BY <1>3
  <2>3. Entered(t, p, name, child)
          = [p EXCEPT !.rest = longer, !.hops = hops, !.at = at, !.left = left]
    <3> HIDE DEF p
    <3>1. Entered(t, p, name, child)
            = [p EXCEPT !.rest = to \o Tail(p.rest), !.hops = p.hops + 1,
                        !.at = IF abs THEN <<Head(p.at)>> ELSE p.at, !.left = p.left \/ abs]
      BY <1>8, <2>2 DEF Entered
    <3> QED BY <2>2, <3>1
  <2>4. Entered(t, w, name, child)
          = [w EXCEPT !.rest = rest, !.hops = hops, !.at = at, !.left = left]
    BY <1>8 DEF Entered
  <2>5. longer = rest \o more
    <3> HIDE DEF to
    <3> QED BY <1>2, <2>1
  <2> HIDE DEF at, hops, left, longer, rest
  <2>6. Entered(t, p, name, child)
          = [at |-> at, rest |-> longer, hops |-> hops, err |-> w.err, left |-> left,
             base |-> w.base]
    <3> HIDE DEF p
    <3> QED BY <1>3, <2>3
  <2>7. Entered(t, w, name, child)
          = [at |-> at, rest |-> rest, hops |-> hops, err |-> w.err, left |-> left,
             base |-> w.base]
    BY <1>4, <2>4
  <2>8. Plus(Entered(t, w, name, child), more)
          = [at |-> at, rest |-> rest \o more, hops |-> hops, err |-> w.err, left |-> left,
             base |-> w.base]
    <3>1. PICK z : z = Entered(t, w, name, child) /\ z \in AWalk(t)
      BY EnteredType
    <3>2. z = [at |-> at, rest |-> rest, hops |-> hops, err |-> w.err, left |-> left,
               base |-> w.base]
      BY <2>7, <3>1
    <3>3. Plus(z, more) = [at |-> at, rest |-> rest \o more, hops |-> hops, err |-> w.err,
                           left |-> left, base |-> w.base]
      <4>1. z.at = at /\ z.rest = rest /\ z.hops = hops /\ z.err = w.err /\ z.left = left
            /\ z.base = w.base
        BY <3>2
      <4>2. Plus(z, more) = [at |-> z.at, rest |-> z.rest \o more, hops |-> z.hops,
                             err |-> z.err, left |-> z.left, base |-> z.base]
        BY <3>1, PlusIs
      <4> QED BY <4>1, <4>2
    <3> QED BY <3>1, <3>3
  <2> QED BY <2>5, <2>6, <2>8
<1> QED BY <1>5, <1>6, <1>7, <1>8

LEMMA PlusStep ==
  ASSUME NEW t, IsTree(t), NEW points, ArePoints(t, points), NEW asLogin, NEW w \in AWalk(t),
         ~ Ended(w), NEW more \in Seq(STRING)
  PROVE  KernelStep(t, points, asLogin, Plus(w, more))
           = Plus(KernelStep(t, points, asLogin, w), more)
<1> DEFINE p == Plus(w, more)
<1>1. w.rest \in Seq(STRING) /\ w.rest # <<>> /\ w.err = Fine
  BY DEF AWalk, Ended
<1>2. w.rest \o more # <<>> /\ Head(w.rest \o more) = Head(w.rest)
      /\ Tail(w.rest \o more) = Tail(w.rest) \o more
  BY <1>1, FrontOfMore
<1>4. w = [at |-> w.at, rest |-> w.rest, hops |-> w.hops, err |-> w.err,
           left |-> w.left, base |-> w.base]
  BY Fields
<1>3. p = [at |-> w.at, rest |-> w.rest \o more, hops |-> w.hops, err |-> w.err,
           left |-> w.left, base |-> w.base]
  BY PlusIs
<1>5. Here(p) = Here(w) /\ p.rest # <<>> /\ p.err = Fine /\ Head(p.rest) = Head(w.rest)
  BY <1>1, <1>2, <1>3 DEF Here
<1>6. CASE t[Here(w)].kind # "dir"
  <2>1. KernelStep(t, points, asLogin, p) = [p EXCEPT !.err = "not a directory"]
        /\ KernelStep(t, points, asLogin, w) = [w EXCEPT !.err = "not a directory"]
    BY <1>1, <1>5, <1>6 DEF KernelStep
  <2> QED BY <1>3, <1>4, <2>1 DEF Plus
<1>7. CASE t[Here(w)].kind = "dir" /\ asLogin /\ t[Here(w)].shut
  <2>1. KernelStep(t, points, asLogin, p) = [p EXCEPT !.err = "denied"]
        /\ KernelStep(t, points, asLogin, w) = [w EXCEPT !.err = "denied"]
    BY <1>1, <1>5, <1>7 DEF KernelStep
  <2> QED BY <1>3, <1>4, <2>1 DEF Plus
<1>8. CASE t[Here(w)].kind = "dir" /\ ~ (asLogin /\ t[Here(w)].shut) /\ Head(w.rest) = Up
  <2> DEFINE at == IF Len(w.at) = 1 THEN w.at ELSE Front(w.at)
             left == w.left \/ Len(w.at) <= w.base
             longer == Tail(w.rest \o more)
             rest == Tail(w.rest)
  <2>1. p.rest = w.rest \o more /\ p.at = w.at /\ p.left = w.left /\ p.base = w.base
    BY <1>3
  <2>2. KernelStep(t, points, asLogin, p) = [p EXCEPT !.rest = longer, !.at = at, !.left = left]
    <3> HIDE DEF p
    <3>1. KernelStep(t, points, asLogin, p)
            = [p EXCEPT !.rest = Tail(p.rest), !.at = IF Len(p.at) = 1 THEN p.at ELSE Front(p.at),
                        !.left = p.left \/ Len(p.at) <= p.base]
      BY <1>5, <1>8 DEF KernelStep
    <3> QED BY <2>1, <3>1
  <2>3. KernelStep(t, points, asLogin, w) = [w EXCEPT !.rest = rest, !.at = at, !.left = left]
    BY <1>1, <1>8 DEF KernelStep
  <2>4. longer = rest \o more
    BY <1>2
  <2> HIDE DEF at, left, longer, rest
  <2>5. KernelStep(t, points, asLogin, p)
          = [at |-> at, rest |-> longer, hops |-> w.hops, err |-> w.err, left |-> left,
             base |-> w.base]
    <3> HIDE DEF p
    <3> QED BY <1>3, <2>2
  <2>6. KernelStep(t, points, asLogin, w)
          = [at |-> at, rest |-> rest, hops |-> w.hops, err |-> w.err, left |-> left,
             base |-> w.base]
    BY <1>4, <2>3
  <2>7. Plus(KernelStep(t, points, asLogin, w), more)
          = [at |-> at, rest |-> rest \o more, hops |-> w.hops, err |-> w.err, left |-> left,
             base |-> w.base]
    <3>1. PICK z : z = KernelStep(t, points, asLogin, w) /\ z \in AWalk(t)
      BY StepType
    <3>2. z = [at |-> at, rest |-> rest, hops |-> w.hops, err |-> w.err, left |-> left,
               base |-> w.base]
      BY <2>6, <3>1
    <3>3. Plus(z, more) = [at |-> at, rest |-> rest \o more, hops |-> w.hops, err |-> w.err,
                           left |-> left, base |-> w.base]
      <4>1. z.at = at /\ z.rest = rest /\ z.hops = w.hops /\ z.err = w.err /\ z.left = left
            /\ z.base = w.base
        BY <3>2
      <4>2. Plus(z, more) = [at |-> z.at, rest |-> z.rest \o more, hops |-> z.hops,
                             err |-> z.err, left |-> z.left, base |-> z.base]
        BY <3>1, PlusIs
      <4> QED BY <4>1, <4>2
    <3> QED BY <3>1, <3>3
  <2> QED BY <2>4, <2>5, <2>7
<1>9. CASE t[Here(w)].kind = "dir" /\ ~ (asLogin /\ t[Here(w)].shut) /\ Head(w.rest) # Up
  <2> DEFINE name == Head(w.rest)
             child == Child(t, points, w.at, name)
  <2>1. KernelStep(t, points, asLogin, p) = Entered(t, p, name, child)
    <3>1. p.at = w.at
      BY <1>3
    <3> QED BY <1>5, <1>9, <3>1 DEF KernelStep
  <2>2. KernelStep(t, points, asLogin, w) = Entered(t, w, name, child)
    BY <1>1, <1>9 DEF KernelStep
  <2>3. child \in DOMAIN t \cup {Absent}
    BY <1>9, ChildInTree
  <2> QED BY <2>1, <2>2, <2>3, PlusEntered
<1> QED BY <1>6, <1>7, <1>8, <1>9

\* A walk of two parts ends where the second does that sets out from the end of the
\* first.
LEMMA Joins ==
  ASSUME NEW t, IsTree(t), NEW points, ArePoints(t, points), NEW asLogin, NEW x \in AWalk(t),
         NEW more \in Seq(STRING)
  PROVE  End(t, points, asLogin, Plus(x, more))
           = End(t, points, asLogin, Plus(End(t, points, asLogin, x), more))
<1> DEFINE v(n) == After(WalkBy(t, points, asLogin), x, n)
           Ends(w) == End(t, points, asLogin, Plus(w, more))
           T == {n \in Nat : Ends(v(n)) # Ends(x)}
<1>1. Ends(v(0)) = Ends(x)
  BY AfterNone
<1>2. ASSUME NEW n \in Nat, Ends(v(n)) = Ends(x)  PROVE  Ends(v(n + 1)) = Ends(x)
  <2> DEFINE y == v(n)
             z == v(n + 1)
  <2>1. z = KernelStep(t, points, asLogin, y)
    BY WalkGoesOn
  <2>2. y \in AWalk(t)
    BY WalkStays
  <2> HIDE DEF y, z
  <2>3. CASE Ended(y)
    <3>1. z = y
      BY <2>1, <2>3, StepEnded
    <3> QED BY <1>2, <3>1 DEF y, z
  <2>4. CASE ~ Ended(y)
    <3>1. Plus(z, more) = KernelStep(t, points, asLogin, Plus(y, more))
      BY <2>1, <2>2, <2>4, PlusStep
    <3>2. Plus(y, more) \in AWalk(t)
      BY <2>2, PlusType
    <3>3. Ends(z) = Ends(y)
      BY <3>1, <3>2, EndStep
    <3> QED BY <1>2, <3>3 DEF y, z
  <2> QED BY <2>3, <2>4
<1> HIDE DEF v, Ends
<1>3. T = {}
  <2> SUFFICES ASSUME T # {}  PROVE  FALSE
    OBVIOUS
  <2>1. PICK n \in T : \A m \in T : n <= m
    BY FirstPosition
  <2>2. n # 0
    BY <1>1, <2>1
  <2>3. n - 1 \in Nat /\ n - 1 \notin T /\ (n - 1) + 1 = n
    BY <2>1, <2>2
  <2> QED BY <1>2, <2>1, <2>3
<1>4. Ahead(x) \in Nat
  BY AheadIsNat
<1>5. Ends(v(Ahead(x))) = Ends(x)
  BY <1>3, <1>4
<1> QED BY <1>5 DEF v, Ends, End

\* A login walks as root does, or is kept out.
LEMMA LoginWalks ==
  ASSUME NEW t, IsTree(t), NEW x \in AWalk(t)
  PROVE  End(t, {}, TRUE, x) \in {End(t, {}, FALSE, x)} \/ End(t, {}, TRUE, x).err = "denied"
<1> DEFINE u(n) == After(WalkBy(t, {}, TRUE), x, n)
           v(n) == After(WalkBy(t, {}, FALSE), x, n)
           Good(n) == u(n) = v(n) \/ u(n).err = "denied"
           T == {n \in Nat : ~ Good(n)}
<1>1. Good(0)
  BY AfterNone
<1>2. ASSUME NEW n \in Nat, Good(n)  PROVE  Good(n + 1)
  <2>1. u(n + 1) = KernelStep(t, {}, TRUE, u(n)) /\ v(n + 1) = KernelStep(t, {}, FALSE, v(n))
    BY WalkGoesOn
  <2> DEFINE y == u(n)
  <2>2. CASE y.err = "denied"
    <3>1. Ended(y)
      BY <2>2 DEF Ended, Fine
    <3> QED BY <2>1, <2>2, <3>1, StepEnded
  <2>3. CASE y.err # "denied"
    <3>1. y = v(n) /\ y \in AWalk(t)
      <4>1. ArePoints(t, {})
        BY DEF ArePoints
      <4> QED BY <1>2, <2>3, <4>1, WalkStays
    <3> HIDE DEF y
    <3>2. CASE y.rest # <<>> /\ y.err = Fine /\ t[Here(y)].kind = "dir" /\ t[Here(y)].shut
      <4>1. KernelStep(t, {}, TRUE, y) = [y EXCEPT !.err = "denied"]
        BY <3>2 DEF KernelStep
      <4>2. KernelStep(t, {}, TRUE, y).err = "denied"
        BY <3>1, <4>1 DEF AWalk
      <4> QED BY <2>1, <4>2 DEF y
    <3>3. CASE ~ (y.rest # <<>> /\ y.err = Fine /\ t[Here(y)].kind = "dir" /\ t[Here(y)].shut)
      <4>1. KernelStep(t, {}, TRUE, y) = KernelStep(t, {}, FALSE, y)
        BY <3>3 DEF KernelStep
      <4> QED BY <2>1, <3>1, <4>1 DEF y
    <3> QED BY <3>2, <3>3
  <2> QED BY <2>2, <2>3
<1> HIDE DEF Good
<1>3. T = {}
  <2> SUFFICES ASSUME T # {}  PROVE  FALSE
    OBVIOUS
  <2>1. PICK n \in T : \A m \in T : n <= m
    BY FirstPosition
  <2>2. n # 0
    BY <1>1, <2>1
  <2>3. n - 1 \in Nat /\ n - 1 \notin T /\ (n - 1) + 1 = n
    BY <2>1, <2>2
  <2> QED BY <1>2, <2>1, <2>3
<1> DEFINE N == Ahead(x)
           a == End(t, {}, TRUE, x)
           b == End(t, {}, FALSE, x)
<1>4. N \in Nat
  BY AheadIsNat
<1>5. a = u(N) /\ b = v(N)
  BY DEF End
<1>6. Good(N)
  BY <1>3, <1>4
<1> QED BY <1>5, <1>6 DEF Good

LEMMA SetOutType ==
  ASSUME NEW t, NEW at \in Seq(Entry(t)) \ {<<>>}, NEW path \in Seq(STRING)
  PROVE  /\ SetOut(at, path) \in AWalk(t) /\ Steps(path) \in Nat
         /\ Ahead(SetOut(at, path)) = Steps(path)
<1>1. MaxHops \in Nat /\ MaxLink \in Nat /\ Len(at) \in Nat
  BY MountsAssumption
<1>2. SetOut(at, path) \in AWalk(t)
  BY <1>1 DEF SetOut, AWalk, Errors, Fine
<1>3. Ahead(SetOut(at, path)) = Steps(path)
  <2>1. SetOut(at, path).rest = path /\ SetOut(at, path).hops = 0 /\ MaxHops - 0 = MaxHops
    BY <1>1 DEF SetOut
  <2> QED BY <2>1 DEF Ahead, Steps
<1> QED BY <1>2, <1>3, AheadIsNat

LEMMA KernelEnds ==
  ASSUME NEW t, NEW points, NEW asLogin, NEW at \in Seq(Entry(t)) \ {<<>>},
         NEW path \in Seq(STRING)
  PROVE  Kernel(t, points, asLogin, at, path) = End(t, points, asLogin, SetOut(at, path))
<1>1. Steps(path) \in Nat /\ Ahead(SetOut(at, path)) = Steps(path)
  BY SetOutType
<1> QED BY <1>1, KernelIs DEF End

LEMMA RootType ==
  ASSUME NEW t, NEW inode \in DOMAIN t
  PROVE  RootAt(inode) \in Seq(Entry(t)) \ {<<>>}
<1> DEFINE e == [name |-> "/", inode |-> inode]
<1>1. e \in Entry(t)
  BY DEF Entry
<1> HIDE DEF e
<1>2. <<e>> \in Seq(Entry(t)) \ {<<>>}
  BY <1>1
<1> QED BY <1>2 DEF RootAt, e

\* The walks on the host, of a login and of root.
LEMMA HostEnds ==
  ASSUME NEW t, IsTree(t), NEW path \in Seq(STRING)
  PROVE  /\ OnHost(t, path) \in AWalk(t) /\ Ended(OnHost(t, path))
         /\ AsRoot(t, path) \in AWalk(t) /\ Ended(AsRoot(t, path))
         /\ AsRoot(t, path) = End(t, {}, FALSE, SetOut(RootAt(HostRoot), path))
         /\ OnHost(t, path) = AsRoot(t, path) \/ OnHost(t, path).err = "denied"
<1> DEFINE x == SetOut(RootAt(HostRoot), path)
<1>1. RootAt(HostRoot) \in Seq(Entry(t)) \ {<<>>}
  BY RootType DEF IsTree
<1>2. x \in AWalk(t) /\ ArePoints(t, {})
  BY <1>1, SetOutType DEF ArePoints
<1>3. OnHost(t, path) = End(t, {}, TRUE, x) /\ AsRoot(t, path) = End(t, {}, FALSE, x)
  BY <1>1, KernelEnds DEF OnHost, AsRoot
<1> HIDE DEF x
<1>4. /\ End(t, {}, TRUE, x) \in AWalk(t) /\ Ended(End(t, {}, TRUE, x))
      /\ End(t, {}, FALSE, x) \in AWalk(t) /\ Ended(End(t, {}, FALSE, x))
  BY <1>2, EndIs
<1>5. End(t, {}, TRUE, x) = End(t, {}, FALSE, x) \/ End(t, {}, TRUE, x).err = "denied"
  BY <1>2, LoginWalks
<1> QED BY <1>3, <1>4, <1>5 DEF x

LEMMA HostJoins ==
  ASSUME NEW t, IsTree(t), NEW path \in Seq(STRING), NEW more \in Seq(STRING)
  PROVE  AsRoot(t, path \o more) = End(t, {}, FALSE, Plus(AsRoot(t, path), more))
<1> DEFINE at == RootAt(HostRoot)
           x == SetOut(at, path)
<1>1. at \in Seq(Entry(t)) \ {<<>>}
  BY RootType DEF IsTree
<1>2. x \in AWalk(t) /\ ArePoints(t, {}) /\ path \o more \in Seq(STRING)
  BY <1>1, SetOutType DEF ArePoints
<1>3. Plus(x, more) = SetOut(at, path \o more)
  <2>1. Plus(x, more) = [at |-> x.at, rest |-> x.rest \o more, hops |-> x.hops, err |-> x.err,
                         left |-> x.left, base |-> x.base]
    BY <1>2, PlusIs
  <2> QED BY <2>1 DEF SetOut
<1>4. AsRoot(t, path) = End(t, {}, FALSE, x)
      /\ AsRoot(t, path \o more) = End(t, {}, FALSE, SetOut(at, path \o more))
  BY <1>2, HostEnds
<1> HIDE DEF x
<1>5. End(t, {}, FALSE, Plus(x, more)) = End(t, {}, FALSE, Plus(End(t, {}, FALSE, x), more))
  <2>1. x \in AWalk(t) /\ ArePoints(t, {})
    BY <1>2
  <2>2. \A l : End(t, {}, l, Plus(x, more)) = End(t, {}, l, Plus(End(t, {}, l, x), more))
    BY <2>1, Joins
  <2> QED BY <2>2
<1> QED BY <1>3, <1>4, <1>5

-----------------------------------------------------------------------------
(* A step of a walk as root over no mount, case by case.                   *)

RootStep(t, v) == KernelStep(t, {}, FALSE, v)
RootEnd(t, v)  == End(t, {}, FALSE, v)
NextChild(t, v)    == t[Here(v)].names[Head(v.rest)]

LEMMA RootSteps ==
  ASSUME NEW t, IsTree(t), NEW v \in AWalk(t)
  PROVE  /\ RootStep(t, v) \in AWalk(t) /\ RootStep(t, v).base = v.base
         /\ RootEnd(t, RootStep(t, v)) = RootEnd(t, v)
         /\ Ended(RootStep(t, v)) => RootEnd(t, v) = RootStep(t, v)
         /\ RootStep(t, v).left => RootEnd(t, v).left
<1> DEFINE y == RootStep(t, v)
<1>1. ArePoints(t, {})
  BY DEF ArePoints
<1>2. y \in AWalk(t) /\ y.base = v.base /\ RootEnd(t, y) = RootEnd(t, v)
  BY <1>1, EndStep DEF RootStep, RootEnd
<1>3. Ended(y) => RootEnd(t, y) = y
  BY <1>1, <1>2, EndEnded DEF RootEnd
<1>4. y.left => RootEnd(t, y).left
  BY <1>1, <1>2, EndIs DEF RootEnd
<1> QED BY <1>2, <1>3, <1>4

LEMMA StopsAtFile ==
  ASSUME NEW t, IsTree(t), NEW v \in AWalk(t), v.err = Fine, v.rest # <<>>,
         t[Here(v)].kind # "dir"
  PROVE  RootEnd(t, v) = [v EXCEPT !.err = "not a directory"]
<1>1. RootStep(t, v) = [v EXCEPT !.err = "not a directory"]
  BY DEF RootStep, KernelStep
<1>2. Ended(RootStep(t, v))
  BY <1>1 DEF AWalk, Fine, Ended
<1> QED BY <1>1, <1>2, RootSteps

LEMMA GoesUp ==
  ASSUME NEW t, IsTree(t), NEW v \in AWalk(t), v.err = Fine, v.rest # <<>>,
         t[Here(v)].kind = "dir", Head(v.rest) = Up, v.base > 0
  PROVE  LET y == RootStep(t, v)
         IN  /\ Len(v.at) <= v.base => RootEnd(t, v).left
             /\ Len(v.at) > v.base =>
                  /\ y.err = Fine /\ y.hops = v.hops /\ y.left = v.left
                  /\ y.rest = Tail(v.rest) /\ y.at = Front(v.at)
<1> DEFINE y == RootStep(t, v)
           at == IF Len(v.at) = 1 THEN v.at ELSE Front(v.at)
           left == v.left \/ Len(v.at) <= v.base
<1>1. v.left \in BOOLEAN /\ v.base \in Nat /\ Len(v.at) \in Nat
  BY DEF AWalk
<1>2. y = [v EXCEPT !.rest = Tail(v.rest), !.at = at, !.left = left]
  BY DEF RootStep, KernelStep
<1>3. y.rest = Tail(v.rest) /\ y.at = at /\ y.left = left /\ y.hops = v.hops /\ y.err = Fine
  <2> HIDE DEF y, at, left
  <2> QED BY <1>2 DEF AWalk
<1>4. ASSUME Len(v.at) > v.base  PROVE  at = Front(v.at) /\ left = v.left
  <2> DEFINE m == Len(v.at)
             b == v.base
  <2>1. m \in Nat /\ b \in Nat /\ m > b /\ b > 0
    BY <1>1, <1>4
  <2> HIDE DEF m, b
  <2>2. ~ (m <= b) /\ m # 1
    BY <2>1
  <2> QED BY <1>1, <2>2 DEF m, b
<1>5. Len(v.at) <= v.base => y.left
  BY <1>3
<1> HIDE DEF y, at, left
<1>6. Len(v.at) <= v.base => RootEnd(t, v).left
  BY <1>5, RootSteps DEF y
<1> QED BY <1>3, <1>4, <1>6 DEF y

LEMMA ChildIs ==
  ASSUME NEW t, IsTree(t), NEW v \in AWalk(t), v.err = Fine, v.rest # <<>>,
         t[Here(v)].kind = "dir", Head(v.rest) # Up
  PROVE  /\ Head(v.rest) \in DOMAIN t[Here(v)].names =>
              /\ NextChild(t, v) \in DOMAIN t /\ NextChild(t, v) # Absent
              /\ RootStep(t, v) = Entered(t, v, Head(v.rest), NextChild(t, v))
         /\ Head(v.rest) \notin DOMAIN t[Here(v)].names =>
              RootStep(t, v) = [v EXCEPT !.err = "missing"]
<1> DEFINE name == Head(v.rest)
           c == Child(t, {}, v.at, name)
<1>1. c = IF name \in DOMAIN t[Here(v)].names THEN NextChild(t, v) ELSE Absent
  BY DEF Child, Here, NextChild
<1>2. RootStep(t, v) = Entered(t, v, name, c)
  BY DEF RootStep, KernelStep
<1>3. Here(v) \in DOMAIN t /\ Absent \notin DOMAIN t
  BY HereInTree DEF IsTree
<1>4. name \in DOMAIN t[Here(v)].names => NextChild(t, v) \in DOMAIN t
  BY <1>3 DEF IsTree, Range, NextChild
<1>5. name \notin DOMAIN t[Here(v)].names => RootStep(t, v) = [v EXCEPT !.err = "missing"]
  BY <1>1, <1>2 DEF Entered
<1> QED BY <1>1, <1>2, <1>3, <1>4, <1>5

LEMMA Misses ==
  ASSUME NEW t, IsTree(t), NEW v \in AWalk(t), v.err = Fine, v.rest # <<>>,
         t[Here(v)].kind = "dir", Head(v.rest) # Up,
         Head(v.rest) \notin DOMAIN t[Here(v)].names
  PROVE  RootEnd(t, v) = [v EXCEPT !.err = "missing"]
<1>1. RootStep(t, v) = [v EXCEPT !.err = "missing"]
  BY ChildIs
<1>2. Ended(RootStep(t, v))
  BY <1>1 DEF AWalk, Fine, Ended
<1> QED BY <1>1, <1>2, RootSteps

LEMMA Enters ==
  ASSUME NEW t, IsTree(t), NEW v \in AWalk(t), v.err = Fine, v.rest # <<>>,
         t[Here(v)].kind = "dir", Head(v.rest) # Up,
         Head(v.rest) \in DOMAIN t[Here(v)].names, t[NextChild(t, v)].kind # "link"
  PROVE  LET y == RootStep(t, v)
         IN  /\ y.err = Fine /\ y.hops = v.hops /\ y.left = v.left /\ y.rest = Tail(v.rest)
             /\ y.at = Append(v.at, [name |-> Head(v.rest), inode |-> NextChild(t, v)])
<1> DEFINE at == Append(v.at, [name |-> Head(v.rest), inode |-> NextChild(t, v)])
           rest == Tail(v.rest)
<1>1. RootStep(t, v) = [v EXCEPT !.rest = rest, !.at = at]
  BY ChildIs DEF Entered
<1> HIDE DEF at, rest
<1>2. LET y == RootStep(t, v)
      IN  y.err = Fine /\ y.hops = v.hops /\ y.left = v.left /\ y.rest = rest /\ y.at = at
  BY <1>1 DEF AWalk
<1> QED BY <1>2 DEF at, rest

LEMMA LinkLoops ==
  ASSUME NEW t, IsTree(t), NEW v \in AWalk(t), v.err = Fine, v.rest # <<>>,
         t[Here(v)].kind = "dir", Head(v.rest) # Up,
         Head(v.rest) \in DOMAIN t[Here(v)].names, t[NextChild(t, v)].kind = "link",
         v.hops = MaxHops
  PROVE  RootEnd(t, v).err = "loop"
<1> DEFINE y == RootStep(t, v)
<1>1. y = Entered(t, v, Head(v.rest), NextChild(t, v)) /\ NextChild(t, v) # Absent
  BY ChildIs
<1>2. y = [v EXCEPT !.err = "loop"]
  BY <1>1 DEF Entered
<1> HIDE DEF y
<1>3. y.err = "loop"
  BY <1>2 DEF AWalk
<1>4. RootEnd(t, v) = y
  BY <1>3, RootSteps DEF Ended, Fine, y
<1> QED BY <1>3, <1>4

LEMMA LinkGoes ==
  ASSUME NEW t, IsTree(t), NEW v \in AWalk(t), v.err = Fine, v.rest # <<>>,
         t[Here(v)].kind = "dir", Head(v.rest) # Up,
         Head(v.rest) \in DOMAIN t[Here(v)].names, t[NextChild(t, v)].kind = "link",
         v.hops # MaxHops
  PROVE  LET y == RootStep(t, v)
             c == NextChild(t, v)
         IN  /\ y.rest = t[c].to \o Tail(v.rest) /\ y.hops = v.hops + 1 /\ y.err = Fine
             /\ y.at = IF t[c].abs THEN <<Head(v.at)>> ELSE v.at
             /\ y.left = (v.left \/ t[c].abs)
<1> DEFINE y == RootStep(t, v)
           c == NextChild(t, v)
           at == IF t[c].abs THEN <<Head(v.at)>> ELSE v.at
           left == v.left \/ t[c].abs
           rest == t[c].to \o Tail(v.rest)
<1>1. y = Entered(t, v, Head(v.rest), c) /\ c # Absent
  BY ChildIs
<1>2. y = [v EXCEPT !.rest = rest, !.hops = v.hops + 1, !.at = at, !.left = left]
  BY <1>1 DEF Entered
<1> HIDE DEF at, left, rest, y, c
<1>3. y.rest = rest /\ y.at = at /\ y.left = left /\ y.hops = v.hops + 1 /\ y.err = Fine
  BY <1>2 DEF AWalk
<1>4. y.left = (v.left \/ t[c].abs)
  BY <1>3, Zenon DEF left
<1> QED BY <1>3, <1>4 DEF at, rest, y, c

LEMMA LinkLeaves ==
  ASSUME NEW t, IsTree(t), NEW v \in AWalk(t), v.err = Fine, v.rest # <<>>,
         t[Here(v)].kind = "dir", Head(v.rest) # Up,
         Head(v.rest) \in DOMAIN t[Here(v)].names, t[NextChild(t, v)].kind = "link",
         v.hops # MaxHops, t[NextChild(t, v)].abs
  PROVE  RootEnd(t, v).left
<1>1. RootStep(t, v).left = (v.left \/ t[NextChild(t, v)].abs)
  BY LinkGoes
<1>2. RootStep(t, v).left
  BY <1>1, Zenon
<1> QED BY <1>2, RootSteps

LEMMA FollowsLink ==
  ASSUME NEW t, IsTree(t), NEW v \in AWalk(t), v.err = Fine, v.rest # <<>>,
         t[Here(v)].kind = "dir", Head(v.rest) # Up,
         Head(v.rest) \in DOMAIN t[Here(v)].names, t[NextChild(t, v)].kind = "link",
         v.hops # MaxHops, ~ t[NextChild(t, v)].abs
  PROVE  /\ RootStep(t, v).err = Fine /\ RootStep(t, v).hops = v.hops + 1
         /\ RootStep(t, v).rest = t[NextChild(t, v)].to \o Tail(v.rest)
         /\ RootStep(t, v).at = v.at
BY LinkGoes

\* One name more on the host: what it stands for, or nothing.
LEMMA OneMore ==
  ASSUME NEW t, IsTree(t), NEW path \in Seq(STRING), AsRoot(t, path).err = Fine,
         NEW name \in STRING, name # Up, t[Here(AsRoot(t, path))].kind = "dir"
  PROVE  LET names == t[Here(AsRoot(t, path))].names
             w == AsRoot(t, Append(path, name))
         IN  /\ name \in DOMAIN names /\ t[names[name]].kind # "link"
                  => w.err = Fine /\ Here(w) = names[name]
             /\ name \notin DOMAIN names => w.err = "missing"
<1> DEFINE u == AsRoot(t, path)
           v == Plus(u, <<name>>)
           names == t[Here(u)].names
           w == AsRoot(t, Append(path, name))
<1>1. u \in AWalk(t) /\ u.rest = <<>> /\ u.err = Fine
  BY HostEnds DEF Ended
<1>2. <<name>> \in Seq(STRING) /\ Append(path, name) = path \o <<name>> /\ ArePoints(t, {})
  BY DEF ArePoints
<1>3. w = RootEnd(t, v)
  BY <1>2, HostJoins DEF RootEnd
<1>4. v = [at |-> u.at, rest |-> u.rest \o <<name>>, hops |-> u.hops, err |-> u.err,
           left |-> u.left, base |-> u.base]
  BY <1>1, PlusIs
<1>6. v \in AWalk(t)
  BY <1>1, <1>2, PlusType
<1> HIDE DEF u, w, v
<1>5. v.at = u.at /\ v.rest = <<name>> /\ v.err = Fine
  <2>1. v.rest = u.rest \o <<name>> /\ v.at = u.at /\ v.err = u.err
    BY <1>4
  <2> QED BY <1>1, <2>1
<1>7. Here(v) = Here(u) /\ Head(v.rest) = name /\ Tail(v.rest) = <<>> /\ v.rest # <<>>
  BY <1>5 DEF Here
<1>8. t[Here(v)].kind = "dir" /\ t[Here(v)].names = names
      /\ NextChild(t, v) = names[name]
  BY <1>7 DEF u, NextChild
<1> HIDE DEF names
<1>9. ASSUME name \in DOMAIN names, t[names[name]].kind # "link"
      PROVE  w.err = Fine /\ Here(w) = names[name]
  <2> DEFINE e == [name |-> name, inode |-> names[name]]
             y == RootStep(t, v)
  <2>1. y.err = Fine /\ y.rest = <<>> /\ y.at = Append(v.at, e)
    BY <1>5, <1>6, <1>7, <1>8, <1>9, Enters
  <2> HIDE DEF y
  <2>2. w = y
    BY <1>3, <1>6, <2>1, RootSteps DEF Ended, y
  <2>4. v.at \in Seq(Entry(t))
    BY <1>6 DEF AWalk
  <2>5. Last(Append(v.at, e)) = e
    <3> HIDE DEF e
    <3>1. Len(Append(v.at, e)) = Len(v.at) + 1 /\ Append(v.at, e)[Len(v.at) + 1] = e
      BY <2>4, AppendProperties
    <3> QED BY <3>1 DEF Last
  <2>6. Here(w) = e.inode
    BY <2>1, <2>2, <2>5 DEF Here
  <2> QED BY <2>1, <2>2, <2>6
<1>10. ASSUME name \notin DOMAIN names  PROVE  w.err = "missing"
  <2>1. w = [v EXCEPT !.err = "missing"]
    BY <1>3, <1>5, <1>6, <1>7, <1>8, <1>10, Misses
  <2> QED BY <1>6, <2>1 DEF AWalk
<1> QED BY <1>9, <1>10 DEF u, w, names

-----------------------------------------------------------------------------
(* A read follows the kernel of the container.                             *)

\* An entry of a directory that is no link.
IsEntry(t, i, e) ==
    /\ t[i].kind = "dir" /\ e.name # Up /\ e.name \in DOMAIN t[i].names
    /\ e.inode = t[i].names[e.name] /\ t[e.inode].kind # "link"

\* `names` are those of the entries of `at` behind the k-th.
Leads(t, at, k, names) ==
    /\ k + Len(names) = Len(at)
    /\ \A j \in 1 .. Len(names) :
          names[j] = at[k + j].name /\ IsEntry(t, at[k + j - 1].inode, at[k + j])

LEMMA LongerPath ==
  ASSUME NEW path \in Seq(STRING), NEW names \in Seq(STRING), NEW n \in Nat, n < Len(names)
  PROVE  /\ path \o SubSeq(names, 1, n) \in Seq(STRING)
         /\ path \o SubSeq(names, 1, n + 1) = Append(path \o SubSeq(names, 1, n), names[n + 1])
         /\ names[n + 1] \in STRING
<1> DEFINE p == SubSeq(names, 1, n)
           q == SubSeq(names, 1, n + 1)
           x == names[n + 1]
<1>1. Len(names) \in Nat /\ n + 1 \in 1 .. Len(names) /\ 1 \in 1 .. Len(names)
      /\ (n + 1) - 1 = n
  OBVIOUS
<1>2. x \in STRING
  BY <1>1, ElementOfSeq
<1>3. p \in Seq(STRING)
  <2>1. \A i \in 1 .. n : names[i] \in STRING
    BY <1>1, ElementOfSeq
  <2> QED BY <2>1, SubSeqProperties
<1>4. q = p \o <<x>>
  BY <1>1, SubSeqRecursiveSecond
<1> HIDE DEF p, q, x
<1>5. path \o p \in Seq(STRING)
  BY <1>3, ConcatProperties
<1>6. Append(path \o p, x) = (path \o p) \o <<x>>
  BY <1>2, <1>5, AppendIsConcat
<1>7. <<x>> \in Seq(STRING)
  <2>1. \A S, y : y \in S => <<y>> \in Seq(S)
    OBVIOUS
  <2> QED BY <1>2, <2>1
<1>8. (path \o p) \o <<x>> = path \o (p \o <<x>>)
  BY <1>3, <1>7, ConcatAssociative
<1> QED BY <1>2, <1>4, <1>5, <1>6, <1>8 DEF p, q, x

\* On the host such names lead to the same inode.
LEMMA HostLeads ==
  ASSUME NEW t, IsTree(t), NEW source \in Seq(STRING), AsRoot(t, source).err = Fine,
         NEW at \in Seq(Entry(t)), NEW k \in 1 .. Len(at), NEW names \in Seq(STRING),
         at[k].inode = Here(AsRoot(t, source)), Leads(t, at, k, names)
  PROVE  /\ AsRoot(t, source \o names).err = Fine
         /\ Here(AsRoot(t, source \o names)) = at[k + Len(names)].inode
<1> DEFINE w(n) == AsRoot(t, source \o SubSeq(names, 1, n))
           Good(n) == w(n).err = Fine /\ Here(w(n)) = at[k + n].inode
           T == {n \in Nat : n <= Len(names) /\ ~ Good(n)}
<1>0. Len(names) \in Nat /\ Len(at) \in Nat
  OBVIOUS
<1>1. Good(0)
  <2>1. SubSeq(names, 1, 0) = <<>> /\ source \o <<>> = source /\ k + 0 = k
    OBVIOUS
  <2> QED BY <2>1
<1>2. ASSUME NEW n \in Nat, n < Len(names), Good(n)  PROVE  Good(n + 1)
  <2> DEFINE path == source \o SubSeq(names, 1, n)
             name == names[n + 1]
             i == at[k + n].inode
  <2>1. path \in Seq(STRING) /\ source \o SubSeq(names, 1, n + 1) = Append(path, name)
        /\ name \in STRING
    BY <1>2, LongerPath
  <2>2. AsRoot(t, path).err = Fine /\ Here(AsRoot(t, path)) = i
    BY <1>2
  <2>3. name = at[k + (n + 1)].name /\ IsEntry(t, i, at[k + (n + 1)])
    <3>1. n + 1 \in 1 .. Len(names) /\ k + (n + 1) - 1 = k + n
      BY <1>0, <1>2
    <3> QED BY <3>1 DEF Leads
  <2>4. w(n + 1) = AsRoot(t, Append(path, name))
    BY <2>1
  <2> HIDE DEF w, path, name, i
  <2>5. w(n + 1).err = Fine /\ Here(w(n + 1)) = t[i].names[name]
    BY <2>1, <2>2, <2>3, <2>4, OneMore DEF IsEntry
  <2> QED BY <2>3, <2>5 DEF IsEntry
<1> HIDE DEF Good
<1>3. T = {}
  <2> SUFFICES ASSUME T # {}  PROVE  FALSE
    OBVIOUS
  <2>1. PICK n \in T : \A m \in T : n <= m
    BY FirstPosition
  <2>2. n # 0
    BY <1>1, <2>1
  <2>3. n - 1 \in Nat /\ n - 1 \notin T /\ (n - 1) + 1 = n /\ n - 1 < Len(names)
    BY <1>0, <2>1, <2>2
  <2> QED BY <1>2, <2>1, <2>3
<1>4. Good(Len(names))
  BY <1>0, <1>3
<1>5. SubSeq(names, 1, Len(names)) = names
  OBVIOUS
<1> QED BY <1>4, <1>5 DEF Good

IsRead(r) == DOMAIN r = {"at", "source", "pending", "resolved", "hops", "dir", "got", "why"}

\* A read has resolved what the container's kernel has, from the source of its mount.
FromSource(t, r) ==
    r.source \in Seq(STRING) /\ AsRoot(t, r.source).err = Fine /\ r.resolved \in Seq(STRING)
Alongside(t, v, r) ==
    /\ FromSource(t, r) /\ v \in AWalk(t)
    /\ v.err = Fine /\ v.rest = r.pending /\ v.hops = r.hops
    /\ v.base \in 1 .. Len(v.at) /\ v.at[v.base].inode = Here(AsRoot(t, r.source))
    /\ Leads(t, v.at, v.base, r.resolved)

LEMMA HereIsLast ==
  ASSUME NEW t, NEW v \in AWalk(t)
  PROVE  Len(v.at) \in Nat \ {0} /\ Here(v) = v.at[Len(v.at)].inode
<1>1. v.at \in Seq(Entry(t)) /\ v.at # <<>>
  BY DEF AWalk
<1>2. Len(v.at) \in Nat /\ Len(v.at) # 0
  BY <1>1, EmptySeq
<1> QED BY <1>2 DEF Here, Last

\* What the host finds at the next name is what the container finds, or the login is
\* kept out.
LEMMA CandidateIsChild ==
  ASSUME NEW t, IsTree(t), NEW v, NEW r, Alongside(t, v, r), r.pending # <<>>
  PROVE  LET c == Candidate(t, r)
             name == Head(r.pending)
         IN  \/ c.err = "denied"
             \/ t[Here(v)].kind # "dir" /\ c.err = "not a directory"
             \/ t[Here(v)].kind = "dir" /\ name \notin DOMAIN t[Here(v)].names /\ c.err = "missing"
             \/ t[Here(v)].kind = "dir" /\ name \in DOMAIN t[Here(v)].names /\ c.err = Fine
                /\ c.inode = NextChild(t, v)
<1> DEFINE path == r.source \o r.resolved
           w == OnHost(t, path)
           u == AsRoot(t, path)
<1>1. path \in Seq(STRING) /\ v \in AWalk(t)
  BY DEF Alongside, FromSource
<1>2. u.err = Fine /\ Here(u) = v.at[v.base + Len(r.resolved)].inode
  <2>1. v.at \in Seq(Entry(t))
    BY DEF Alongside, AWalk
  <2> QED BY <2>1, HostLeads DEF Alongside, FromSource
<1>3. Here(u) = Here(v)
  BY <1>1, <1>2, HereIsLast DEF Alongside, Leads
<1>4. w = u \/ w.err = "denied"
  BY <1>1, HostEnds
<1>5. Candidate(t, r) = NameIn(t, w, Head(r.pending))
  BY DEF Candidate
<1>6. v.rest = r.pending
  BY DEF Alongside
<1> HIDE DEF w, u
<1>7. CASE w.err = "denied"
  BY <1>5, <1>7 DEF NameIn, Fine
<1>8. CASE w = u
  <2> DEFINE node == t[Here(v)]
             name == Head(r.pending)
             c == Candidate(t, r)
  <2>1. w.err = Fine /\ Here(w) = Here(v)
    BY <1>2, <1>3, <1>8
  <2>2. NameIn(t, w, name)
          = IF node.kind # "dir" THEN [inode |-> Absent, err |-> "not a directory"]
            ELSE IF node.shut THEN [inode |-> Absent, err |-> "denied"]
            ELSE IF name \notin DOMAIN node.names THEN [inode |-> Absent, err |-> "missing"]
            ELSE [inode |-> node.names[name], err |-> Fine]
    BY <2>1 DEF NameIn
  <2>3. NextChild(t, v) = node.names[name]
    BY <1>6 DEF NextChild
  <2>4. c = NameIn(t, w, name)
    BY <1>5
  <2> HIDE DEF c, node, name
  <2>5. ASSUME node.kind # "dir"  PROVE  c.err = "not a directory"
    <3>1. c = [inode |-> Absent, err |-> "not a directory"]
      BY <2>2, <2>4, <2>5
    <3> QED BY <3>1
  <2>6. ASSUME node.kind = "dir", node.shut  PROVE  c.err = "denied"
    <3>1. c = [inode |-> Absent, err |-> "denied"]
      BY <2>2, <2>4, <2>6
    <3> QED BY <3>1
  <2>7. ASSUME node.kind = "dir", ~ node.shut, name \notin DOMAIN node.names
        PROVE  c.err = "missing"
    <3>1. c = [inode |-> Absent, err |-> "missing"]
      BY <2>2, <2>4, <2>7
    <3> QED BY <3>1
  <2>8. ASSUME node.kind = "dir", ~ node.shut, name \in DOMAIN node.names
        PROVE  c.err = Fine /\ c.inode = node.names[name]
    <3>1. c = [inode |-> node.names[name], err |-> Fine]
      BY <2>2, <2>4, <2>8
    <3> QED BY <3>1
  <2> QED BY <2>3, <2>5, <2>6, <2>7, <2>8 DEF c, node, name
<1> QED BY <1>4, <1>7, <1>8 DEF w, u

LEMMA LeadsOn ==
  ASSUME NEW t, NEW at \in Seq(Entry(t)), NEW k \in 1 .. Len(at), NEW names \in Seq(STRING),
         NEW e \in Entry(t), e.name \in STRING, Leads(t, at, k, names),
         IsEntry(t, at[Len(at)].inode, e)
  PROVE  Leads(t, Append(at, e), k, Append(names, e.name))
<1> DEFINE m == Len(at)
           n == Len(names)
           bt == Append(at, e)
           mames == Append(names, e.name)
<1>1. m \in Nat /\ n \in Nat /\ k \in Nat /\ k + n = m
  BY DEF Leads
<1>2. Len(bt) = m + 1 /\ bt[m + 1] = e /\ \A i \in 1 .. m : bt[i] = at[i]
  BY AppendProperties
<1>3. Len(mames) = n + 1 /\ mames[n + 1] = e.name /\ \A i \in 1 .. n : mames[i] = names[i]
  BY AppendProperties
<1> HIDE DEF m, n, bt, mames
<1>4. k + Len(mames) = Len(bt)
  BY <1>1, <1>2, <1>3
<1>5. ASSUME NEW j \in 1 .. Len(mames)
      PROVE  mames[j] = bt[k + j].name /\ IsEntry(t, bt[k + j - 1].inode, bt[k + j])
  <2>1. CASE j = n + 1
    <3>1. k + j = m + 1 /\ k + j - 1 = m /\ m \in 1 .. m
      BY <1>1, <2>1
    <3>2. bt[k + j] = e /\ bt[k + j - 1] = at[m] /\ mames[j] = e.name
      BY <1>2, <1>3, <2>1, <3>1
    <3> QED BY <3>2 DEF m
  <2>2. CASE j # n + 1
    <3>1. j \in 1 .. n /\ k + j \in 1 .. m /\ k + j - 1 \in 1 .. m
      BY <1>1, <1>3, <2>2
    <3>2. names[j] = at[k + j].name /\ IsEntry(t, at[k + j - 1].inode, at[k + j])
      BY <3>1 DEF Leads, n
    <3>3. mames[j] = names[j] /\ bt[k + j] = at[k + j] /\ bt[k + j - 1] = at[k + j - 1]
      BY <1>2, <1>3, <3>1
    <3> QED BY <3>2, <3>3
  <2> QED BY <2>1, <2>2
<1> QED BY <1>4, <1>5 DEF Leads, bt, mames

LEMMA LeadsBack ==
  ASSUME NEW t, NEW at \in Seq(Entry(t)), NEW k \in 1 .. Len(at), NEW names \in Seq(STRING),
         names # <<>>, Leads(t, at, k, names)
  PROVE  Leads(t, Front(at), k, Front(names)) /\ k \in 1 .. Len(Front(at))
<1> DEFINE m == Len(at)
           n == Len(names)
           bt == Front(at)
           mames == Front(names)
<1>0. n # 0 /\ at # <<>>
  BY EmptySeq
<1>1. m \in Nat /\ n \in Nat /\ k \in Nat /\ k + n = m /\ k >= 1
  BY DEF Leads
<1>2. Len(bt) = m - 1 /\ \A i \in 1 .. m - 1 : bt[i] = at[i]
  BY <1>0, FrontIsSeq
<1>3. Len(mames) = n - 1 /\ \A i \in 1 .. n - 1 : mames[i] = names[i]
  BY FrontIsSeq
<1> HIDE DEF m, n, bt, mames
<1>4. k + Len(mames) = Len(bt) /\ k \in 1 .. Len(bt)
  BY <1>0, <1>1, <1>2, <1>3
<1>5. ASSUME NEW j \in 1 .. Len(mames)
      PROVE  mames[j] = bt[k + j].name /\ IsEntry(t, bt[k + j - 1].inode, bt[k + j])
  <2>1. j \in 1 .. n /\ j \in 1 .. n - 1 /\ k + j \in 1 .. m - 1 /\ k + j - 1 \in 1 .. m - 1
    BY <1>1, <1>3
  <2>2. names[j] = at[k + j].name /\ IsEntry(t, at[k + j - 1].inode, at[k + j])
    BY <2>1 DEF Leads, n
  <2>3. mames[j] = names[j] /\ bt[k + j] = at[k + j] /\ bt[k + j - 1] = at[k + j - 1]
    BY <1>2, <1>3, <2>1
  <2> QED BY <2>2, <2>3
<1> QED BY <1>4, <1>5 DEF Leads, bt, mames

LEMMA LeadsDown ==
  ASSUME NEW t, NEW at \in Seq(Entry(t)), NEW k \in 1 .. Len(at), NEW names \in Seq(STRING),
         names # <<>>, Leads(t, at, k, names)
  PROVE  /\ Leads(t, at, k + 1, Tail(names)) /\ k + 1 \in 1 .. Len(at)
         /\ Tail(names) \in Seq(STRING) /\ Len(Tail(names)) = Len(names) - 1
         /\ Head(names) = at[k + 1].name /\ IsEntry(t, at[k].inode, at[k + 1])
<1> DEFINE m == Len(at)
           n == Len(names)
           mames == Tail(names)
<1>0. n # 0
  BY EmptySeq
<1>1. m \in Nat /\ n \in Nat /\ k \in Nat /\ k + n = m /\ k >= 1
  BY DEF Leads
<1>2. mames \in Seq(STRING) /\ Len(mames) = n - 1 /\ Head(names) = names[1]
      /\ \A i \in 1 .. n - 1 : mames[i] = names[i + 1]
  BY HeadTailProperties
<1> HIDE DEF m, n, mames
<1>3. k + 1 + Len(mames) = m /\ k + 1 \in 1 .. m /\ 1 \in 1 .. n /\ k + 1 - 1 = k
  BY <1>0, <1>1, <1>2
<1>4. ASSUME NEW j \in 1 .. Len(mames)
      PROVE  mames[j] = at[k + 1 + j].name /\ IsEntry(t, at[k + 1 + j - 1].inode, at[k + 1 + j])
  <2>1. j + 1 \in 1 .. n /\ j \in 1 .. n - 1 /\ k + 1 + j = k + (j + 1)
        /\ k + 1 + j - 1 = k + (j + 1) - 1
    BY <1>1, <1>2
  <2>2. /\ names[j + 1] = at[k + (j + 1)].name
        /\ IsEntry(t, at[k + (j + 1) - 1].inode, at[k + (j + 1)])
    BY <2>1 DEF Leads, n
  <2>3. mames[j] = names[j + 1]
    BY <1>2, <2>1
  <2> QED BY <2>1, <2>2, <2>3
<1>5. names[1] = at[k + 1].name /\ IsEntry(t, at[k].inode, at[k + 1])
  BY <1>3 DEF Leads, n
<1> QED BY <1>2, <1>3, <1>4, <1>5 DEF Leads, m, n, mames

-----------------------------------------------------------------------------
(* What a read has found, and what it may still find.                      *)

\* It looks at a name that is a link.
AtLink(t, v, r) ==
    /\ r.pending # <<>> /\ Head(r.pending) # Up /\ t[Here(v)].kind = "dir"
    /\ Head(r.pending) \in DOMAIN t[Here(v)].names /\ t[NextChild(t, v)].kind = "link"
    /\ Candidate(t, r).err = Fine

Unfound(r) == IsRead(r) /\ r.got = None /\ r.why = Fine

Resolves(t, r, w) ==
    /\ Unfound(r) /\ r.dir = None
    /\ \E v : Alongside(t, v, r) /\ RootEnd(t, v) = w /\ (r.at = "readlink" => AtLink(t, v, r))

\* Where the open is: at the k-th directory of the kernel's walk.
OpenAt(t, r, w, k) ==
    /\ k \in 1 .. Len(w.at)
    /\ IF r.dir = None THEN w.at[k].inode = Here(AsRoot(t, r.source))
       ELSE r.dir = w.at[k].inode /\ r.resolved # <<>>
OpensThere(t, r, w, k) == w.err = Fine /\ Leads(t, w.at, k, r.resolved)
OpensMissing(t, r, w, k) ==
    /\ w.err = "missing" /\ t[Here(w)].kind = "dir"
    /\ \E names \in Seq(STRING), name \in STRING :
          /\ r.resolved = Append(names, name) /\ Leads(t, w.at, k, names)
          /\ name # Up /\ name \notin DOMAIN t[Here(w)].names
Opens(t, r, w) ==
    /\ Unfound(r) /\ w \in AWalk(t) /\ FromSource(t, r)
    /\ \E k : OpenAt(t, r, w, k) /\ (OpensThere(t, r, w, k) \/ OpensMissing(t, r, w, k))

Followed(t, r, w) ==
    \/ Climbs(w)
    \/ r.at \in {"lstat", "readlink"} /\ Resolves(t, r, w)
    \/ (r.at = "open" \/ (r.at = "lstat" /\ r.pending = <<>>)) /\ Opens(t, r, w)
    \/ r.at = "done" /\ IsRead(r) /\ Owned(t, r, w)

LEMMA RefusedIs ==
  ASSUME NEW r, IsRead(r), NEW why
  PROVE  /\ IsRead(Refuse(r, why)) /\ Refuse(r, why).at = "done"
         /\ Refuse(r, why).why = why /\ Refuse(r, why).got = r.got
BY DEF IsRead, Refuse

\* What refuses a read is told apart from a file that is missing.
LEMMA RefusedOwned ==
  ASSUME NEW t, NEW w, NEW r, Unfound(r), NEW why,
         why \in {"missing", "missing component"} => w.err = "missing",
         w.left \/ ~ Regular(t, w) \/ why = "denied"
  PROVE  Followed(t, Refuse(r, why), w)
<1>1. /\ IsRead(Refuse(r, why)) /\ Refuse(r, why).at = "done"
      /\ Refuse(r, why).why = why /\ Refuse(r, why).got = None
  BY RefusedIs DEF Unfound
<1>2. Owned(t, Refuse(r, why), w)
  BY <1>1 DEF Owned
<1> QED BY <1>1, <1>2 DEF Followed

LEMMA ErrorIs ==
  ASSUME NEW t, NEW v \in AWalk(t), NEW err, err # Fine, NEW w, w = [v EXCEPT !.err = err]
  PROVE  w.err = err /\ w.rest = v.rest /\ w.at = v.at /\ ~ Regular(t, w)
<1>1. w.err = err /\ w.rest = v.rest /\ w.at = v.at
  BY DEF AWalk
<1> QED BY <1>1 DEF Regular

\* Nothing is left to resolve.
LEMMA ResolvedAll ==
  ASSUME NEW t, IsTree(t), NEW w, NEW r, Resolves(t, r, w), r.pending = <<>>
  PROVE  Opens(t, r, w)
<1>1. PICK v : Alongside(t, v, r) /\ RootEnd(t, v) = w
  BY DEF Resolves
<1>2. v \in AWalk(t) /\ v.err = Fine /\ v.rest = <<>> /\ FromSource(t, r)
  BY <1>1 DEF Alongside
<1>3. ArePoints(t, {})
  BY DEF ArePoints
<1>4. w = v
  BY <1>1, <1>2, <1>3, EndEnded DEF Ended, RootEnd
<1>5. OpenAt(t, r, w, v.base) /\ OpensThere(t, r, w, v.base)
  BY <1>1, <1>2, <1>4 DEF Alongside, OpenAt, OpensThere, Resolves
<1> QED BY <1>2, <1>4, <1>5 DEF Opens, Resolves

\* The container's kernel is asked for the same.
LEMMA AsksSame ==
  ASSUME NEW t, NEW v, NEW r, Alongside(t, v, r), r.pending # <<>>
  PROVE  /\ v \in AWalk(t) /\ v.err = Fine /\ v.rest = r.pending /\ v.rest # <<>>
         /\ v.base > 0 /\ v.hops = r.hops
         /\ Len(v.at) = v.base + Len(r.resolved)
         /\ v.at \in Seq(Entry(t)) /\ v.base \in 1 .. Len(v.at)
         /\ r.resolved \in Seq(STRING) /\ Leads(t, v.at, v.base, r.resolved)
         /\ Head(r.pending) \in STRING /\ Tail(r.pending) \in Seq(STRING)
         /\ Here(v) = v.at[Len(v.at)].inode
<1>1. v \in AWalk(t) /\ v.err = Fine /\ v.rest = r.pending /\ r.resolved \in Seq(STRING)
      /\ v.base \in 1 .. Len(v.at) /\ Leads(t, v.at, v.base, r.resolved) /\ v.hops = r.hops
  BY DEF Alongside, FromSource
<1>2. v.at \in Seq(Entry(t)) /\ v.rest \in Seq(STRING)
  BY <1>1 DEF AWalk
<1>3. Head(r.pending) \in STRING /\ Tail(r.pending) \in Seq(STRING)
  <2>1. r.pending \in Seq(STRING)
    BY <1>1, <1>2
  <2> QED BY <2>1, HeadTailProperties
<1>4. v.base > 0
  BY <1>1, <1>2
<1>5. Len(v.at) = v.base + Len(r.resolved)
  BY <1>1 DEF Leads
<1>6. Here(v) = v.at[Len(v.at)].inode
  BY <1>1, HereIsLast
<1> QED BY <1>1, <1>2, <1>3, <1>4, <1>5, <1>6

\* The walk and the read go the same way.
LEMMA GoAlong ==
  ASSUME NEW t, IsTree(t), NEW v, NEW r, Alongside(t, v, r), r.pending # <<>>,
         NEW y, y = RootStep(t, v), y.err = Fine,
         NEW x, x.source = r.source, x.pending = y.rest, x.hops = y.hops,
         x.resolved \in Seq(STRING),
         v.base \in 1 .. Len(y.at), y.at[v.base] = v.at[v.base],
         Leads(t, y.at, v.base, x.resolved)
  PROVE  Alongside(t, y, x) /\ RootEnd(t, y) = RootEnd(t, v)
<1>1. v \in AWalk(t)
  BY DEF Alongside
<1>2. y \in AWalk(t) /\ y.base = v.base /\ RootEnd(t, y) = RootEnd(t, v)
  BY <1>1, RootSteps
<1>3. v.at[v.base].inode = Here(AsRoot(t, r.source)) /\ FromSource(t, r)
  BY DEF Alongside
<1>4. FromSource(t, x)
  BY <1>3 DEF FromSource
<1> QED BY <1>2, <1>3, <1>4 DEF Alongside

LEMMA ResolvesUp ==
  ASSUME NEW t, IsTree(t), NEW w, NEW r, r.at = "lstat", r.pending # <<>>,
         Head(r.pending) = Up, Resolves(t, r, w), NEW at
  PROVE  Followed(t, Lstat(t, r, at), w)
<1>1. PICK v : Alongside(t, v, r) /\ RootEnd(t, v) = w
  BY DEF Resolves
<1>2. Unfound(r) /\ r.dir = None /\ IsRead(r)
  BY DEF Resolves, Unfound
<1>3. /\ v \in AWalk(t) /\ v.err = Fine /\ v.rest = r.pending /\ v.rest # <<>>
      /\ v.base > 0 /\ v.hops = r.hops
      /\ Len(v.at) = v.base + Len(r.resolved)
      /\ v.at \in Seq(Entry(t)) /\ v.base \in 1 .. Len(v.at)
      /\ r.resolved \in Seq(STRING) /\ Leads(t, v.at, v.base, r.resolved)
      /\ Tail(r.pending) \in Seq(STRING)
  BY <1>1, AsksSame
<1>4. Len(v.at) \in Nat /\ v.base \in Nat /\ Len(r.resolved) \in Nat /\ v.at # <<>>
  BY <1>3, EmptySeq
<1>5. CASE t[Here(v)].kind # "dir"
  <2>1. w = [v EXCEPT !.err = "not a directory"]
    BY <1>1, <1>3, <1>5, StopsAtFile
  <2>2. w.err = "not a directory" /\ w.rest = r.pending
    BY <1>3, <2>1 DEF AWalk
  <2> QED BY <2>2 DEF Climbs, Followed
<1>6. CASE t[Here(v)].kind = "dir" /\ r.resolved = <<>>
  <2>1. Len(v.at) <= v.base
    BY <1>3, <1>4, <1>6, EmptySeq
  <2>2. w.left
    BY <1>1, <1>3, <1>6, <2>1, GoesUp
  <2>3. Lstat(t, r, at) = Refuse(r, "outside")
    BY <1>6 DEF Lstat
  <2> QED BY <1>2, <2>2, <2>3, RefusedOwned
<1>7. CASE t[Here(v)].kind = "dir" /\ r.resolved # <<>>
  <2> DEFINE y == RootStep(t, v)
             pending == Tail(r.pending)
             resolved == Front(r.resolved)
             x == [r EXCEPT !.pending = pending, !.resolved = resolved]
  <2>1. Lstat(t, r, at) = x
    BY <1>7 DEF Lstat
  <2>2. Len(v.at) > v.base
    <3>1. Len(r.resolved) # 0
      BY <1>3, <1>7, EmptySeq
    <3> QED BY <1>3, <1>4, <3>1
  <2>3. y.err = Fine /\ y.hops = v.hops /\ y.rest = Tail(v.rest) /\ y.at = Front(v.at)
    BY <1>3, <1>7, <2>2, GoesUp
  <2> HIDE DEF y, pending, resolved, x
  <2>4. /\ IsRead(x) /\ x.pending = pending /\ x.resolved = resolved
        /\ x.at = r.at /\ x.source = r.source /\ x.hops = r.hops /\ x.dir = r.dir
        /\ x.got = r.got /\ x.why = r.why
    BY <1>2 DEF x, IsRead
  <2>5. resolved \in Seq(STRING)
    BY <1>3, <1>7, FrontIsSeq DEF resolved
  <2>6. Leads(t, y.at, v.base, resolved) /\ v.base \in 1 .. Len(y.at)
    BY <1>3, <1>7, <2>3, LeadsBack DEF resolved
  <2>7. y.at[v.base] = v.at[v.base]
    <3>1. v.base \in 1 .. Len(v.at) - 1
      BY <1>3, <1>4, <2>2
    <3> QED BY <1>3, <1>4, <2>3, <3>1, FrontIsSeq
  <2>8. Alongside(t, y, x) /\ RootEnd(t, y) = w
    <3>1. x.pending = y.rest
      BY <1>3, <2>3, <2>4 DEF pending
    <3> QED BY <1>1, <1>3, <2>3, <2>4, <2>5, <2>6, <2>7, <3>1, GoAlong DEF y
  <2>9. Resolves(t, x, w)
    BY <1>2, <2>4, <2>8 DEF Resolves, Unfound
  <2> QED BY <2>1, <2>4, <2>9 DEF Followed
<1> QED BY <1>5, <1>6, <1>7

\* The next name is entered.
LEMMA ResolvesName ==
  ASSUME NEW t, IsTree(t), NEW w, NEW r, r.at = "lstat", r.pending # <<>>,
         Head(r.pending) # Up, Unfound(r), r.dir = None,
         NEW v, Alongside(t, v, r), RootEnd(t, v) = w, t[Here(v)].kind = "dir",
         Head(r.pending) \in DOMAIN t[Here(v)].names, t[NextChild(t, v)].kind # "link"
  PROVE  Followed(t, [r EXCEPT !.pending = Tail(@), !.resolved = Append(@, Head(r.pending))], w)
<1> DEFINE y == RootStep(t, v)
           name == Head(r.pending)
           e == [name |-> name, inode |-> NextChild(t, v)]
           pending == Tail(r.pending)
           resolved == Append(r.resolved, name)
           x == [r EXCEPT !.pending = pending, !.resolved = resolved]
<1>3. /\ v \in AWalk(t) /\ v.err = Fine /\ v.rest = r.pending /\ v.rest # <<>>
      /\ v.base > 0 /\ v.hops = r.hops
      /\ v.at \in Seq(Entry(t)) /\ v.base \in 1 .. Len(v.at)
      /\ r.resolved \in Seq(STRING) /\ Leads(t, v.at, v.base, r.resolved)
      /\ name \in STRING /\ Tail(r.pending) \in Seq(STRING)
      /\ Here(v) = v.at[Len(v.at)].inode
  BY AsksSame
<1>4. y.err = Fine /\ y.hops = v.hops /\ y.rest = Tail(v.rest) /\ y.at = Append(v.at, e)
  BY <1>3, Enters
<1>5. NextChild(t, v) \in DOMAIN t
  BY <1>3, ChildIs
<1>6. e \in Entry(t) /\ e.name = name /\ e.inode = NextChild(t, v)
  BY <1>3, <1>5 DEF Entry
<1>7. IsEntry(t, v.at[Len(v.at)].inode, e)
  <2>1. NextChild(t, v) = t[Here(v)].names[name]
    BY <1>3 DEF NextChild
  <2> HIDE DEF e, name
  <2>2. e.name # Up /\ e.name \in DOMAIN t[Here(v)].names /\ e.inode = t[Here(v)].names[e.name]
        /\ t[e.inode].kind # "link"
    BY <1>6, <2>1 DEF name
  <2> QED BY <1>3, <2>2 DEF IsEntry
<1> HIDE DEF y, pending, resolved, x, name, e
<1>8. /\ IsRead(x) /\ x.pending = pending /\ x.resolved = resolved
      /\ x.at = r.at /\ x.source = r.source /\ x.hops = r.hops /\ x.dir = r.dir
      /\ x.got = r.got /\ x.why = r.why
  BY DEF x, Unfound, IsRead
<1>9. resolved \in Seq(STRING)
  BY <1>3 DEF resolved
<1>10. Leads(t, y.at, v.base, resolved)
  BY <1>3, <1>4, <1>6, <1>7, LeadsOn DEF resolved
<1>11. v.base \in 1 .. Len(y.at) /\ y.at[v.base] = v.at[v.base]
  <2>1. Len(y.at) = Len(v.at) + 1 /\ \A i \in 1 .. Len(v.at) : y.at[i] = v.at[i]
    BY <1>3, <1>4, <1>6, AppendProperties
  <2>2. Len(v.at) \in Nat
    BY <1>3
  <2> QED BY <1>3, <2>1, <2>2
<1>12. Alongside(t, y, x) /\ RootEnd(t, y) = w
  <2>1. x.pending = y.rest
    BY <1>3, <1>4, <1>8 DEF pending
  <2> QED BY <1>3, <1>4, <1>8, <1>9, <1>10, <1>11, <2>1, GoAlong DEF y
<1>13. Resolves(t, x, w)
  BY <1>8, <1>12 DEF Resolves, Unfound
<1> QED BY <1>8, <1>13 DEF Followed, x, pending, resolved, name

\* The last name is missing: that is left to the open.
LEMMA ResolvesMissing ==
  ASSUME NEW t, IsTree(t), NEW w, NEW r, r.at = "lstat", Len(r.pending) = 1,
         r.pending # <<>>, Head(r.pending) # Up, Unfound(r), r.dir = None,
         NEW v, Alongside(t, v, r), RootEnd(t, v) = w, t[Here(v)].kind = "dir",
         Head(r.pending) \notin DOMAIN t[Here(v)].names
  PROVE  Followed(t, [r EXCEPT !.pending = Tail(@), !.resolved = Append(@, Head(r.pending))], w)
<1> DEFINE name == Head(r.pending)
           pending == Tail(r.pending)
           resolved == Append(r.resolved, name)
           x == [r EXCEPT !.pending = pending, !.resolved = resolved]
<1>3. /\ v \in AWalk(t) /\ v.err = Fine /\ v.rest = r.pending /\ v.rest # <<>>
      /\ v.at \in Seq(Entry(t)) /\ v.base \in 1 .. Len(v.at)
      /\ r.resolved \in Seq(STRING) /\ Leads(t, v.at, v.base, r.resolved)
      /\ name \in STRING /\ Tail(r.pending) \in Seq(STRING)
  BY AsksSame
<1>4. w = [v EXCEPT !.err = "missing"]
  BY <1>3, Misses
<1>5. w.err = "missing" /\ w.at = v.at /\ Here(w) = Here(v)
  BY <1>3, <1>4, ErrorIs DEF Fine, Here
<1>6. w \in AWalk(t)
  BY <1>3, <1>4 DEF AWalk, Errors
<1>7. pending = <<>>
  <2>1. Len(pending) = 0
    <3>1. Len(r.pending) = 1 /\ r.pending \in Seq(STRING)
      BY <1>3 DEF AWalk
    <3> QED BY <1>3, <3>1, HeadTailProperties
  <2> QED BY <1>3, <2>1, EmptySeq
<1>12. FromSource(t, r) /\ v.at[v.base].inode = Here(AsRoot(t, r.source))
  BY DEF Alongside
<1> HIDE DEF pending, resolved, x, name
<1>8. /\ IsRead(x) /\ x.pending = pending /\ x.resolved = resolved
      /\ x.at = r.at /\ x.source = r.source /\ x.hops = r.hops /\ x.dir = r.dir
      /\ x.got = r.got /\ x.why = r.why
  BY DEF x, Unfound, IsRead
<1>9. resolved \in Seq(STRING)
  BY <1>3 DEF resolved
<1>10. OpensMissing(t, x, w, v.base)
  <2>1. x.resolved = Append(r.resolved, name) /\ Leads(t, w.at, v.base, r.resolved)
        /\ name # Up /\ name \notin DOMAIN t[Here(w)].names
    BY <1>3, <1>5, <1>8 DEF resolved, name
  <2> QED BY <1>3, <1>5, <2>1 DEF OpensMissing
<1>11. OpenAt(t, x, w, v.base)
  BY <1>3, <1>5, <1>8, <1>12 DEF OpenAt
<1>13. FromSource(t, x) /\ Unfound(x)
  BY <1>8, <1>9, <1>12 DEF FromSource, Unfound
<1>14. Opens(t, x, w)
  BY <1>6, <1>10, <1>11, <1>13 DEF Opens
<1> QED BY <1>7, <1>8, <1>14 DEF Followed, x, pending, resolved, name

LEMMA LooksCloser ==
  ASSUME NEW t, IsTree(t), NEW w, NEW r, r.at = "lstat", r.pending # <<>>,
         Head(r.pending) # Up, Unfound(r), r.dir = None,
         NEW v, Alongside(t, v, r), RootEnd(t, v) = w, t[Here(v)].kind = "dir",
         Head(r.pending) \in DOMAIN t[Here(v)].names, t[NextChild(t, v)].kind = "link",
         Candidate(t, r).err = Fine
  PROVE  Followed(t, [r EXCEPT !.at = "readlink"], w)
<1> DEFINE x == [r EXCEPT !.at = "readlink"]
<1>1. /\ IsRead(x) /\ x.pending = r.pending /\ x.hops = r.hops /\ x.at = "readlink"
      /\ x.source = r.source /\ x.resolved = r.resolved /\ x.dir = r.dir
      /\ x.got = r.got /\ x.why = r.why
  BY DEF Unfound, IsRead
<1> HIDE DEF x
<1>2. Alongside(t, v, x)
  BY <1>1 DEF Alongside, FromSource
<1>3. Candidate(t, x) = Candidate(t, r)
  BY <1>1 DEF Candidate
<1>4. AtLink(t, v, x)
  BY <1>1, <1>3 DEF AtLink
<1>5. Resolves(t, x, w)
  BY <1>1, <1>2, <1>4 DEF Resolves, Unfound
<1> QED BY <1>1, <1>5 DEF Followed, x

LEMMA ResolvesLstat ==
  ASSUME NEW t, IsTree(t), NEW w, NEW r, r.at = "lstat", r.pending # <<>>, Resolves(t, r, w)
  PROVE  Followed(t, Lstat(t, r, Candidate(t, r)), w)
<1>1. PICK v : Alongside(t, v, r) /\ RootEnd(t, v) = w
  BY DEF Resolves
<1>2. Unfound(r) /\ r.dir = None
  BY DEF Resolves
<1>3. CASE Head(r.pending) = Up
  BY <1>3, ResolvesUp
<1>4. CASE Head(r.pending) # Up
  <2> DEFINE c == Candidate(t, r)
             name == Head(r.pending)
             next == [r EXCEPT !.pending = Tail(@), !.resolved = Append(@, name)]
             names == t[Here(v)].names
             x == Lstat(t, r, c)
  <2>1. v \in AWalk(t) /\ v.err = Fine /\ v.rest = r.pending /\ v.rest # <<>>
    BY <1>1, AsksSame
  <2>2. \/ c.err = "denied"
        \/ t[Here(v)].kind # "dir" /\ c.err = "not a directory"
        \/ t[Here(v)].kind = "dir" /\ name \notin DOMAIN names /\ c.err = "missing"
        \/ t[Here(v)].kind = "dir" /\ name \in DOMAIN names /\ c.err = Fine
           /\ c.inode = NextChild(t, v)
    BY <1>1, CandidateIsChild
  <2>3. x = IF c.err = "missing"
            THEN IF Len(r.pending) = 1 THEN next ELSE Refuse(r, "missing component")
            ELSE IF c.err # Fine THEN Refuse(r, c.err)
            ELSE IF t[c.inode].kind = "link" THEN [r EXCEPT !.at = "readlink"]
            ELSE next
    BY <1>4 DEF Lstat
  <2> HIDE DEF c, next, x, names, name
  <2>4. CASE c.err = "denied"
    <3>1. x = Refuse(r, "denied")
      BY <2>3, <2>4 DEF Fine
    <3> QED BY <1>2, <3>1, RefusedOwned DEF x, c
  <2>5. CASE t[Here(v)].kind # "dir" /\ c.err = "not a directory"
    <3>1. x = Refuse(r, "not a directory")
      BY <2>3, <2>5 DEF Fine
    <3>2. w = [v EXCEPT !.err = "not a directory"]
      BY <1>1, <2>1, <2>5, StopsAtFile
    <3>3. w.err = "not a directory"
      BY <2>1, <3>2 DEF AWalk
    <3>4. ~ Regular(t, w)
      BY <3>3 DEF Regular, Fine
    <3> QED BY <1>2, <3>1, <3>4, RefusedOwned DEF x, c
  <2>6. CASE t[Here(v)].kind = "dir" /\ name \notin DOMAIN names /\ c.err = "missing"
    <3>1. CASE Len(r.pending) = 1
      <4>1. x = next
        BY <2>3, <2>6, <3>1
      <4>2. Followed(t, next, w)
        BY <1>1, <1>2, <1>4, <2>6, <3>1, ResolvesMissing DEF next, name, names
      <4> QED BY <4>1, <4>2 DEF x, c
    <3>2. CASE Len(r.pending) # 1
      <4>1. x = Refuse(r, "missing component")
        BY <2>3, <2>6, <3>2
      <4>2. w = [v EXCEPT !.err = "missing"]
        BY <1>1, <1>4, <2>1, <2>6, Misses DEF name, names
      <4>3. w.err = "missing"
        BY <2>1, <4>2 DEF AWalk
      <4>4. ~ Regular(t, w)
        BY <4>3 DEF Regular, Fine
      <4> QED BY <1>2, <4>1, <4>3, <4>4, RefusedOwned DEF x, c
    <3> QED BY <3>1, <3>2
  <2>7. CASE t[Here(v)].kind = "dir" /\ name \in DOMAIN names /\ c.err = Fine
             /\ c.inode = NextChild(t, v)
    <3>1. CASE t[c.inode].kind = "link"
      <4>1. x = [r EXCEPT !.at = "readlink"]
        BY <2>3, <2>7, <3>1 DEF Fine
      <4>2. Followed(t, [r EXCEPT !.at = "readlink"], w)
        BY <1>1, <1>2, <1>4, <2>7, <3>1, LooksCloser DEF c, name, names
      <4> QED BY <4>1, <4>2 DEF x, c
    <3>2. CASE t[c.inode].kind # "link"
      <4>1. x = next
        BY <2>3, <2>7, <3>2 DEF Fine
      <4>2. Followed(t, next, w)
        BY <1>1, <1>2, <1>4, <2>7, <3>2, ResolvesName DEF next, name, names
      <4> QED BY <4>1, <4>2 DEF x, c
    <3> QED BY <3>1, <3>2
  <2> QED BY <2>2, <2>4, <2>5, <2>6, <2>7
<1> QED BY <1>3, <1>4

LEMMA ResolvesLink ==
  ASSUME NEW t, IsTree(t), NEW w, NEW r, r.at = "readlink", Resolves(t, r, w)
  PROVE  Followed(t, Readlink(t, r, Candidate(t, r)), w)
<1>1. PICK v : Alongside(t, v, r) /\ RootEnd(t, v) = w /\ AtLink(t, v, r)
  BY DEF Resolves
<1>2. Unfound(r) /\ r.dir = None /\ IsRead(r)
  BY DEF Resolves, Unfound
<1>3. /\ r.pending # <<>> /\ Head(r.pending) # Up /\ t[Here(v)].kind = "dir"
      /\ Head(r.pending) \in DOMAIN t[Here(v)].names /\ t[NextChild(t, v)].kind = "link"
      /\ Candidate(t, r).err = Fine
  BY <1>1 DEF AtLink
<1>4. /\ v \in AWalk(t) /\ v.err = Fine /\ v.rest = r.pending /\ v.rest # <<>>
      /\ v.hops = r.hops /\ v.at \in Seq(Entry(t)) /\ v.base \in 1 .. Len(v.at)
      /\ r.resolved \in Seq(STRING) /\ Leads(t, v.at, v.base, r.resolved)
  BY <1>1, <1>3, AsksSame
<1> DEFINE c == Candidate(t, r)
           x == Readlink(t, r, c)
           link == t[NextChild(t, v)]
<1>5. c.inode = NextChild(t, v)
  BY <1>1, <1>3, CandidateIsChild DEF Fine
<1>6. x = IF r.hops = MaxHops THEN Refuse(r, "loop")
          ELSE IF link.abs THEN Refuse(r, "absolute")
          ELSE [r EXCEPT !.at = "lstat", !.hops = @ + 1, !.pending = link.to \o Tail(@)]
  BY <1>3, <1>5 DEF Readlink, Inserted
<1> HIDE DEF c, x, link
<1>7. CASE r.hops = MaxHops
  <2>0. v.hops = MaxHops
    BY <1>4, <1>7
  <2>1. RootEnd(t, v).err = "loop"
    BY <1>3, <1>4, <2>0, LinkLoops
  <2>2. w.err = "loop"
    BY <1>1, <2>1
  <2>3. ~ Regular(t, w)
    BY <2>2 DEF Regular, Fine
  <2>4. x = Refuse(r, "loop")
    BY <1>6, <1>7
  <2> QED BY <1>2, <2>3, <2>4, RefusedOwned DEF x, c
<1>8. CASE r.hops # MaxHops /\ link.abs
  <2>1. w.left
    BY <1>1, <1>3, <1>4, <1>8, LinkLeaves DEF link
  <2>2. x = Refuse(r, "absolute")
    BY <1>6, <1>8
  <2> QED BY <1>2, <2>1, <2>2, RefusedOwned DEF x, c
<1>9. CASE r.hops # MaxHops /\ ~ link.abs
  <2> DEFINE y == RootStep(t, v)
             pending == link.to \o Tail(r.pending)
             hops == r.hops + 1
  <2>1. y.err = Fine /\ y.hops = v.hops + 1 /\ y.rest = link.to \o Tail(v.rest) /\ y.at = v.at
    BY <1>3, <1>4, <1>9, FollowsLink DEF link
  <2>2. x = [r EXCEPT !.at = "lstat", !.hops = hops, !.pending = pending]
    BY <1>2, <1>6, <1>9 DEF IsRead
  <2> HIDE DEF y, pending, hops
  <2>3. /\ IsRead(x) /\ x.pending = pending /\ x.hops = hops /\ x.at = "lstat"
        /\ x.source = r.source /\ x.resolved = r.resolved /\ x.dir = r.dir
        /\ x.got = r.got /\ x.why = r.why
    BY <1>2, <2>2 DEF IsRead
  <2>4. x.pending = y.rest /\ x.hops = y.hops
    BY <1>4, <2>1, <2>3 DEF pending, hops
  <2>5. Alongside(t, y, x) /\ RootEnd(t, y) = w
    <3>1. v.base \in 1 .. Len(y.at) /\ y.at[v.base] = v.at[v.base]
          /\ Leads(t, y.at, v.base, x.resolved) /\ x.resolved \in Seq(STRING)
      BY <1>4, <2>1, <2>3
    <3> QED BY <1>1, <1>3, <2>1, <2>3, <2>4, <3>1, GoAlong DEF y
  <2>6. Resolves(t, x, w)
    BY <1>2, <2>3, <2>5 DEF Resolves, Unfound
  <2> QED BY <2>3, <2>6 DEF Followed, x, c
<1> QED BY <1>7, <1>8, <1>9

LEMMA StartsOpen ==
  ASSUME NEW t, NEW w, NEW r, Opens(t, r, w)
  PROVE  Followed(t, [r EXCEPT !.at = "open"], w)
<1> DEFINE x == [r EXCEPT !.at = "open"]
<1>0. IsRead(r)
  BY DEF Opens, Unfound
<1>1. /\ IsRead(x) /\ x.at = "open"
      /\ x.source = r.source /\ x.resolved = r.resolved /\ x.dir = r.dir
      /\ x.got = r.got /\ x.why = r.why
  BY <1>0 DEF IsRead
<1> HIDE DEF x
<1>2. Unfound(x) /\ FromSource(t, x) /\ w \in AWalk(t)
  BY <1>1 DEF Opens, Unfound, FromSource
<1>3. ASSUME NEW k, OpenAt(t, r, w, k)  PROVE  OpenAt(t, x, w, k)
  BY <1>1, <1>3 DEF OpenAt
<1>4. ASSUME NEW k, OpensThere(t, r, w, k)  PROVE  OpensThere(t, x, w, k)
  BY <1>1, <1>4 DEF OpensThere
<1>5. ASSUME NEW k, OpensMissing(t, r, w, k)  PROVE  OpensMissing(t, x, w, k)
  BY <1>1, <1>5 DEF OpensMissing
<1>6. Opens(t, x, w)
  BY <1>2, <1>3, <1>4, <1>5 DEF Opens
<1> QED BY <1>1, <1>6 DEF Followed, x

\* Each step of the resolution keeps to the kernel of the container.
LEMMA ResolveFollows ==
  ASSUME NEW t, IsTree(t), NEW w, NEW r, r.at \in {"lstat", "readlink"}, Followed(t, r, w)
  PROVE  Followed(t, ResolveStep(t, r), w)
<1>1. CASE Climbs(w)
  BY <1>1 DEF Followed
<1>2. CASE r.at = "lstat" /\ r.pending = <<>> /\ ~ Climbs(w)
  <2>1. Opens(t, r, w)
    BY <1>2, ResolvedAll DEF Followed
  <2>2. ResolveStep(t, r) = [r EXCEPT !.at = "open"]
    BY <1>2 DEF ResolveStep
  <2> QED BY <2>1, <2>2, StartsOpen
<1>3. CASE r.at = "lstat" /\ r.pending # <<>> /\ ~ Climbs(w)
  <2>1. Resolves(t, r, w)
    BY <1>3 DEF Followed
  <2>2. ResolveStep(t, r) = Lstat(t, r, Candidate(t, r))
    BY <1>3 DEF ResolveStep
  <2> QED BY <1>3, <2>1, <2>2, ResolvesLstat
<1>4. CASE r.at = "readlink" /\ ~ Climbs(w)
  <2>1. Resolves(t, r, w)
    BY <1>4 DEF Followed
  <2>2. ResolveStep(t, r) = Readlink(t, r, Candidate(t, r))
    BY <1>4 DEF ResolveStep
  <2> QED BY <1>4, <2>1, <2>2, ResolvesLink
<1> QED BY <1>1, <1>2, <1>3, <1>4

LEMMA TakesOwn ==
  ASSUME NEW t, IsTree(t), NEW w \in AWalk(t), NEW r, Unfound(r), w.err = Fine
  PROVE  Followed(t, Took(t, r, Here(w)), w)
<1> DEFINE i == Here(w)
           x == Took(t, r, i)
<1>0. x = IF t[i].kind = "file" /\ t[i].shut THEN Refuse(r, "denied")
          ELSE IF t[i].kind # "file" THEN Refuse(r, "not a regular file")
          ELSE [r EXCEPT !.at = "done", !.got = i]
  BY DEF Took
<1>4. i # None
  BY HereInTree DEF IsTree
<1> HIDE DEF x
<1>1. CASE t[i].kind = "file" /\ t[i].shut
  <2>1. x = Refuse(r, "denied")
    BY <1>0, <1>1
  <2> QED BY <2>1, RefusedOwned DEF x
<1>2. CASE t[i].kind # "file"
  <2>1. x = Refuse(r, "not a regular file")
    BY <1>0, <1>2
  <2>2. ~ Regular(t, w)
    BY <1>2 DEF Regular
  <2> QED BY <2>1, <2>2, RefusedOwned DEF x
<1>3. CASE t[i].kind = "file" /\ ~ t[i].shut
  <2>1. x = [r EXCEPT !.at = "done", !.got = i]
    BY <1>0, <1>3
  <2>2. IsRead(x) /\ x.at = "done" /\ x.got = i /\ x.why = Fine
    BY <2>1 DEF Unfound, IsRead
  <2>3. Owned(t, x, w)
    BY <1>4, <2>2 DEF Owned, Fine
  <2> QED BY <2>2, <2>3 DEF Followed, x
<1> QED BY <1>1, <1>2, <1>3

\* The next component is the next entry of the kernel's walk.
LEMMA OpensEntry ==
  ASSUME NEW t, IsTree(t), NEW w \in AWalk(t), NEW r, Unfound(r), FromSource(t, r),
         NEW k, k \in 1 .. Len(w.at), NEW names \in Seq(STRING), names # <<>>,
         Leads(t, w.at, k, names), Head(r.resolved) = Head(names),
         Len(r.resolved) # 1 =>
            Followed(t, [r EXCEPT !.dir = w.at[k + 1].inode, !.resolved = Tail(@)], w),
         Len(r.resolved) = 1 => w.err = Fine /\ Len(names) = 1
  PROVE  Followed(t, OpenIn(t, r, w.at[k].inode), w)
<1> DEFINE dir == w.at[k].inode
           child == w.at[k + 1].inode
           x == OpenIn(t, r, dir)
<1>1. w.at \in Seq(Entry(t))
  BY DEF AWalk
<1>2. Head(names) = w.at[k + 1].name /\ IsEntry(t, dir, w.at[k + 1])
  BY <1>1, LeadsDown
<1>3. t[dir].kind = "dir" /\ Head(r.resolved) \in DOMAIN t[dir].names
      /\ t[dir].names[Head(r.resolved)] = child /\ t[child].kind # "link"
  BY <1>2 DEF IsEntry
<1> HIDE DEF dir
<1>4. x = IF t[dir].shut THEN Refuse(r, "denied") ELSE OpenComponent(t, r, child)
  BY <1>3 DEF OpenIn, OpenedAs
<1> HIDE DEF x, child
<1>5. CASE t[dir].shut
  <2>1. x = Refuse(r, "denied")
    BY <1>4, <1>5
  <2>2. Followed(t, x, w)
    BY <2>1, RefusedOwned
  <2> QED BY <2>2 DEF x, dir
<1>6. CASE ~ t[dir].shut /\ Len(r.resolved) = 1
  <2>1. x = Took(t, r, child)
    BY <1>3, <1>4, <1>6 DEF OpenComponent
  <2>2. k + 1 = Len(w.at)
    BY <1>1, <1>6 DEF Leads
  <2>3. child = Here(w)
    BY <2>2, HereIsLast DEF child
  <2>4. w.err = Fine
    BY <1>6
  <2> QED BY <2>1, <2>3, <2>4, TakesOwn DEF x, dir
<1>7. CASE ~ t[dir].shut /\ Len(r.resolved) # 1
  <2>1. x = [r EXCEPT !.dir = child, !.resolved = Tail(@)]
    BY <1>3, <1>4, <1>7 DEF OpenComponent
  <2> QED BY <1>7, <2>1 DEF x, dir, child
<1> QED BY <1>5, <1>6, <1>7

LEMMA OpensNext ==
  ASSUME NEW t, IsTree(t), NEW w \in AWalk(t), NEW r, Unfound(r), r.at = "open",
         FromSource(t, r), NEW k, k + 1 \in 1 .. Len(w.at), Len(r.resolved) # 1,
         Tail(r.resolved) # <<>>, Tail(r.resolved) \in Seq(STRING),
         NEW x, x = [r EXCEPT !.dir = w.at[k + 1].inode, !.resolved = Tail(@)],
         OpensThere(t, x, w, k + 1) \/ OpensMissing(t, x, w, k + 1)
  PROVE  Followed(t, x, w)
<1>1. /\ IsRead(x) /\ x.at = "open" /\ x.source = r.source /\ x.resolved = Tail(r.resolved)
      /\ x.dir = w.at[k + 1].inode /\ x.got = r.got /\ x.why = r.why
  BY DEF Unfound, IsRead
<1>2. x.dir # None
  <2>1. w.at[k + 1] \in Entry(t)
    BY ElementOfSeq DEF AWalk
  <2> QED BY <1>1, <2>1 DEF Entry, IsTree
<1>3. OpenAt(t, x, w, k + 1)
  BY <1>1, <1>2 DEF OpenAt
<1>4. Unfound(x) /\ FromSource(t, x)
  BY <1>1 DEF Unfound, FromSource
<1>5. Opens(t, x, w)
  BY <1>3, <1>4 DEF Opens
<1> QED BY <1>1, <1>5 DEF Followed

LEMMA OpensIn ==
  ASSUME NEW t, IsTree(t), NEW w \in AWalk(t), NEW r, Unfound(r), r.at = "open",
         FromSource(t, r), NEW k, OpenAt(t, r, w, k), r.resolved # <<>>,
         OpensThere(t, r, w, k)
  PROVE  Followed(t, OpenIn(t, r, w.at[k].inode), w)
<1> DEFINE names == r.resolved
           x == [r EXCEPT !.dir = w.at[k + 1].inode, !.resolved = Tail(@)]
<1>1. w.at \in Seq(Entry(t)) /\ names \in Seq(STRING) /\ k \in 1 .. Len(w.at) /\ w.err = Fine
      /\ Leads(t, w.at, k, names) /\ names # <<>>
  BY DEF AWalk, FromSource, OpenAt, OpensThere
<1> HIDE DEF names, x
<1>2. /\ Leads(t, w.at, k + 1, Tail(names)) /\ k + 1 \in 1 .. Len(w.at)
      /\ Tail(names) \in Seq(STRING) /\ Len(Tail(names)) = Len(names) - 1
  BY <1>1, LeadsDown
<1>3. ASSUME Len(names) # 1  PROVE  Followed(t, x, w)
  <2>1. Tail(names) # <<>>
    <3>1. Len(Tail(names)) # 0
      BY <1>1, <1>2, <1>3
    <3> QED BY <1>2, <3>1, EmptySeq
  <2>2. x.resolved = Tail(names)
    BY DEF Unfound, IsRead, x, names
  <2>3. OpensThere(t, x, w, k + 1)
    BY <1>1, <1>2, <2>2 DEF OpensThere
  <2> QED BY <1>2, <1>3, <2>1, <2>3, OpensNext DEF x, names
<1> QED BY <1>1, <1>3, OpensEntry DEF names, x

LEMMA OpensInMissing ==
  ASSUME NEW t, IsTree(t), NEW w \in AWalk(t), NEW r, Unfound(r), r.at = "open",
         FromSource(t, r), NEW k, OpenAt(t, r, w, k), OpensMissing(t, r, w, k)
  PROVE  Followed(t, OpenIn(t, r, w.at[k].inode), w)
<1>1. PICK names \in Seq(STRING), name \in STRING :
          /\ r.resolved = Append(names, name) /\ Leads(t, w.at, k, names)
          /\ name # Up /\ name \notin DOMAIN t[Here(w)].names
  BY DEF OpensMissing
<1>2. w.at \in Seq(Entry(t)) /\ k \in 1 .. Len(w.at) /\ w.err = "missing"
      /\ t[Here(w)].kind = "dir" /\ Len(w.at) \in Nat
  BY DEF AWalk, OpenAt, OpensMissing
<1>3. Len(r.resolved) = Len(names) + 1 /\ Len(names) \in Nat
  BY <1>1, AppendProperties
<1>4. CASE names = <<>>
  <2> DEFINE dir == w.at[k].inode
  <2>1. k = Len(w.at)
    <3>1. Len(names) = 0
      BY <1>4
    <3> QED BY <1>1, <1>2, <3>1 DEF Leads
  <2>2. dir = Here(w)
    BY <2>1, HereIsLast
  <2>3. Head(r.resolved) = name
    BY <1>1, <1>4
  <2>4. ~ Regular(t, w)
    BY <1>2 DEF Regular, Fine
  <2> HIDE DEF dir
  <2>5. OpenIn(t, r, dir) = IF t[dir].shut THEN Refuse(r, "denied") ELSE Refuse(r, "missing")
    BY <1>1, <1>2, <2>2, <2>3 DEF OpenIn
  <2>6. CASE t[dir].shut
    <3>1. OpenIn(t, r, dir) = Refuse(r, "denied")
      BY <2>5, <2>6
    <3> QED BY <3>1, RefusedOwned DEF dir
  <2>7. CASE ~ t[dir].shut
    <3>1. OpenIn(t, r, dir) = Refuse(r, "missing")
      BY <2>5, <2>7
    <3> QED BY <1>2, <2>4, <3>1, RefusedOwned DEF dir
  <2> QED BY <2>6, <2>7
<1>5. CASE names # <<>>
  <2> DEFINE x == [r EXCEPT !.dir = w.at[k + 1].inode, !.resolved = Tail(@)]
  <2>1. /\ Leads(t, w.at, k + 1, Tail(names)) /\ k + 1 \in 1 .. Len(w.at)
        /\ Tail(names) \in Seq(STRING)
    BY <1>1, <1>2, <1>5, LeadsDown
  <2>2. Head(r.resolved) = Head(names) /\ Tail(r.resolved) = Append(Tail(names), name)
    BY <1>1, <1>5
  <2>3. Len(r.resolved) # 1
    BY <1>1, <1>3, <1>5, EmptySeq
  <2>4. x.resolved = Tail(r.resolved)
    BY DEF Unfound, IsRead
  <2>5. Append(Tail(names), name) \in Seq(STRING) /\ Append(Tail(names), name) # <<>>
    BY <1>1, <2>1
  <2> HIDE DEF x
  <2>6. OpensMissing(t, x, w, k + 1)
    BY <1>1, <1>2, <2>1, <2>2, <2>4 DEF OpensMissing
  <2>7. Followed(t, x, w)
    BY <2>1, <2>2, <2>3, <2>5, <2>6, OpensNext DEF x
  <2> QED BY <1>1, <1>2, <1>5, <2>2, <2>3, <2>7, OpensEntry DEF x
<1> QED BY <1>4, <1>5

\* Each step of the open keeps to it as well.
LEMMA OpenFollows ==
  ASSUME NEW t, IsTree(t), NEW w, NEW r, r.at = "open", Followed(t, r, w)
  PROVE  Followed(t, OpenStep(t, r), w)
<1>1. CASE Climbs(w)
  BY <1>1 DEF Followed
<1>2. CASE ~ Climbs(w)
  <2>1. Opens(t, r, w)
    BY <1>2 DEF Followed
  <2>2. Unfound(r) /\ w \in AWalk(t) /\ FromSource(t, r)
    BY <2>1 DEF Opens
  <2>3. PICK k : OpenAt(t, r, w, k) /\ (OpensThere(t, r, w, k) \/ OpensMissing(t, r, w, k))
    BY <2>1 DEF Opens
  <2>4. OpensMissing(t, r, w, k) => r.resolved # <<>>
    BY DEF OpensMissing
  <2>5. ASSUME r.resolved # <<>>  PROVE  Followed(t, OpenIn(t, r, w.at[k].inode), w)
    BY <2>2, <2>3, <2>5, OpensIn, OpensInMissing
  <2>6. CASE r.dir # None
    BY <2>3, <2>5, <2>6 DEF OpenStep, OpenAt
  <2>7. CASE r.dir = None
    <3> DEFINE root == OnHost(t, r.source)
    <3>1. OpenStep(t, r) = OpenRoot(t, r, root)
      BY <2>7 DEF OpenStep
    <3>2. (root = AsRoot(t, r.source) /\ root.err = Fine) \/ root.err = "denied"
      BY <2>2, HostEnds DEF FromSource
    <3>3. root = AsRoot(t, r.source) => Here(root) = w.at[k].inode
      BY <2>3, <2>7 DEF OpenAt
    <3> HIDE DEF root
    <3>4. CASE root.err = "denied"
      <4>1. OpenRoot(t, r, root) = Refuse(r, "denied")
        BY <3>4 DEF OpenRoot, Fine
      <4> QED BY <2>2, <3>1, <4>1, RefusedOwned
    <3>5. CASE root.err = Fine /\ root = AsRoot(t, r.source) /\ r.resolved # <<>>
      <4>1. OpenRoot(t, r, root) = OpenIn(t, r, w.at[k].inode)
        BY <3>3, <3>5 DEF OpenRoot
      <4> QED BY <2>5, <3>1, <3>5, <4>1
    <3>6. CASE root.err = Fine /\ root = AsRoot(t, r.source) /\ r.resolved = <<>>
      <4>1. OpenRoot(t, r, root) = Took(t, r, w.at[k].inode)
        BY <3>3, <3>6 DEF OpenRoot
      <4>2. w.err = Fine /\ Leads(t, w.at, k, <<>>)
        BY <2>3, <2>4, <3>6 DEF OpensThere
      <4>3. k = Len(w.at)
        BY <2>2, <2>3, <4>2 DEF Leads, OpenAt, AWalk
      <4>4. w.at[k].inode = Here(w)
        BY <2>2, <4>3, HereIsLast
      <4> QED BY <2>2, <3>1, <4>1, <4>2, <4>4, TakesOwn
    <3> QED BY <3>2, <3>4, <3>5, <3>6
  <2> QED BY <2>6, <2>7
<1> QED BY <1>1, <1>2

\* Every mount has a place in the name space.
ArePlaces(mounts) ==
    /\ Len(mounts) \in Nat /\ DOMAIN mounts = 1 .. Len(mounts)
    /\ \A i \in DOMAIN mounts : mounts[i].target \in Seq(STRING)

IsBest(mounts, path, i) ==
    \A j \in DOMAIN mounts : Matches(mounts[j], path) =>
       \/ Len(mounts[i].target) > Len(mounts[j].target)
       \/ Len(mounts[i].target) = Len(mounts[j].target) /\ i <= j

LEMMA BestExists ==
  ASSUME NEW mounts, ArePlaces(mounts), NEW path \in Seq(STRING),
         NEW m \in DOMAIN mounts, Matches(mounts[m], path)
  PROVE  \E i \in DOMAIN mounts : Matches(mounts[i], path) /\ IsBest(mounts, path, i)
<1> DEFINE len(i) == Len(mounts[i].target)
           N == Len(path)
           covering == {i \in DOMAIN mounts : Matches(mounts[i], path)}
<1>1. N \in Nat /\ \A i \in covering : len(i) \in Nat /\ len(i) <= N /\ i \in Nat
  BY DEF ArePlaces, Matches, IsPrefix
<1>2. m \in covering
  OBVIOUS
<1> HIDE DEF len, N, covering
<1> DEFINE T == {n \in Nat : \E i \in covering : n = N - len(i)}
<1>3. T # {} /\ T \in SUBSET Nat
  <2>1. N - len(m) \in T
    BY <1>1, <1>2
  <2> QED BY <2>1
<1>4. PICK n \in T : \A k \in T : n <= k
  BY <1>3, FirstPosition
<1> DEFINE U == {i \in covering : n = N - len(i)}
<1>5. U # {} /\ U \in SUBSET Nat
  BY <1>1, <1>4
<1>6. PICK i \in U : \A k \in U : i <= k
  BY <1>5, FirstPosition
<1>7. ASSUME NEW j \in covering  PROVE  len(i) > len(j) \/ (len(i) = len(j) /\ i <= j)
  <2>1. n <= N - len(j)
    <3>1. N - len(j) \in T
      BY <1>1
    <3> QED BY <1>4, <3>1
  <2>2. n = N - len(i) /\ i \in covering
    BY <1>6
  <2>3. CASE n = N - len(j)
    <3>1. j \in U
      BY <2>3
    <3>2. len(i) = len(j)
      BY <1>1, <2>2, <2>3
    <3> QED BY <1>6, <3>1, <3>2
  <2>4. CASE n # N - len(j)
    <3>1. len(i) > len(j)
      <4> DEFINE a == len(i)
                 b == len(j)
      <4>1. a \in Nat /\ b \in Nat /\ N \in Nat /\ N - a <= N - b /\ N - a # N - b
        BY <1>1, <2>1, <2>2, <2>4
      <4> HIDE DEF a, b
      <4>2. a > b
        BY <4>1
      <4> QED BY <4>2 DEF a, b
    <3> QED BY <3>1
  <2> QED BY <2>3, <2>4
<1>8. i \in covering
  BY <1>6
<1> QED BY <1>7, <1>8 DEF IsBest, len, covering

LEMMA LocateIs ==
  ASSUME NEW mounts, ArePlaces(mounts), NEW path \in Seq(STRING)
  PROVE  LET at == Locate(mounts, path)
         IN  /\ at.path = path
             /\ at.mount = NoMount =>
                  \A i \in DOMAIN mounts : ~ Matches(mounts[i], path)
             /\ at.mount # NoMount =>
                  /\ at.mount \in DOMAIN mounts /\ Matches(mounts[at.mount], path)
                  /\ at.rest = Beyond(mounts, at.mount, path) /\ at.rest \in Seq(STRING)
<1> DEFINE covering == {i \in DOMAIN mounts : Matches(mounts[i], path)}
           Best(i) == \A j \in covering :
                    \/ Len(mounts[i].target) > Len(mounts[j].target)
                    \/ Len(mounts[i].target) = Len(mounts[j].target) /\ i <= j
           best == CHOOSE i \in covering : Best(i)
           at == Locate(mounts, path)
<1>1. at = IF covering = {} THEN [path |-> path, mount |-> NoMount, rest |-> <<>>]
           ELSE [path |-> path, mount |-> best, rest |-> Beyond(mounts, best, path)]
  BY DEF Locate
<1>2. CASE covering = {}
  BY <1>1, <1>2
<1>3. CASE covering # {}
  <2>1. \E i \in covering : Best(i)
    <3>1. PICK m \in DOMAIN mounts : Matches(mounts[m], path)
      BY <1>3
    <3>2. \E i \in DOMAIN mounts : Matches(mounts[i], path) /\ IsBest(mounts, path, i)
      BY <3>1, BestExists
    <3> QED BY <3>2 DEF IsBest
  <2> HIDE DEF Best
  <2>2. best \in covering
    BY <2>1
  <2> HIDE DEF best
  <2>3. best \in DOMAIN mounts /\ Matches(mounts[best], path) /\ best # NoMount
    BY <2>2 DEF ArePlaces, NoMount
  <2>4. at.path = path /\ at.mount = best /\ at.rest = Beyond(mounts, best, path)
    BY <1>1, <1>3
  <2> HIDE DEF at, covering
  <2>5. Beyond(mounts, best, path) \in Seq(STRING)
    <3> DEFINE a == Len(mounts[best].target) + 1
               b == Len(path)
    <3>1. a \in Nat /\ b \in Nat /\ a >= 1
      BY <2>3 DEF ArePlaces
    <3>2. \A n \in a .. b : path[n] \in STRING
      BY <3>1, ElementOfSeq
    <3> HIDE DEF a
    <3>3. SubSeq(path, a, b) \in Seq(STRING)
      BY <3>1, <3>2, SubSeqProperties
    <3> QED BY <3>3 DEF Beyond, a
  <2> QED BY <2>3, <2>4, <2>5 DEF at
<1> QED BY <1>2, <1>3

-----------------------------------------------------------------------------
(* The mounts of a container that runs.                                    *)

LEMMA MountedPlaces ==
  ASSUME NEW t, NEW mounts, IsMounted(t, mounts)
  PROVE  ArePlaces(mounts)
BY DEF IsMounted, ArePlaces

LEMMA MountedRoots ==
  ASSUME NEW t, IsTree(t), NEW mounts, IsMounted(t, mounts)
  PROVE  ArePoints(t, Points(t, mounts))
<1>1. ASSUME NEW i \in DOMAIN mounts  PROVE  MountRoot(t, mounts[i]) \in DOMAIN t
  <2>1. CASE mounts[i].kind = "bind"
    <3>1. mounts[i].source \in Seq(STRING)
      BY <2>1 DEF IsMounted
    <3>2. AsRoot(t, mounts[i].source) \in AWalk(t)
      BY <3>1, HostEnds
    <3> QED BY <2>1, <3>2, HereInTree DEF MountRoot
  <2>2. CASE mounts[i].kind # "bind"
    BY <2>2 DEF IsMounted, MountRoot
  <2> QED BY <2>1, <2>2
<1> QED BY <1>1 DEF ArePoints, Points

LEMMA ImageEnds ==
  ASSUME NEW t, IsTree(t), NEW mounts, IsMounted(t, mounts), NEW path \in Seq(STRING)
  PROVE  LET points == Points(t, mounts)
         IN  /\ InImage(t, points, path) \in AWalk(t) /\ Ended(InImage(t, points, path))
             /\ InImage(t, points, path) = End(t, points, FALSE, SetOut(RootAt(ImageRoot), path))
<1> DEFINE points == Points(t, mounts)
           x == SetOut(RootAt(ImageRoot), path)
<1>1. RootAt(ImageRoot) \in Seq(Entry(t)) \ {<<>>}
  BY RootType DEF IsTree
<1>2. x \in AWalk(t)
  BY <1>1, SetOutType
<1>3. ArePoints(t, points)
  BY MountedRoots
<1> HIDE DEF points
<1>4. InImage(t, points, path) = End(t, points, FALSE, x)
  BY <1>1, KernelEnds DEF InImage
<1> HIDE DEF x
<1>5. \A l : End(t, points, l, x) \in AWalk(t) /\ Ended(End(t, points, l, x))
  BY <1>2, <1>3, EndIs
<1>6. End(t, points, FALSE, x) \in AWalk(t) /\ Ended(End(t, points, FALSE, x))
  BY <1>5
<1> QED BY <1>4, <1>6 DEF points, x

\* Where each mount is, the kernel of the container gets to its root.
LEMMA MountIs ==
  ASSUME NEW t, IsTree(t), NEW mounts, IsMounted(t, mounts), NEW i \in DOMAIN mounts
  PROVE  LET w == InImage(t, Points(t, mounts), mounts[i].target)
         IN  /\ w \in AWalk(t) /\ w.err = Fine /\ Here(w) = MountRoot(t, mounts[i])
             /\ w.at \in Seq(Entry(t)) \ {<<>>}
<1> DEFINE w == InImage(t, Points(t, mounts), mounts[i].target)
<1>1. mounts[i].target \in Seq(STRING) /\ w.err = Fine /\ Here(w) = MountRoot(t, mounts[i])
  BY DEF IsMounted
<1>2. w \in AWalk(t)
  BY <1>1, ImageEnds
<1> HIDE DEF w
<1>3. w.at \in Seq(Entry(t)) \ {<<>>}
  BY <1>2 DEF AWalk
<1> QED BY <1>1, <1>2, <1>3 DEF w

LEMMA UncoveredIs ==
  ASSUME NEW t, NEW mounts, NEW path
  PROVE  /\ Uncovered(t, mounts, path)
              = FromMount(t, Points(t, mounts), {}, mounts, Locate(mounts, path))
         /\ InContainer(t, mounts, path)
              = FromMount(t, Points(t, mounts), Points(t, mounts), mounts, Locate(mounts, path))
BY DEF Uncovered, InContainer, Given

LEMMA BindEnds ==
  ASSUME NEW t, IsTree(t), NEW mounts, IsMounted(t, mounts), NEW path \in Seq(STRING),
         Locate(mounts, path).mount # NoMount
  PROVE  LET at == Locate(mounts, path)
             begin == SetOut(InImage(t, Points(t, mounts), mounts[at.mount].target).at, at.rest)
         IN  begin \in AWalk(t) /\ Uncovered(t, mounts, path) = RootEnd(t, begin)
<1> DEFINE at == Locate(mounts, path)
           w == InImage(t, Points(t, mounts), mounts[at.mount].target)
           begin == SetOut(w.at, at.rest)
<1>1. at.mount # NoMount /\ at.mount \in DOMAIN mounts /\ at.rest \in Seq(STRING)
  BY MountedPlaces, LocateIs
<1> HIDE DEF at
<1>2. w.at \in Seq(Entry(t)) \ {<<>>}
  BY <1>1, MountIs
<1>3. FromMount(t, Points(t, mounts), {}, mounts, at) = Kernel(t, {}, FALSE, w.at, at.rest)
  BY <1>1 DEF FromMount
<1>4. Uncovered(t, mounts, path) = Kernel(t, {}, FALSE, w.at, at.rest)
  BY <1>3, UncoveredIs DEF at
<1> HIDE DEF w
<1>5. begin \in AWalk(t) /\ Kernel(t, {}, FALSE, w.at, at.rest) = RootEnd(t, begin)
  BY <1>1, <1>2, SetOutType, KernelEnds DEF RootEnd
<1> QED BY <1>4, <1>5 DEF w, at

\* A read that begins sets out from where the mount is.
LEMMA BeginsAlong ==
  ASSUME NEW t, IsTree(t), NEW mounts, IsMounted(t, mounts), NEW path \in Seq(STRING),
         Locate(mounts, path).mount # NoMount, NEW m,
         m = mounts[Locate(mounts, path).mount], m.kind = "bind"
  PROVE  LET r == Reading(m.source, Locate(mounts, path).rest)
         IN  r.at = "lstat" /\ Resolves(t, r, Uncovered(t, mounts, path))
<1> DEFINE at == Locate(mounts, path)
           w == InImage(t, Points(t, mounts), m.target)
           begin == SetOut(w.at, at.rest)
           r == Reading(m.source, at.rest)
<1>1. at.mount # NoMount /\ at.mount \in DOMAIN mounts
  BY MountedPlaces, LocateIs
<1>2. w \in AWalk(t) /\ Here(w) = MountRoot(t, m) /\ w.at \in Seq(Entry(t)) \ {<<>>}
  BY <1>1, MountIs
<1>3. m.source \in Seq(STRING) /\ AsRoot(t, m.source).err = Fine
  BY <1>1 DEF IsMounted
<1>4. begin \in AWalk(t) /\ Uncovered(t, mounts, path) = RootEnd(t, begin)
  BY BindEnds
<1>5. Here(w) = Here(AsRoot(t, m.source))
  BY <1>2 DEF MountRoot
<1>6. Here(w) = w.at[Len(w.at)].inode /\ Len(w.at) \in 1 .. Len(w.at)
  BY <1>2, HereIsLast
<1> HIDE DEF at, w
<1>7. /\ r.at = "lstat" /\ r.source = m.source /\ r.pending = at.rest /\ r.resolved = <<>>
      /\ r.hops = 0 /\ r.dir = None /\ Unfound(r)
  BY DEF Reading, Unfound, IsRead
<1>8. /\ begin.at = w.at /\ begin.rest = at.rest /\ begin.hops = 0 /\ begin.err = Fine
      /\ begin.base = Len(w.at)
  BY DEF SetOut
<1> HIDE DEF r, begin
<1>9. FromSource(t, r)
  BY <1>3, <1>7 DEF FromSource
<1>10. Leads(t, begin.at, begin.base, r.resolved)
  <2>1. Len(r.resolved) = 0 /\ begin.base + 0 = Len(begin.at)
    BY <1>6, <1>7, <1>8
  <2> QED BY <2>1 DEF Leads
<1>11. Alongside(t, begin, r)
  BY <1>4, <1>5, <1>6, <1>7, <1>8, <1>9, <1>10 DEF Alongside
<1>12. Resolves(t, r, Uncovered(t, mounts, path))
  BY <1>4, <1>7, <1>11 DEF Resolves
<1> QED BY <1>7, <1>12 DEF r, at

-----------------------------------------------------------------------------
(* Where a file is looked for, it is where Traefik finds it.               *)

LEMMA ResolveKeeps ==
  ASSUME NEW t, NEW r, IsRead(r)
  PROVE  LET s == ResolveStep(t, r)
         IN  IsRead(s) /\ s.source = r.source /\ s.dir = r.dir /\ s.got = r.got
<1> DEFINE Alike(s) == IsRead(s) /\ s.source = r.source /\ s.dir = r.dir /\ s.got = r.got
<1>1. ASSUME NEW why  PROVE  Alike(Refuse(r, why))
  BY DEF Refuse, IsRead
<1>2. Alike(r)
  OBVIOUS
<1>3. ASSUME NEW at  PROVE  Alike([r EXCEPT !.at = at])
  BY DEF IsRead
<1>4. ASSUME NEW pending, NEW resolved
      PROVE  Alike([r EXCEPT !.pending = pending, !.resolved = resolved])
  BY DEF IsRead
<1>5. ASSUME NEW pending, NEW hops
      PROVE  Alike([r EXCEPT !.at = "lstat", !.hops = hops, !.pending = pending])
  BY DEF IsRead
<1> HIDE DEF Alike
<1>6. ASSUME NEW at  PROVE  Alike(Lstat(t, r, at))
  BY <1>1, <1>3, <1>4 DEF Lstat
<1>7. ASSUME NEW at  PROVE  Alike(Readlink(t, r, at))
  BY <1>1, <1>5 DEF Readlink
<1>8. Alike(ResolveStep(t, r))
  BY <1>2, <1>3, <1>6, <1>7 DEF ResolveStep
<1> QED BY <1>8 DEF Alike

\* However far it is taken.
LEMMA ResolvedFollows ==
  ASSUME NEW t, IsTree(t), NEW w, NEW source, NEW rest \in Seq(STRING),
         Followed(t, Reading(source, rest), w)
  PROVE  LET r == Resolved(t, source, rest)
         IN  /\ IsRead(r) /\ r.source = source /\ r.dir = None /\ r.got = None
             /\ Followed(t, r, w)
             /\ r.at \in {"lstat", "readlink", "open", "done"}
<1> DEFINE x == Reading(source, rest)
           v(n) == After(ResolveIn(t), x, n)
           Good(r) == /\ IsRead(r) /\ r.source = source /\ r.dir = None /\ r.got = None
                      /\ Followed(t, r, w)
                      /\ r.at \in {"lstat", "readlink", "open", "done"}
           T == {n \in Nat : ~ Good(v(n))}
           N == 2 * Steps(rest) + 1
<1>1. Steps(rest) \in Nat /\ N \in Nat
  <2> DEFINE a == Len(rest)
             b == MaxHops * MaxLink
  <2>1. a \in Nat /\ b \in Nat
    BY MountsAssumption
  <2>2. Steps(rest) = a + b
    BY DEF Steps
  <2> HIDE DEF a, b
  <2>3. Steps(rest) \in Nat
    BY <2>1, <2>2
  <2> QED BY <2>3
<1>2. Resolved(t, source, rest) = v(N)
  BY <1>1, ResolvedIs
<1>3. Good(v(0))
  <2>1. v(0) = x
    BY AfterNone
  <2>2. IsRead(x) /\ x.source = source /\ x.dir = None /\ x.got = None /\ x.at = "lstat"
    BY DEF Reading, IsRead
  <2> HIDE DEF v
  <2>3. Followed(t, x, w)
    OBVIOUS
  <2> HIDE DEF x
  <2> QED BY <2>1, <2>2, <2>3
<1>4. ASSUME NEW n \in Nat, Good(v(n))  PROVE  Good(v(n + 1))
  <2> DEFINE r == v(n)
             s == ResolveStep(t, r)
  <2>1. v(n + 1) = s
    <3>1. After(ResolveIn(t), x, n + 1) = Moved(ResolveIn(t), n + 1, After(ResolveIn(t), x, n))
      BY AfterNext
    <3>2. \A y, k : Moved(ResolveIn(t), k, y) = ResolveStep(t, y)
      BY DEF Moved, ResolveIn
    <3> QED BY <3>1, <3>2
  <2>2. Good(r)
    BY <1>4
  <2> HIDE DEF r, v
  <2>3. IsRead(s) /\ s.source = source /\ s.dir = None /\ s.got = None
    BY <2>2, ResolveKeeps
  <2>4. CASE r.at \in {"lstat", "readlink"}
    <3>1. Followed(t, s, w)
      BY <2>2, <2>4, ResolveFollows
    <3>2. s.at \in {"lstat", "readlink", "open", "done"}
      <4>1. \A why : Refuse(r, why).at = "done"
        BY <2>2 DEF IsRead, Refuse
      <4>2. [r EXCEPT !.at = "open"].at = "open" /\ [r EXCEPT !.at = "readlink"].at = "readlink"
        BY <2>2 DEF IsRead
      <4>3. ASSUME NEW pending, NEW resolved, r.at = "lstat"
            PROVE  [r EXCEPT !.pending = pending, !.resolved = resolved].at = "lstat"
        BY <2>2, <4>3 DEF IsRead
      <4>4. ASSUME NEW pending, NEW hops
            PROVE  [r EXCEPT !.at = "lstat", !.hops = hops, !.pending = pending].at = "lstat"
        BY <2>2 DEF IsRead
      <4>5. CASE r.at = "lstat" /\ r.pending = <<>>
        BY <4>2, <4>5 DEF ResolveStep
      <4>6. CASE r.at = "lstat" /\ r.pending # <<>>
        <5>1. s = Lstat(t, r, Candidate(t, r))
          BY <4>6 DEF ResolveStep
        <5> HIDE DEF s
        <5> QED BY <4>1, <4>2, <4>3, <4>6, <5>1 DEF Lstat
      <4>7. CASE r.at = "readlink"
        <5>1. s = Readlink(t, r, Candidate(t, r))
          BY <4>7 DEF ResolveStep
        <5> HIDE DEF s
        <5> QED BY <4>1, <4>4, <5>1 DEF Readlink
      <4> QED BY <2>4, <4>5, <4>6, <4>7
    <3> QED BY <2>1, <2>3, <3>1, <3>2
  <2>5. CASE r.at \in {"open", "done"}
    <3>1. s = r
      BY <2>5 DEF ResolveStep
    <3> QED BY <2>1, <2>2, <3>1
  <2> QED BY <2>2, <2>4, <2>5
<1> HIDE DEF Good, v
<1>5. T = {}
  <2> SUFFICES ASSUME T # {}  PROVE  FALSE
    OBVIOUS
  <2>1. PICK n \in T : \A m \in T : n <= m
    BY FirstPosition
  <2>2. n # 0
    BY <1>3, <2>1
  <2>3. n - 1 \in Nat /\ n - 1 \notin T /\ (n - 1) + 1 = n
    BY <2>1, <2>2
  <2> QED BY <1>4, <2>1, <2>3
<1>6. Good(v(N))
  BY <1>1, <1>5
<1> QED BY <1>2, <1>6 DEF Good

\* A file the host's resolution ends at, the container's kernel has.
LEMMA OpensStat ==
  ASSUME NEW t, IsTree(t), NEW w, NEW r, Opens(t, r, w), r.dir = None
  PROVE  /\ Stat(OnHost(t, r.source \o r.resolved)) = "absent" => w.err = "missing"
         /\ Stat(OnHost(t, r.source \o r.resolved)) = "present" => w.err # "missing"
<1>1. w \in AWalk(t) /\ FromSource(t, r)
  BY DEF Opens
<1>2. PICK k : OpenAt(t, r, w, k) /\ (OpensThere(t, r, w, k) \/ OpensMissing(t, r, w, k))
  BY DEF Opens
<1>3. w.at \in Seq(Entry(t)) /\ k \in 1 .. Len(w.at) /\ w.at[k].inode = Here(AsRoot(t, r.source))
      /\ r.source \in Seq(STRING) /\ AsRoot(t, r.source).err = Fine /\ r.resolved \in Seq(STRING)
  BY <1>1, <1>2 DEF AWalk, OpenAt, FromSource
<1> DEFINE path == r.source \o r.resolved
           h == OnHost(t, path)
           u == AsRoot(t, path)
<1>4. path \in Seq(STRING)
  BY <1>3
<1>5. h = u \/ h.err = "denied"
  BY <1>4, HostEnds
<1> HIDE DEF h, u
<1>6. h.err = "denied" => Stat(h) = "unknown"
  BY DEF Stat, Fine
<1>7. CASE OpensThere(t, r, w, k)
  <2>1. u.err = Fine
    BY <1>3, <1>7, HostLeads DEF OpensThere, u
  <2>2. h = u => Stat(h) = "present"
    BY <2>1 DEF Stat, Fine
  <2>3. w.err # "missing"
    BY <1>7 DEF OpensThere, Fine
  <2> QED BY <1>5, <1>6, <2>2, <2>3 DEF h
<1>8. CASE OpensMissing(t, r, w, k)
  <2>1. PICK names \in Seq(STRING), name \in STRING :
          /\ r.resolved = Append(names, name) /\ Leads(t, w.at, k, names)
          /\ name # Up /\ name \notin DOMAIN t[Here(w)].names
    BY <1>8 DEF OpensMissing
  <2> DEFINE q == r.source \o names
  <2>2. q \in Seq(STRING) /\ path = Append(q, name)
    <3>0. Append(names, name) = names \o <<name>>
      BY <2>1, AppendIsConcat
    <3>1. path = r.source \o (names \o <<name>>) /\ <<name>> \in Seq(STRING)
      BY <2>1, <3>0
    <3>2. q \in Seq(STRING)
      BY <1>3, <2>1
    <3>3. path = q \o <<name>>
      <4>1. r.source \o (names \o <<name>>) = (r.source \o names) \o <<name>>
        <5>1. \A s1, s2, s3 \in Seq(STRING) : s1 \o (s2 \o s3) = (s1 \o s2) \o s3
          BY ConcatAssociative
        <5>2. r.source \in Seq(STRING) /\ names \in Seq(STRING) /\ <<name>> \in Seq(STRING)
          BY <1>3, <3>1
        <5> QED BY <5>1, <5>2
      <4> QED BY <3>1, <4>1
    <3> HIDE DEF q, path
    <3>4. Append(q, name) = q \o <<name>>
      BY <3>2, AppendIsConcat
    <3> QED BY <3>2, <3>3, <3>4
  <2>3. AsRoot(t, q).err = Fine /\ Here(AsRoot(t, q)) = w.at[k + Len(names)].inode
    BY <1>3, <2>1, HostLeads
  <2>4. Here(AsRoot(t, q)) = Here(w)
    BY <1>1, <2>1, <2>3, HereIsLast DEF Leads
  <2>5. t[Here(w)].kind = "dir" /\ w.err = "missing"
    BY <1>8 DEF OpensMissing
  <2> HIDE DEF q, path
  <2>6. AsRoot(t, Append(q, name)).err = "missing"
    BY <2>1, <2>2, <2>3, <2>4, <2>5, OneMore
  <2>7. u.err = "missing"
    BY <2>2, <2>6 DEF u
  <2>8. h = u => Stat(h) = "absent"
    BY <2>7 DEF Stat
  <2> QED BY <1>5, <1>6, <2>5, <2>8 DEF h, path
<1> QED BY <1>2, <1>7, <1>8

LEMMA BindPresenceIs ==
  ASSUME NEW t, IsTree(t), NEW w, NEW source, NEW rest \in Seq(STRING), ~ Climbs(w),
         Followed(t, Reading(source, rest), w)
  PROVE  /\ BindPresence(t, source, rest) = "absent" => w.err = "missing"
         /\ BindPresence(t, source, rest) = "present" => w.err # "missing"
         /\ BindPresence(t, source, rest) # "none"
<1> DEFINE r == Resolved(t, source, rest)
           p == BindPresence(t, source, rest)
           s == Stat(OnHost(t, r.source \o r.resolved))
<1>1. /\ IsRead(r) /\ r.source = source /\ r.dir = None /\ r.got = None
      /\ Followed(t, r, w)
      /\ r.at \in {"lstat", "readlink", "open", "done"}
  BY ResolvedFollows
<1>2. p = IF r.at = "open" THEN s ELSE IF r.why = "missing component" THEN "absent" ELSE "unknown"
  <2>1. p = CHOOSE y \in {IF x.at = "open" THEN Stat(OnHost(t, source \o x.resolved))
                          ELSE IF x.why = "missing component" THEN "absent" ELSE "unknown" :
                            x \in {r}} : TRUE
    BY DEF BindPresence, Given
  <2>2. r.source = source
    BY <1>1
  <2> HIDE DEF r, p
  <2>3. p = IF r.at = "open" THEN Stat(OnHost(t, source \o r.resolved))
            ELSE IF r.why = "missing component" THEN "absent" ELSE "unknown"
    <3> DEFINE Is(x) == IF x.at = "open" THEN Stat(OnHost(t, source \o x.resolved))
                        ELSE IF x.why = "missing component" THEN "absent" ELSE "unknown"
               S == {Is(x) : x \in {r}}
    <3>1. p = CHOOSE y \in S : TRUE
      BY <2>1
    <3> HIDE DEF Is
    <3>2. S = {Is(r)}
      OBVIOUS
    <3> HIDE DEF S
    <3>3. p = Is(r)
      BY <3>1, <3>2
    <3> QED BY <3>3 DEF Is
  <2> QED BY <2>2, <2>3
<1>6. s # "none"
  BY DEF Stat
<1> HIDE DEF r, p, s
<1>7. p # "none"
  BY <1>2, <1>6
<1>3. CASE r.at = "open"
  <2>1. Opens(t, r, w)
    BY <1>1, <1>3 DEF Followed
  <2>2. (s = "absent" => w.err = "missing") /\ (s = "present" => w.err # "missing")
    BY <1>1, <2>1, OpensStat DEF s
  <2> QED BY <1>2, <1>3, <1>7, <2>2 DEF p
<1>4. CASE r.at = "done"
  <2>1. Owned(t, r, w)
    BY <1>1, <1>4 DEF Followed
  <2>2. r.why = "missing component" => w.err = "missing"
    BY <2>1 DEF Owned
  <2>3. p # "present" /\ (p = "absent" => r.why = "missing component")
    BY <1>2, <1>4
  <2> QED BY <2>2, <2>3, <1>7 DEF p
<1>5. CASE r.at \in {"lstat", "readlink"}
  <2>1. r.why = Fine
    BY <1>1, <1>5 DEF Followed, Resolves, Opens, Unfound
  <2>2. p = "unknown"
    BY <1>2, <1>5, <2>1 DEF Fine
  <2> QED BY <2>2, <1>7 DEF p
<1> QED BY <1>1, <1>3, <1>4, <1>5

\* The root of a mount is at its target.
LEMMA AtTarget ==
  ASSUME NEW t, IsTree(t), NEW mounts, IsMounted(t, mounts), NEW path \in Seq(STRING),
         Locate(mounts, path).mount # NoMount, Locate(mounts, path).rest = <<>>
  PROVE  /\ Uncovered(t, mounts, path).err = Fine
         /\ Here(Uncovered(t, mounts, path)) = MountRoot(t, mounts[Locate(mounts, path).mount])
<1> DEFINE at == Locate(mounts, path)
           w == InImage(t, Points(t, mounts), mounts[at.mount].target)
           begin == SetOut(w.at, at.rest)
<1>1. at.mount # NoMount /\ at.mount \in DOMAIN mounts
  BY MountedPlaces, LocateIs
<1>2. begin \in AWalk(t) /\ Uncovered(t, mounts, path) = RootEnd(t, begin)
  BY BindEnds
<1>3. w \in AWalk(t) /\ Here(w) = MountRoot(t, mounts[at.mount])
  BY <1>1, MountIs
<1>4. begin.at = w.at /\ begin.rest = <<>> /\ begin.err = Fine
  BY DEF SetOut
<1> HIDE DEF begin
<1>5. ArePoints(t, {})
  BY DEF ArePoints
<1>6. RootEnd(t, begin) = begin
  BY <1>2, <1>4, <1>5, EndEnded DEF Ended, RootEnd
<1>7. Here(begin) = Here(w)
  BY <1>4 DEF Here
<1> QED BY <1>2, <1>3, <1>4, <1>6, <1>7

LEMMA ConfigRest ==
  ASSUME NEW mounts, ArePlaces(mounts), NEW path \in Seq(STRING),
         Locate(mounts, path).mount # NoMount,
         mounts[Locate(mounts, path).mount].kind = "config"
  PROVE  Locate(mounts, path).rest = <<>>
<1> DEFINE at == Locate(mounts, path)
           m == mounts[at.mount]
<1>1. Matches(m, path) /\ at.rest = SubSeq(path, Len(m.target) + 1, Len(path))
  BY LocateIs DEF Beyond
<1>2. path = m.target
  BY <1>1 DEF Matches
<1> HIDE DEF m, at
<1>3. SubSeq(path, Len(path) + 1, Len(path)) = <<>>
  <2>1. Len(path) \in Nat
    OBVIOUS
  <2> QED BY <2>1
<1> QED BY <1>1, <1>2, <1>3 DEF at

\* What decides on a candidate, decides as Traefik does.
LEMMA CandidateFound ==
  ASSUME NEW t, IsTree(t), NEW w, IsMounted(t, w.mounts), NEW path \in Seq(STRING),
         OwnMount(t, w.mounts, path),
         Locate(w.mounts, path).mount = NoMount => InContainer(t, w.mounts, path).err = "missing",
         NEW isHere, NEW k
  PROVE  LET is == CandidateIs(t, w, path, k, isHere, Locate(w.mounts, path))
         IN  /\ is = "absent"  => InContainer(t, w.mounts, path).err = "missing"
             /\ is = "present" => InContainer(t, w.mounts, path).err # "missing"
             /\ is # "none"
<1> DEFINE at == Locate(w.mounts, path)
           m == w.mounts[at.mount]
           is == CandidateIs(t, w, path, k, isHere, at)
           u == InContainer(t, w.mounts, path)
<1>1. CASE at.mount = NoMount
  <2>1. is \in {"not mounted", "absent"}
    BY <1>1 DEF CandidateIs
  <2>2. u.err = "missing"
    BY <1>1
  <2> HIDE DEF is, u
  <2> QED BY <2>1, <2>2 DEF is, u
<1>2. CASE at.mount # NoMount
  <2>1. u = Uncovered(t, w.mounts, path) /\ ~ Climbs(u)
    BY DEF OwnMount
  <2>2. is = IF m.kind = "config" \/ (m.kind = "bind" /\ at.rest = <<>>) THEN "present"
             ELSE IF m.kind # "bind" \/ ~ isHere THEN "unknown"
             ELSE BindPresence(t, m.source, at.rest)
    BY <1>2 DEF CandidateIs, Presence
  <2>3. m.kind = "config" => at.rest = <<>>
    BY <1>2, ConfigRest, MountedPlaces
  <2>4. at.rest \in Seq(STRING)
    BY <1>2, LocateIs, MountedPlaces
  <2>5. at.rest = <<>> => u.err = Fine
    BY <1>2, <2>1, AtTarget
  <2>6. m.kind = "bind" => Followed(t, Reading(m.source, at.rest), u)
    <3>1. ASSUME m.kind = "bind"
          PROVE  LET r == Reading(m.source, at.rest)
                 IN  r.at = "lstat" /\ Resolves(t, r, Uncovered(t, w.mounts, path))
      BY <1>2, <3>1, BeginsAlong
    <3> QED BY <2>1, <3>1 DEF Followed
  <2>7. m.kind = "bind" => LET p == BindPresence(t, m.source, at.rest)
                           IN  /\ p = "absent" => u.err = "missing"
                               /\ p = "present" => u.err # "missing"
                               /\ p # "none"
    BY <2>1, <2>4, <2>6, BindPresenceIs
  <2> DEFINE p == BindPresence(t, m.source, at.rest)
  <2> HIDE DEF is, u, p, at, m
  <2>8. /\ is = "absent"  => u.err = "missing"
        /\ is = "present" => u.err # "missing"
        /\ is # "none"
    BY <2>2, <2>3, <2>5, <2>7 DEF Fine, p
  <2> QED BY <2>8 DEF is, u, at
<1> QED BY <1>1, <1>2

-----------------------------------------------------------------------------
(* The first candidate that is there.                                      *)

CandidateStates(t, w, isHere) ==
    [k \in DOMAIN CandidatePaths(w) |->
        CandidateIs(t, w, CandidatePaths(w)[k], k, isHere,
                    Locate(w.mounts, CandidatePaths(w)[k]))]
There(t, w) ==
    {k \in DOMAIN CandidatePaths(w) :
        InContainer(t, w.mounts, CandidatePaths(w)[k]).err # "missing"}

LEMMA SearchedIs ==
  ASSUME NEW t, NEW w, NEW isHere
  PROVE  Searched(t, w, isHere)
           = FirstOf(CandidatePaths(w), CandidateStates(t, w, isHere),
                     Stops(CandidateStates(t, w, isHere)))
<1> DEFINE P == CandidatePaths(w)
           Is(paths) == [k \in DOMAIN paths |->
                CandidateIs(t, w, paths[k], k, isHere, Locate(w.mounts, paths[k]))]
           Op(paths, is) == FirstOf(paths, is, Stops(is))
           In(paths) == CHOOSE y \in {Op(paths, is) : is \in {Is(paths)}} : TRUE
<1>1. Searched(t, w, isHere) = CHOOSE y \in {In(paths) : paths \in {P}} : TRUE
  BY DEF Searched, Given
<1>2. CandidateStates(t, w, isHere) = Is(P)
  BY DEF CandidateStates
<1> HIDE DEF Is, Op
<1>3. In(P) = Op(P, Is(P))
  <2> DEFINE S == {Op(P, is) : is \in {Is(P)}}
  <2>1. S = {Op(P, Is(P))}
    OBVIOUS
  <2>2. In(P) = CHOOSE y \in S : TRUE
    OBVIOUS
  <2> HIDE DEF S, In
  <2> QED BY <2>1, <2>2
<1> HIDE DEF In
<1>4. (CHOOSE y \in {In(paths) : paths \in {P}} : TRUE) = In(P)
  <2> DEFINE S == {In(paths) : paths \in {P}}
  <2>1. S = {In(P)}
    OBVIOUS
  <2> HIDE DEF S
  <2>2. (CHOOSE y \in S : TRUE) = In(P)
    BY <2>1
  <2> QED BY <2>2 DEF S
<1>5. Searched(t, w, isHere) = Op(P, Is(P))
  BY <1>1, <1>3, <1>4
<1> QED BY <1>2, <1>5 DEF Op

LEMMA FoundIsThere ==
  ASSUME NEW t, IsTree(t), NEW w, IsMounted(t, w.mounts),
         CandidatePaths(w) \in Seq(Seq(STRING)), NEW isHere,
         \A k \in DOMAIN CandidatePaths(w) :
            LET path == CandidatePaths(w)[k]
            IN  /\ OwnMount(t, w.mounts, path)
                /\ Locate(w.mounts, path).mount = NoMount
                     => InContainer(t, w.mounts, path).err = "missing"
  PROVE  LET found == Searched(t, w, isHere)
         IN  /\ found.is = "none" => There(t, w) = {}
             /\ found.is = "present" =>
                  \E k \in There(t, w) : /\ \A j \in There(t, w) : k <= j
                                         /\ found.path = CandidatePaths(w)[k]
<1> DEFINE P == CandidatePaths(w)
           is == CandidateStates(t, w, isHere)
           found == Searched(t, w, isHere)
           stops == Stops(is)
           first == CHOOSE k \in stops : \A j \in stops : k <= j
<1>1. DOMAIN P = 1 .. Len(P) /\ Len(P) \in Nat /\ \A k \in DOMAIN P : P[k] \in Seq(STRING)
  OBVIOUS
<1>2. ASSUME NEW k \in DOMAIN P
      PROVE  /\ is[k] = "absent"  => k \notin There(t, w)
             /\ is[k] = "present" => k \in There(t, w)
             /\ is[k] # "none"
  <2>1. is[k] = CandidateIs(t, w, P[k], k, isHere, Locate(w.mounts, P[k]))
    BY DEF CandidateStates
  <2> DEFINE path == P[k]
  <2>2. /\ path \in Seq(STRING) /\ OwnMount(t, w.mounts, path)
        /\ Locate(w.mounts, path).mount = NoMount
             => InContainer(t, w.mounts, path).err = "missing"
    BY <1>1
  <2>3. k \in There(t, w) <=> InContainer(t, w.mounts, path).err # "missing"
    BY DEF There
  <2>4. is[k] = CandidateIs(t, w, path, k, isHere, Locate(w.mounts, path))
    BY <2>1
  <2> HIDE DEF path, P, is
  <2> DEFINE x == CandidateIs(t, w, path, k, isHere, Locate(w.mounts, path))
  <2>5. /\ x = "absent"  => InContainer(t, w.mounts, path).err = "missing"
        /\ x = "present" => InContainer(t, w.mounts, path).err # "missing"
        /\ x # "none"
    BY <2>2, CandidateFound
  <2> HIDE DEF x
  <2>6. is[k] = x
    BY <2>4 DEF x
  <2> QED BY <2>3, <2>5, <2>6
<1>3. found = FirstOf(P, is, stops)
  BY SearchedIs
<1>4. stops = {k \in DOMAIN P : is[k] # "absent"}
  BY DEF Stops, CandidateStates
<1>5. There(t, w) \subseteq DOMAIN P
  BY DEF There
<1> HIDE DEF is, found, stops, P
<1>6. CASE stops = {}
  <2>1. found.is = "none"
    BY <1>3, <1>6 DEF FirstOf
  <2>2. There(t, w) = {}
    BY <1>2, <1>4, <1>5, <1>6
  <2> QED BY <2>1, <2>2 DEF found
<1>7. CASE stops # {}
  <2>1. found.is = is[first] /\ found.path = P[first]
    BY <1>3, <1>7 DEF FirstOf
  <2>2. first \in stops /\ \A j \in stops : first <= j
    <3>1. stops \in SUBSET Nat
      BY <1>1, <1>4
    <3>2. \E k \in stops : \A j \in stops : k <= j
      BY <1>7, <3>1, FirstPosition
    <3> QED BY <3>2
  <2> HIDE DEF first
  <2>3. found.is # "none"
    BY <1>2, <1>4, <2>1, <2>2
  <2>4. ASSUME found.is = "present"
        PROVE  first \in There(t, w) /\ \A j \in There(t, w) : first <= j
    <3>1. first \in There(t, w)
      BY <1>2, <1>4, <2>1, <2>2, <2>4
    <3>2. There(t, w) \subseteq stops
      BY <1>2, <1>4, <1>5
    <3> QED BY <2>2, <3>1, <3>2
  <2> QED BY <2>1, <2>3, <2>4 DEF found, P
<1> QED BY <1>6, <1>7

LEMMA TraefikSourceIs ==
  LET P     == CandidatePaths(Workload)
      at    == [k \in DOMAIN P |-> InContainer(tree, Mounts, P[k])]
      there == There(tree, Workload)
      first == CHOOSE k \in there : \A j \in there : k <= j
  IN  TraefikSource
        = IF there # {} THEN SourceAt(P[first], at[first])
          ELSE IF Workload.flags # <<>> THEN Argued("flags", Head(Workload.flags))
          ELSE IF Workload.env # <<>> THEN Argued("env", Head(Workload.env))
          ELSE Argued(Unset, NoStatic)
<1> DEFINE P == CandidatePaths(Workload)
           At(paths) == [k \in DOMAIN paths |-> InContainer(tree, Mounts, paths[k])]
           Over(at) == {k \in DOMAIN at : at[k].err # "missing"}
           First(there) == CHOOSE k \in there : \A j \in there : k <= j
           Op(paths, at) ==
             IF Over(at) # {} THEN SourceAt(paths[First(Over(at))], at[First(Over(at))])
             ELSE IF Workload.flags # <<>> THEN Argued("flags", Head(Workload.flags))
             ELSE IF Workload.env # <<>> THEN Argued("env", Head(Workload.env))
             ELSE Argued(Unset, NoStatic)
           In(paths) == CHOOSE y \in {Op(paths, at) : at \in {At(paths)}} : TRUE
<1>1. TraefikSource = CHOOSE y \in {In(paths) : paths \in {P}} : TRUE
  BY DEF TraefikSource, Given
<1>2. Over(At(P)) = There(tree, Workload)
  BY DEF There, Mounts
<1> HIDE DEF Op, At
<1>3. In(P) = Op(P, At(P))
  <2> DEFINE S == {Op(P, at) : at \in {At(P)}}
  <2>1. S = {Op(P, At(P))}
    OBVIOUS
  <2>2. In(P) = CHOOSE y \in S : TRUE
    OBVIOUS
  <2> HIDE DEF S, In
  <2> QED BY <2>1, <2>2
<1> HIDE DEF In
<1>4. (CHOOSE y \in {In(paths) : paths \in {P}} : TRUE) = In(P)
  <2> DEFINE S == {In(paths) : paths \in {P}}
  <2>1. S = {In(P)}
    OBVIOUS
  <2> HIDE DEF S
  <2>2. (CHOOSE y \in S : TRUE) = In(P)
    BY <2>1
  <2> QED BY <2>2 DEF S
<1>5. TraefikSource = Op(P, At(P))
  BY <1>1, <1>3, <1>4
<1> DEFINE at == At(P)
           there == There(tree, Workload)
<1>6. TraefikSource = Op(P, at) /\ Over(at) = there
  BY <1>2, <1>5
<1> HIDE DEF at, there, P
<1>7. TraefikSource
        = IF there # {} THEN SourceAt(P[First(there)], at[First(there)])
          ELSE IF Workload.flags # <<>> THEN Argued("flags", Head(Workload.flags))
          ELSE IF Workload.env # <<>> THEN Argued("env", Head(Workload.env))
          ELSE Argued(Unset, NoStatic)
  <2> DEFINE o == Over(at)
  <2>1. Op(P, at) = IF o # {} THEN SourceAt(P[First(o)], at[First(o)])
                    ELSE IF Workload.flags # <<>> THEN Argued("flags", Head(Workload.flags))
                    ELSE IF Workload.env # <<>> THEN Argued("env", Head(Workload.env))
                    ELSE Argued(Unset, NoStatic)
    BY DEF Op
  <2>2. o = there
    BY <1>6
  <2> HIDE DEF o, Op, Over, First
  <2> QED BY <1>6, <2>1, <2>2
<1> QED BY <1>7 DEF P, at, there, At

-----------------------------------------------------------------------------
(* The files of the provider are where their paths are located.            *)

\* What holds at first and after each step holds at the end.
LEMMA UpTo ==
  ASSUME NEW N \in Nat, NEW Good, 0 \in Good,
         \A n \in 1 .. N : n - 1 \in Good => n \in Good
  PROVE  N \in Good
<1> DEFINE T == {n \in 0 .. N : n \notin Good}
<1> SUFFICES ASSUME T # {}  PROVE  FALSE
  OBVIOUS
<1>0. T \in SUBSET Nat
  OBVIOUS
<1>1. PICK n \in T : \A m \in T : n <= m
  BY <1>0, FirstPosition
<1>2. n # 0
  BY <1>1
<1>3. n \in 1 .. N /\ n - 1 \in 0 .. N /\ n - 1 \notin T
  BY <1>1, <1>2
<1> QED BY <1>1, <1>3

\* What SetToSeq makes of a finite set are its members.
LEMMA MembersOf ==
  ASSUME NEW S, IsFiniteSet(S)
  PROVE  SetToSeq(S) \in Seq(S) /\ Len(SetToSeq(S)) = Cardinality(S)
<1>1. PICK n \in Nat : n = Cardinality(S)
  BY FS_CardinalityType
<1>2. PICK f \in Bijection(1 .. n, S) : TRUE
  BY <1>1, FS_CardinalityType DEF ExistsBijection
<1>3. f \in [1 .. n -> S] /\ \A a, b \in 1 .. n : f[a] = f[b] => a = b
  BY Fun_BijectionProperties
<1>4. \E g \in [1 .. Cardinality(S) -> S] : IsInjective(g)
  BY <1>1, <1>3 DEF IsInjective
<1> DEFINE s == SetToSeq(S)
<1>5. s \in [1 .. n -> S]
  BY <1>1, <1>4 DEF SetToSeq
<1> HIDE DEF s
<1> QED BY <1>1, <1>5 DEF s

Places(mounts) == {Locate(mounts, path) : path \in Seq(STRING)}

IsScan(mounts, s) ==
    "found" \in DOMAIN s /\ s.found \in SUBSET Places(mounts) /\ IsFiniteSet(s.found)
IsListing(mounts, v) ==
    /\ DOMAIN v = {"todo", "scan", "kept"}
    /\ v.todo \in Seq(Seq(STRING)) /\ IsScan(mounts, v.scan)
    /\ v.kept \in SUBSET Places(mounts) /\ IsFiniteSet(v.kept)

LEMMA NotedScan ==
  ASSUME NEW mounts, NEW s, IsScan(mounts, s), NEW why
  PROVE  IsScan(mounts, Note(s, why))
BY DEF IsScan, Note

LEMMA GrownScan ==
  ASSUME NEW mounts, NEW s, IsScan(mounts, s), NEW path \in Seq(STRING), NEW z,
         z = [s EXCEPT !.found = @ \cup {Locate(mounts, path)}]
  PROVE  IsScan(mounts, z)
<1> DEFINE place == Locate(mounts, path)
<1>1. place \in Places(mounts)
  BY DEF Places
<1>2. z.found = s.found \cup {place} /\ DOMAIN z = DOMAIN s
  BY DEF IsScan
<1> HIDE DEF place
<1>3. IsFiniteSet(s.found \cup {place})
  BY FS_AddElement DEF IsScan
<1> QED BY <1>1, <1>2, <1>3 DEF IsScan

\* One file of a directory.
LEMMA WalkedFileScans ==
  ASSUME NEW t, NEW mounts, NEW i, NEW path \in Seq(STRING), NEW s, IsScan(mounts, s)
  PROVE  IsScan(mounts, WalkedFile(t, mounts, i, path, s))
<1>1. ASSUME NEW w  PROVE  IsScan(mounts, TakenFile(t, mounts, i, path, s, w))
  <2> DEFINE z == [s EXCEPT !.found = @ \cup {Locate(mounts, path)}]
  <2>1. IsScan(mounts, z)
    BY GrownScan
  <2>2. TakenFile(t, mounts, i, path, s, w)
          \in {Note(s, w.err), Note(s, "not a regular file"), s, z}
    BY DEF TakenFile
  <2> HIDE DEF z
  <2> QED BY <2>1, <2>2, NotedScan
<1> DEFINE Op(r) == IF r.at # "open" THEN Note(s, r.why)
                    ELSE TakenFile(t, mounts, i, path, s,
                                   OnHost(t, mounts[i].source \o r.resolved))
           x == Resolved(t, mounts[i].source, Beyond(mounts, i, path))
           S == {Op(r) : r \in {x}}
<1>2. WalkedFile(t, mounts, i, path, s)
        = IF Last(path) \notin Dynamic THEN s ELSE CHOOSE y \in S : TRUE
  BY DEF WalkedFile, Given
<1>3. IsScan(mounts, Op(x))
  BY <1>1, NotedScan
<1> HIDE DEF Op
<1>4. S = {Op(x)}
  OBVIOUS
<1> HIDE DEF S
<1>5. (CHOOSE y \in S : TRUE) = Op(x)
  BY <1>4
<1> QED BY <1>2, <1>3, <1>5

\* The files of a directory.
LEMMA TakenScans ==
  ASSUME NEW t, NEW mounts, NEW i, NEW dir \in Seq(STRING), NEW names \in Seq(STRING),
         NEW s, IsScan(mounts, s)
  PROVE  IsScan(mounts, TakenFrom(t, mounts, i, dir, names, s))
<1> DEFINE what == TakeFrom(t, mounts, i, dir, names)
           N == Len(names)
           Good == {n \in 0 .. N : IsScan(mounts, After(what, s, n))}
<1>1. N \in Nat
  OBVIOUS
<1>2. 0 \in Good
  BY <1>1, AfterNone
<1>3. ASSUME NEW n \in 1 .. N, n - 1 \in Good  PROVE  n \in Good
  <2> DEFINE y == After(what, s, n - 1)
             path == Append(dir, names[n])
  <2>1. n - 1 \in Nat /\ (n - 1) + 1 = n
    BY <1>1
  <2>2. After(what, s, n) = Moved(what, n, y)
    BY <2>1, AfterNext
  <2>3. Moved(what, n, y) = WalkedFile(t, mounts, i, path, y)
    BY DEF Moved, TakeFrom
  <2>4. path \in Seq(STRING)
    <3>1. names[n] \in STRING
      BY <1>1, ElementOfSeq
    <3> QED BY <3>1, AppendProperties
  <2>5. IsScan(mounts, y)
    BY <1>3
  <2> HIDE DEF y, path, what
  <2>6. IsScan(mounts, WalkedFile(t, mounts, i, path, y))
    BY <2>4, <2>5, WalkedFileScans
  <2> QED BY <1>1, <2>2, <2>3, <2>6
<1>4. TakenFrom(t, mounts, i, dir, names, s) = After(what, s, N)
  BY <1>1, TakeIs
<1> HIDE DEF what, N
<1>5. N \in Good
  <2> HIDE DEF Good
  <2> QED BY <1>1, <1>2, <1>3, UpTo
<1> QED BY <1>4, <1>5

\* What is bound has a source on the host, whatever is there now.
AreBound(mounts) ==
    /\ ArePlaces(mounts)
    /\ \A i \in DOMAIN mounts : mounts[i].kind = "bind" => mounts[i].source \in Seq(STRING)

LEMMA MountedBound ==
  ASSUME NEW t, NEW mounts, IsMounted(t, mounts)
  PROVE  AreBound(mounts)
BY DEF IsMounted, AreBound, ArePlaces

\* A directory on the source of a mount.
LEMMA OnSourceIs ==
  ASSUME NEW t, NEW mounts, AreBound(mounts), NEW i \in DOMAIN mounts,
         mounts[i].kind = "bind", NEW path \in Seq(STRING)
  PROVE  OnSource(mounts, i, path) \in Seq(STRING)
<1> DEFINE a == Len(mounts[i].target) + 1
           b == Len(path)
<1>1. mounts[i].target \in Seq(STRING) /\ mounts[i].source \in Seq(STRING)
  BY DEF AreBound, ArePlaces
<1>2. a \in Nat /\ b \in Nat /\ a >= 1
  BY <1>1
<1>3. \A n \in a .. b : path[n] \in STRING
  BY <1>2, ElementOfSeq
<1> HIDE DEF a
<1>4. SubSeq(path, a, b) \in Seq(STRING)
  BY <1>2, <1>3, SubSeqProperties
<1> QED BY <1>1, <1>4 DEF OnSource, Beyond, a

\* A directory whose listing is within the budget.
LEMMA WalkDirLists ==
  ASSUME NEW t, NEW mounts, NEW i, NEW v, IsListing(mounts, v), v.todo # <<>>,
         NEW names, IsFiniteSet(DOMAIN names), DOMAIN names \subseteq STRING,
         NEW listing, listing.dirs \subseteq DOMAIN names, listing.files \subseteq DOMAIN names
  PROVE  IsListing(mounts, WalkDir(t, mounts, i, v, names, listing))
<1> DEFINE kept == {n \in listing.dirs : t[names[n]].kind # "link"}
           walked == SetToSeq(kept)
           files == SetToSeq(listing.files)
           dir == Head(v.todo)
           s == [v.scan EXCEPT !.entries = @ + Cardinality(DOMAIN names)]
           todo == [k \in DOMAIN walked |-> Append(dir, walked[k])] \o Tail(v.todo)
           scan == TakenFrom(t, mounts, i, dir, files, s)
           z == WalkDir(t, mounts, i, v, names, listing)
<1>1. dir \in Seq(STRING) /\ Tail(v.todo) \in Seq(Seq(STRING))
  BY DEF IsListing
<1>2. walked \in Seq(STRING) /\ files \in Seq(STRING)
  <2>1. IsFiniteSet(kept) /\ IsFiniteSet(listing.files)
    BY FS_Subset
  <2>2. walked \in Seq(kept) /\ files \in Seq(listing.files)
    BY <2>1, MembersOf
  <2>3. kept \subseteq STRING /\ listing.files \subseteq STRING
    OBVIOUS
  <2> DEFINE B == STRING
             more == listing.files
  <2>4. kept \subseteq B /\ more \subseteq B /\ walked \in Seq(kept) /\ files \in Seq(more)
    BY <2>2, <2>3
  <2> HIDE DEF kept, walked, files, more, B
  <2>5. walked \in Seq(B) /\ files \in Seq(B)
    BY <2>4
  <2> QED BY <2>5 DEF B
<1>3. IsScan(mounts, s)
  BY DEF IsScan, IsListing
<1>4. z = [v EXCEPT !.todo = todo, !.scan = scan]
  BY DEF WalkDir, TakenFrom, Through
<1> HIDE DEF walked, files, dir, s, z
<1>5. todo \in Seq(Seq(STRING))
  <2> DEFINE dirs == [k \in DOMAIN walked |-> Append(dir, walked[k])]
  <2>1. Len(walked) \in Nat /\ DOMAIN walked = 1 .. Len(walked)
    BY <1>2
  <2>2. ASSUME NEW k \in DOMAIN walked  PROVE  Append(dir, walked[k]) \in Seq(STRING)
    <3>1. walked[k] \in STRING
      BY <1>2, <2>1, ElementOfSeq
    <3> QED BY <1>1, <3>1, AppendProperties
  <2>3. dirs \in Seq(Seq(STRING))
    <3> DEFINE B == Seq(STRING)
    <3>1. \A k \in 1 .. Len(walked) : Append(dir, walked[k]) \in B
      BY <2>1, <2>2
    <3> HIDE DEF B
    <3>2. dirs \in Seq(B)
      BY <2>1, <3>1
    <3> QED BY <3>2 DEF B
  <2>4. todo = dirs \o Tail(v.todo)
    OBVIOUS
  <2> HIDE DEF dirs, todo
  <2> QED BY <1>1, <2>3, <2>4
<1>6. IsScan(mounts, scan)
  BY <1>1, <1>2, <1>3, TakenScans
<1> HIDE DEF todo, scan
<1>7. DOMAIN z = DOMAIN v /\ z.todo = todo /\ z.scan = scan /\ z.kept = v.kept
  BY <1>4 DEF IsListing
<1>8. IsListing(mounts, z)
  BY <1>5, <1>6, <1>7 DEF IsListing
<1> QED BY <1>8 DEF z

LEMMA WalkAtLists ==
  ASSUME NEW t, IsTree(t), NEW mounts, NEW i, NEW v, IsListing(mounts, v), v.todo # <<>>,
         NEW w, Here(w) \in DOMAIN t
  PROVE  IsListing(mounts, WalkAt(t, mounts, i, v, w))
<1> DEFINE node == t[Here(w)]
           z == WalkAt(t, mounts, i, v, w)
<1>1. CASE w.err # Fine \/ node.kind # "dir" \/ node.shut
  <2> DEFINE s == [v.scan EXCEPT !.found = v.kept]
  <2>1. z = [todo |-> <<>>, kept |-> v.kept, scan |-> Note(s, "not listed")]
    BY <1>1 DEF WalkAt
  <2>2. IsScan(mounts, s)
    BY DEF IsScan, IsListing
  <2> HIDE DEF s
  <2>3. IsScan(mounts, Note(s, "not listed"))
    BY <2>2, NotedScan
  <2>4. <<>> \in Seq(Seq(STRING))
    OBVIOUS
  <2> HIDE DEF z
  <2>5. DOMAIN z = {"todo", "scan", "kept"} /\ z.todo = <<>> /\ z.kept = v.kept
        /\ z.scan = Note(s, "not listed")
    BY <2>1
  <2>6. IsListing(mounts, z)
    BY <2>3, <2>4, <2>5 DEF IsListing
  <2> QED BY <2>6 DEF z
<1>2. CASE /\ ~ (w.err # Fine \/ node.kind # "dir" \/ node.shut)
           /\ v.scan.entries + Cardinality(DOMAIN node.names) > MaxScannedEntries
  <2> DEFINE s == [v.scan EXCEPT !.spent = TRUE]
             scan == Note(s, "walk stopped")
  <2>1. z = [v EXCEPT !.todo = <<>>, !.scan = scan]
    BY <1>2 DEF WalkAt
  <2>2. IsScan(mounts, s)
    BY DEF IsScan, IsListing
  <2> HIDE DEF s
  <2>3. IsScan(mounts, scan)
    BY <2>2, NotedScan
  <2>4. <<>> \in Seq(Seq(STRING))
    OBVIOUS
  <2> HIDE DEF z, scan
  <2>5. DOMAIN z = DOMAIN v /\ z.todo = <<>> /\ z.kept = v.kept /\ z.scan = scan
    BY <2>1 DEF IsListing
  <2>6. IsListing(mounts, z)
    BY <2>3, <2>4, <2>5 DEF IsListing
  <2> QED BY <2>6 DEF z
<1>3. CASE /\ ~ (w.err # Fine \/ node.kind # "dir" \/ node.shut)
           /\ ~ (v.scan.entries + Cardinality(DOMAIN node.names) > MaxScannedEntries)
  <2> DEFINE names == node.names
             listing == Listing(t, DOMAIN names, OnSource(mounts, i, Head(v.todo)))
             Op(l) == WalkDir(t, mounts, i, v, names, l)
             S == {Op(l) : l \in {listing}}
  <2>1. z = CHOOSE y \in S : TRUE
    BY <1>3 DEF WalkAt, Given
  <2>2. IsFiniteSet(DOMAIN names) /\ DOMAIN names \subseteq STRING
    BY <1>3 DEF IsTree
  <2>3. listing.dirs \subseteq DOMAIN names /\ listing.files \subseteq DOMAIN names
    BY DEF Listing
  <2> HIDE DEF listing, names, z
  <2>4. IsListing(mounts, Op(listing))
    BY <2>2, <2>3, WalkDirLists
  <2> HIDE DEF Op
  <2>5. S = {Op(listing)}
    OBVIOUS
  <2> HIDE DEF S
  <2>6. z = Op(listing)
    BY <2>1, <2>5
  <2>7. IsListing(mounts, z)
    BY <2>4, <2>6
  <2> QED BY <2>7 DEF z
<1> QED BY <1>1, <1>2, <1>3

LEMMA WalkStepLists ==
  ASSUME NEW t, IsTree(t), NEW mounts, AreBound(mounts), NEW i \in DOMAIN mounts,
         mounts[i].kind = "bind", NEW v, IsListing(mounts, v)
  PROVE  IsListing(mounts, WalkStep(t, mounts, i, v))
<1> DEFINE path == OnSource(mounts, i, Head(v.todo))
           w == OnHost(t, path)
<1>1. CASE v.todo = <<>> \/ v.scan.spent \/ Cardinality(v.scan.found) > MaxProviderFiles
  BY <1>1 DEF WalkStep
<1>2. CASE ~ (v.todo = <<>> \/ v.scan.spent \/ Cardinality(v.scan.found) > MaxProviderFiles)
  <2>1. v.todo # <<>> /\ Head(v.todo) \in Seq(STRING)
    BY <1>2 DEF IsListing
  <2>2. path \in Seq(STRING)
    BY <2>1, OnSourceIs
  <2>3. Here(w) \in DOMAIN t
    <3> HIDE DEF path
    <3>1. w \in AWalk(t)
      BY <2>2, HostEnds
    <3> QED BY <3>1, HereInTree
  <2>4. WalkStep(t, mounts, i, v) = WalkAt(t, mounts, i, v, w)
    BY <1>2 DEF WalkStep
  <2> HIDE DEF w
  <2> QED BY <2>1, <2>3, <2>4, WalkAtLists
<1> QED BY <1>1, <1>2

LEMMA WalkScans ==
  ASSUME NEW t, IsTree(t), NEW mounts, AreBound(mounts), NEW i \in DOMAIN mounts,
         mounts[i].kind = "bind", NEW top \in Seq(STRING), NEW s, IsScan(mounts, s)
  PROVE  IsScan(mounts, Walk(t, mounts, i, top, s))
<1> DEFINE what == ListIn(t, mounts, i)
           x == [todo |-> <<top>>, scan |-> s, kept |-> s.found]
           N == MaxSteps
           Good == {n \in 0 .. N : IsListing(mounts, After(what, x, n))}
<1>1. N \in Nat
  BY MountsAssumption
<1>2. 0 \in Good
  <2>1. <<top>> \in Seq(Seq(STRING))
    <3>1. \A S, y : y \in S => <<y>> \in Seq(S)
      OBVIOUS
    <3> QED BY <3>1
  <2>2. DOMAIN x = {"todo", "scan", "kept"} /\ x.todo = <<top>> /\ x.scan = s
        /\ x.kept = s.found
    OBVIOUS
  <2> HIDE DEF x
  <2>3. IsListing(mounts, x)
    BY <2>1, <2>2 DEF IsListing, IsScan
  <2> QED BY <1>1, <2>3, AfterNone
<1>3. ASSUME NEW n \in 1 .. N, n - 1 \in Good  PROVE  n \in Good
  <2> DEFINE y == After(what, x, n - 1)
  <2>1. n - 1 \in Nat /\ (n - 1) + 1 = n
    BY <1>1
  <2>2. After(what, x, n) = Moved(what, n, y)
    BY <2>1, AfterNext
  <2>3. Moved(what, n, y) = WalkStep(t, mounts, i, y)
    BY DEF Moved, ListIn
  <2>4. IsListing(mounts, y)
    BY <1>3
  <2> HIDE DEF y, what, x
  <2>5. IsListing(mounts, WalkStep(t, mounts, i, y))
    BY <2>4, WalkStepLists
  <2> QED BY <1>1, <2>2, <2>3, <2>5
<1>4. Walk(t, mounts, i, top, s) = After(what, x, N).scan
  BY WalkIs
<1> HIDE DEF what, N, x
<1>5. N \in Good
  <2> HIDE DEF Good
  <2> QED BY <1>1, <1>2, <1>3, UpTo
<1> QED BY <1>4, <1>5 DEF IsListing

\* One mount after another.
LEMMA FromMountScans ==
  ASSUME NEW t, IsTree(t), NEW mounts, AreBound(mounts), NEW i \in DOMAIN mounts,
         NEW dir \in Seq(STRING), NEW isHere, NEW s, IsScan(mounts, s)
  PROVE  IsScan(mounts, FilesFromMount(t, mounts, i, dir, isHere, s))
<1> DEFINE m == mounts[i]
           one == [s EXCEPT !.found = @ \cup {Locate(mounts, m.target)}]
<1>1. m.target \in Seq(STRING)
  BY DEF AreBound, ArePlaces
<1>2. IsScan(mounts, one)
  <2> HIDE DEF m
  <2> QED BY <1>1, GrownScan
<1>3. ASSUME NEW why  PROVE  IsScan(mounts, Note(s, why))
  BY NotedScan
<1>4. ASSUME m.kind = "bind"
      PROVE  \A top \in Seq(STRING) : IsScan(mounts, Walk(t, mounts, i, top, s))
  BY <1>4, WalkScans
<1>5. ASSUME m.kind = "bind"  PROVE  IsScan(mounts, NestedBind(t, mounts, i, isHere, s))
  <2> DEFINE Op(w) == IF w.err # Fine THEN Note(s, w.err)
                      ELSE IF t[Here(w)].kind # "dir" THEN s
                      ELSE Walk(t, mounts, i, m.target, s)
             x == OnHost(t, m.source)
             S == {Op(w) : w \in {x}}
  <2>1. NestedBind(t, mounts, i, isHere, s)
          = IF ~ isHere THEN Note(s, "not readable on this node") ELSE CHOOSE y \in S : TRUE
    BY DEF NestedBind, Given
  <2>2. IsScan(mounts, Walk(t, mounts, i, m.target, s))
    BY <1>1, <1>4, <1>5
  <2>3. IsScan(mounts, Op(x))
    BY <1>3, <2>2
  <2> HIDE DEF Op
  <2>4. S = {Op(x)}
    OBVIOUS
  <2> HIDE DEF S
  <2> QED BY <1>3, <2>1, <2>3, <2>4
<1>6. ASSUME m.kind = "bind"  PROVE  IsScan(mounts, CoveringBind(t, mounts, i, dir, isHere, s))
  BY <1>3, <1>4, <1>6 DEF CoveringBind
<1> DEFINE z == FilesFromMount(t, mounts, i, dir, isHere, s)
<1>7. \/ z \in {one, s, Note(s, "unreadable mount")}
      \/ m.kind = "bind" /\ z = NestedBind(t, mounts, i, isHere, s)
      \/ m.kind = "bind" /\ z = CoveringBind(t, mounts, i, dir, isHere, s)
  BY DEF FilesFromMount
<1> HIDE DEF z, one, m
<1>8. IsScan(mounts, z)
  BY <1>2, <1>3, <1>5, <1>6, <1>7
<1> QED BY <1>8 DEF z

LEMMA ScannedIs ==
  ASSUME NEW t, IsTree(t), NEW mounts, AreBound(mounts), NEW dir \in Seq(STRING), NEW isHere
  PROVE  IsScan(mounts, Scanned(t, mounts, dir, isHere))
<1> DEFINE what == ScanOf(t, mounts, dir, isHere)
           x == NoScan
           N == Len(mounts)
           Good == {n \in 0 .. N : IsScan(mounts, After(what, x, n))}
<1>1. N \in Nat /\ DOMAIN mounts = 1 .. N
  BY DEF AreBound, ArePlaces
<1>2. 0 \in Good
  <2>1. IsScan(mounts, NoScan)
    BY FS_EmptySet DEF IsScan, NoScan
  <2> QED BY <1>1, <2>1, AfterNone
<1>3. ASSUME NEW n \in 1 .. N, n - 1 \in Good  PROVE  n \in Good
  <2> DEFINE y == After(what, x, n - 1)
  <2>1. n - 1 \in Nat /\ (n - 1) + 1 = n /\ n \in DOMAIN mounts
    BY <1>1
  <2>2. After(what, x, n) = Moved(what, n, y)
    BY <2>1, AfterNext
  <2>3. Moved(what, n, y) = FilesFromMount(t, mounts, n, dir, isHere, y)
    BY DEF Moved, ScanOf
  <2>4. IsScan(mounts, y)
    BY <1>3
  <2> HIDE DEF y, what, x
  <2>5. IsScan(mounts, FilesFromMount(t, mounts, n, dir, isHere, y))
    BY <2>1, <2>4, FromMountScans
  <2> QED BY <1>1, <2>2, <2>3, <2>5
<1>4. Scanned(t, mounts, dir, isHere) = After(what, x, N)
  BY <1>1, ScanIs
<1> HIDE DEF what, N, x
<1>5. N \in Good
  <2> HIDE DEF Good
  <2> QED BY <1>1, <1>2, <1>3, UpTo
<1> QED BY <1>4, <1>5

LEMMA FilesArePlaces ==
  ASSUME NEW t, IsTree(t), NEW mounts, AreBound(mounts), NEW provider,
         provider.path \in Seq(STRING), NEW isHere
  PROVE  ProviderFiles(t, mounts, provider, isHere).files \in Seq(Places(mounts))
<1> DEFINE path == provider.path
           scan == Scanned(t, mounts, path, isHere)
           Op(s) == [files |-> Capped(s.found),
                     notes |-> s.notes \cup OwnerNotes(mounts, path)
                                 \cup (IF Cardinality(s.found) > MaxProviderFiles
                                       THEN {"rest not read"} ELSE {})]
           S == {Op(s) : s \in {scan}}
           files == ProviderFiles(t, mounts, provider, isHere).files
<1>1. CASE ~ provider.directory
  <2>1. files = <<Locate(mounts, path)>>
    BY <1>1 DEF ProviderFiles
  <2> DEFINE place == Locate(mounts, path)
             A == Places(mounts)
  <2>2. place \in A
    BY DEF Places
  <2> HIDE DEF place, A
  <2>3. <<place>> \in Seq(A)
    BY <2>2
  <2> QED BY <2>1, <2>3 DEF place, A
<1>2. CASE provider.directory
  <2>1. files = (CHOOSE y \in S : TRUE).files
    BY <1>2 DEF ProviderFiles, Given
  <2>2. scan.found \in SUBSET Places(mounts) /\ IsFiniteSet(scan.found)
    BY ScannedIs DEF IsScan
  <2>3. Op(scan).files = Capped(scan.found)
    OBVIOUS
  <2> HIDE DEF Op, scan, files
  <2>4. S = {Op(scan)}
    OBVIOUS
  <2> HIDE DEF S
  <2>5. files = Capped(scan.found)
    BY <2>1, <2>3, <2>4
  <2>6. Capped(scan.found) \in Seq(Places(mounts))
    <3> DEFINE F == scan.found
               ordered == SetToSeq(F)
               A == Places(mounts)
    <3>1. ordered \in Seq(F) /\ Len(ordered) = Cardinality(F)
      BY <2>2, MembersOf
    <3>2. F \subseteq A
      BY <2>2
    <3>3. Capped(F) = IF Cardinality(F) <= MaxProviderFiles THEN ordered
                      ELSE SubSeq(ordered, 1, MaxProviderFiles)
      BY DEF Capped
    <3> HIDE DEF ordered, F, A
    <3>4. ordered \in Seq(A)
      BY <3>1, <3>2
    <3>5. Cardinality(F) \in Nat /\ MaxProviderFiles \in Nat
      BY <3>1, <3>4, MountsAssumption, LenProperties
    <3>6. ASSUME ~ (Cardinality(F) <= MaxProviderFiles)
          PROVE  SubSeq(ordered, 1, MaxProviderFiles) \in Seq(A)
      <4>1. \A n \in 1 .. MaxProviderFiles : n \in 1 .. Len(ordered)
        BY <3>1, <3>5, <3>6
      <4>2. \A n \in 1 .. MaxProviderFiles : ordered[n] \in A
        BY <3>4, <4>1, ElementOfSeq
      <4> QED BY <3>4, <3>5, <4>2, SubSeqProperties
    <3> QED BY <3>3, <3>4, <3>6 DEF F, A
  <2> QED BY <2>5, <2>6 DEF files
<1> QED BY <1>1, <1>2

-----------------------------------------------------------------------------
(* The invariant of the collector.                                         *)

\* What is deployed changes the names in directories, and nothing has until it is.
Deployed ==
    /\ changes \subseteq daemon.changes
    /\ IsTree(tree) /\ DOMAIN tree = DOMAIN Case.tree
    /\ \A i \in DOMAIN tree : /\ tree[i].kind = Case.tree[i].kind
                              /\ tree[i].kind # "dir" => tree[i] = Case.tree[i]
    /\ Steady => tree = Case.tree

\* The steps between which nothing has been read yet.
Before == {"services", "containers", "state", "configs", "found", "explicit", "search"}

\* The workload is one of those Docker lists, and paths are paths.
Traced ==
    /\ load # <<>> => IsWorkload(Case.tree, Workload)
    /\ call \in {"explicit", "search", "reading", "provider", "files"} => load # <<>>
    /\ info.path \in Seq(STRING)
    /\ IsStatic(info)
    /\ load # <<>> => queue \in Seq(Places(Mounts))
    /\ call # "files" => queue = <<>>

\* What is being read, and that it is read as the container's kernel finds it.
Current == Locate(Mounts, IF call = "reading" THEN info.path ELSE Head(queue).path)
Bound == Current.mount # NoMount /\ Mounts[Current.mount].kind = "bind"
ReadFrom ==
    /\ phase = "wiring" /\ call \in {"reading", "files"} /\ (call = "files" => queue # <<>>)
    /\ Placed
    /\ InProgress => Bound /\ placement = "here" /\ read.source = Mounts[Current.mount].source
    /\ read.got # None =>
          /\ read.got \in DOMAIN Case.tree /\ Case.tree[read.got].kind = "file"
          /\ \/ Bound /\ placement = "here"
             \/ /\ Current.mount # NoMount /\ Mounts[Current.mount].kind = "config"
                /\ read.got = Mounts[Current.mount].source
UnderWay == read.at # "idle" => ReadFrom
Following ==
    (read.at # "idle" /\ Steady /\ Bound /\ placement = "here") =>
        Followed(tree, read, Uncovered(tree, Mounts, Current.path))

\* Where a static configuration was taken from, Traefik takes it from there.
OwnPaths ==
    \A path \in ToSet(CandidatePaths(Workload)) : OwnMount(tree, Mounts, path) /\ Brought(path)
FirstThere ==
    \E k \in There(tree, Workload) :
        /\ \A j \in There(tree, Workload) : k <= j
        /\ info.path = CandidatePaths(Workload)[k]

\* TraefikSource, as an operator on what it depends on.
SourcedAt(t, path, w) ==
    [source |-> "file", path |-> path,
     static |-> IF Regular(t, w) THEN t[Here(w)].doc.static ELSE NoStatic]
Sourced(t, w) ==
    LET paths == CandidatePaths(w)
        at    == [k \in DOMAIN paths |-> InContainer(t, w.mounts, paths[k])]
        first == CHOOSE k \in There(t, w) : \A j \in There(t, w) : k <= j
    IN  IF There(t, w) # {} THEN SourcedAt(t, paths[first], at[first])
        ELSE IF w.flags # <<>> THEN Argued("flags", Head(w.flags))
        ELSE IF w.env # <<>> THEN Argued("env", Head(w.env))
        ELSE Argued(Unset, NoStatic)
IsSourced(its) ==
    /\ info.source = its.source /\ info.path = its.path
    /\ info.entrypoints = its.static.entrypoints

Decided ==
    /\ call \in Before \cup {"reading"} => info.source = Unset
    /\ call \in Before => info.path = <<>>
    /\ (call = "reading" /\ Steady /\ OwnPaths) => FirstThere
    /\ (/\ call \in {"provider", "files", "done"} /\ Steady /\ OwnPaths
        /\ info.source # Unset /\ info.problem # "could not be read")
       => IsSourced(Sourced(tree, Workload))

-----------------------------------------------------------------------------
(* What is given.                                                          *)

LEMMA DeployIs ==
  ASSUME login \in DOMAIN Logins
  PROVE  /\ IsTree(Case.tree)
         /\ \A c \in Case.daemon.changes :
               /\ c.dir \in DOMAIN Case.tree /\ Case.tree[c.dir].kind = "dir"
               /\ c.name \in STRING /\ c.to \in DOMAIN Case.tree \cup {Absent}
         /\ \A x \in ToSet(Case.daemon.services) \cup ToSet(Case.daemon.containers) :
               x.load # <<>> => IsWorkload(Case.tree, Head(x.load))
<1>1. Case \in Range(Logins)
  BY DEF Case, Range
<1> QED BY <1>1, LoginsAssumption

\* What is read is a file of the workload's, or nothing.
LEMMA CurrentIs ==
  ASSUME Traced, call \in {"reading", "files"}, call = "files" => queue # <<>>
  PROVE  /\ load # <<>> /\ IsWorkload(Case.tree, Workload) /\ ArePlaces(Mounts)
         /\ IsMounted(Case.tree, Mounts)
         /\ Current.path \in Seq(STRING) /\ Current = Locate(Mounts, Current.path)
         /\ call = "files" => Current = Head(queue)
         /\ Current.mount # NoMount => Current.mount \in DOMAIN Mounts
<1>1. load # <<>> /\ IsWorkload(Case.tree, Workload)
  BY DEF Traced
<1>2. IsMounted(Case.tree, Mounts) /\ ArePlaces(Mounts)
  BY <1>1, MountedPlaces DEF IsWorkload, Mounts
<1>3. CASE call = "reading"
  <2>1. Current = Locate(Mounts, info.path) /\ info.path \in Seq(STRING)
    BY <1>3 DEF Current, Traced
  <2>2. Current.path = info.path /\ (Current.mount # NoMount => Current.mount \in DOMAIN Mounts)
    BY <1>2, <2>1, LocateIs
  <2> QED BY <1>1, <1>2, <1>3, <2>1, <2>2
<1>4. CASE call = "files"
  <2>1. queue \in Seq(Places(Mounts)) /\ queue # <<>>
    BY <1>1, <1>4 DEF Traced
  <2>2. Head(queue) \in Places(Mounts)
    BY <2>1
  <2>3. PICK path \in Seq(STRING) : Head(queue) = Locate(Mounts, path)
    BY <2>2 DEF Places
  <2>4. Head(queue).path = path
    BY <1>2, <2>3, LocateIs
  <2>5. Current = Head(queue)
    BY <1>4, <2>3, <2>4 DEF Current
  <2>6. Head(queue).mount # NoMount => Head(queue).mount \in DOMAIN Mounts
    BY <1>2, <2>3, LocateIs
  <2> QED BY <1>1, <1>2, <2>3, <2>4, <2>5, <2>6
<1> QED BY <1>3, <1>4

\* A source that is bound is a path; a config is a file.
LEMMA SourceIs ==
  ASSUME Traced, call \in {"reading", "files"}, call = "files" => queue # <<>>,
         Current.mount # NoMount
  PROVE  /\ Mounts[Current.mount].kind = "bind" => Mounts[Current.mount].source \in Seq(STRING)
         /\ Mounts[Current.mount].kind = "config" =>
               /\ Mounts[Current.mount].source \in DOMAIN Case.tree
               /\ Case.tree[Mounts[Current.mount].source].kind = "file"
BY CurrentIs DEF IsMounted

-----------------------------------------------------------------------------
(* The files change.                                                       *)

LEMMA DeployedStays ==
  ASSUME Deployed, UNCHANGED <<login, daemon, tree, changes>>
  PROVE  Deployed'
BY DEF Deployed, Case, Steady

LEMMA DeployedChanges ==
  ASSUME Configured, Deployed, Change, UNCHANGED <<login, daemon>>
  PROVE  Deployed' /\ ~ Steady' /\ DOMAIN tree' = DOMAIN tree
<1>1. PICK c \in changes :
          /\ changes' = changes \ {c}
          /\ tree' = [tree EXCEPT ![c.dir].names =
                        [n \in (DOMAIN @ \cup {c.name}) \ (IF c.to = Absent THEN {c.name} ELSE {})
                          |-> IF n = c.name THEN c.to ELSE @[n]]]
  BY DEF Change
<1> DEFINE old == tree[c.dir].names
           new == [n \in (DOMAIN old \cup {c.name}) \ (IF c.to = Absent THEN {c.name} ELSE {})
                     |-> IF n = c.name THEN c.to ELSE old[n]]
<1>0. c \in daemon.changes /\ login \in DOMAIN Logins /\ daemon = Case.daemon
  BY DEF Deployed, Configured
<1>2. /\ c.dir \in DOMAIN tree /\ tree[c.dir].kind = "dir"
      /\ c.name \in STRING /\ c.to \in DOMAIN tree \cup {Absent}
  <2>1. /\ c.dir \in DOMAIN Case.tree /\ Case.tree[c.dir].kind = "dir"
        /\ c.name \in STRING /\ c.to \in DOMAIN Case.tree \cup {Absent}
    BY <1>0, DeployIs
  <2> QED BY <2>1 DEF Deployed
<1>3. /\ Range(old) \subseteq DOMAIN tree /\ IsFiniteSet(DOMAIN old) /\ DOMAIN old \subseteq STRING
      /\ DOMAIN tree[c.dir] = {"kind", "names", "shut"}
  BY <1>2 DEF IsTree, Deployed
<1>4. tree' = [tree EXCEPT ![c.dir] = [tree[c.dir] EXCEPT !.names = new]]
  BY <1>1
<1>5. Range(new) \subseteq DOMAIN tree
  <2>1. ASSUME NEW n \in DOMAIN new  PROVE  new[n] \in DOMAIN tree
    <3>1. CASE n = c.name
      BY <1>2, <3>1
    <3>2. CASE n # c.name
      BY <1>3, <3>2 DEF Range
    <3> QED BY <3>1, <3>2
  <2> HIDE DEF new
  <2> QED BY <2>1 DEF Range
<1>6. IsFiniteSet(DOMAIN new) /\ DOMAIN new \subseteq STRING
  <2>1. DOMAIN new \subseteq DOMAIN old \cup {c.name}
    OBVIOUS
  <2> HIDE DEF new, old
  <2>2. IsFiniteSet(DOMAIN old \cup {c.name})
    BY <1>3, FS_AddElement
  <2>3. IsFiniteSet(DOMAIN new)
    BY <2>1, <2>2, FS_Subset
  <2> QED BY <1>2, <1>3, <2>1, <2>3
<1> HIDE DEF new, old
<1>7. DOMAIN tree' = DOMAIN tree /\ \A i \in DOMAIN tree : i # c.dir => tree'[i] = tree[i]
  BY <1>4
<1>8. /\ tree'[c.dir].kind = "dir" /\ tree'[c.dir].names = new
      /\ DOMAIN tree'[c.dir] = {"kind", "names", "shut"}
  <2>1. tree'[c.dir] = [tree[c.dir] EXCEPT !.names = new]
    BY <1>2, <1>4
  <2> QED BY <1>2, <1>3, <2>1
<1>9. IsTree(tree')
  <2> USE DEF Deployed
  <2>1. /\ IsFiniteSet(DOMAIN tree') /\ {HostRoot, ImageRoot} \subseteq DOMAIN tree'
        /\ {None, Absent} \cap DOMAIN tree' = {}
    BY <1>7 DEF IsTree
  <2>2. ASSUME NEW i \in DOMAIN tree'
        PROVE  /\ tree'[i].kind = "dir" => /\ DOMAIN tree'[i] = {"kind", "names", "shut"}
                                  /\ IsFiniteSet(DOMAIN tree'[i].names)
                                  /\ DOMAIN tree'[i].names \subseteq STRING
                                  /\ Range(tree'[i].names) \subseteq DOMAIN tree'
               /\ tree'[i].kind = "link" =>
                    /\ tree'[i].to \in Seq(STRING) /\ Len(tree'[i].to) <= MaxLink
                    /\ tree'[i].abs \in BOOLEAN
    <3>1. CASE i = c.dir
      BY <1>5, <1>6, <1>7, <1>8, <3>1
    <3>2. CASE i # c.dir
      BY <1>7, <3>2 DEF IsTree
    <3> QED BY <3>1, <3>2
  <2> QED BY <2>1, <2>2 DEF IsTree
<1>10. ~ Steady'
  BY <1>0, <1>1 DEF Steady
<1>11. Case' = Case
  BY DEF Case
<1>12. Deployed'
  <2>1. changes' \subseteq daemon'.changes
    BY <1>1 DEF Deployed
  <2>2. ASSUME NEW i \in DOMAIN tree'
        PROVE  /\ tree'[i].kind = Case.tree[i].kind
               /\ tree'[i].kind # "dir" => tree'[i] = Case.tree[i]
    <3>1. i \in DOMAIN tree /\ (i # c.dir => tree'[i] = tree[i])
      BY <1>7
    <3>2. tree[i].kind = Case.tree[i].kind /\ (tree[i].kind # "dir" => tree[i] = Case.tree[i])
      BY <3>1 DEF Deployed
    <3> QED BY <1>2, <1>8, <3>1, <3>2
  <2>3. DOMAIN tree' = DOMAIN Case.tree
    BY <1>7 DEF Deployed
  <2> QED BY <1>9, <1>10, <1>11, <2>1, <2>2, <2>3 DEF Deployed
<1> QED BY <1>7, <1>10, <1>12

-----------------------------------------------------------------------------
(* The paths that are asked for.                                           *)

LEMMA SearchedPath ==
  ASSUME NEW t, NEW w, CandidatePaths(w) \in Seq(Seq(STRING)), NEW isHere
  PROVE  Searched(t, w, isHere).path \in Seq(STRING)
<1> DEFINE P == CandidatePaths(w)
           is == CandidateStates(t, w, isHere)
           stops == Stops(is)
           first == CHOOSE k \in stops : \A j \in stops : k <= j
           found == Searched(t, w, isHere)
<1>1. found = FirstOf(P, is, stops)
  BY SearchedIs
<1>2. stops \subseteq DOMAIN P /\ DOMAIN P = 1 .. Len(P) /\ Len(P) \in Nat
  BY DEF Stops, CandidateStates
<1> HIDE DEF P, is, stops, found
<1>3. CASE stops = {}
  <2>1. found = [is |-> "none", path |-> <<>>]
    BY <1>1, <1>3 DEF FirstOf
  <2>2. found.path = <<>>
    BY <2>1
  <2> QED BY <2>2 DEF found
<1>4. CASE stops # {}
  <2>1. found = [is |-> is[first], path |-> P[first]]
    BY <1>1, <1>4 DEF FirstOf
  <2>2. found.path = P[first]
    BY <2>1
  <2>3. \E k \in stops : \A j \in stops : k <= j
    <3>1. stops \in SUBSET Nat
      BY <1>2
    <3> QED BY <1>4, <3>1, FirstPosition
  <2>4. first \in 1 .. Len(P)
    BY <1>2, <2>3
  <2> HIDE DEF first
  <2>5. P[first] \in Seq(STRING)
    <3> DEFINE B == Seq(STRING)
    <3>1. P \in Seq(B)
      BY DEF P
    <3> HIDE DEF B
    <3>2. P[first] \in B
      BY <2>4, <3>1, ElementOfSeq
    <3> QED BY <3>2 DEF B
  <2> QED BY <2>2, <2>5 DEF found
<1> QED BY <1>3, <1>4

LEMMA AnchoredPath ==
  ASSUME NEW w, w.workdir \in Seq(Seq(STRING)), NEW provider \in ProviderType
  PROVE  Anchored(w, provider).path \in Seq(STRING)
<1>1. provider.path \in Seq(STRING) /\ DOMAIN provider = {"directory", "relative", "path"}
  BY DEF ProviderType
<1>2. CASE provider.relative /\ w.workdir # <<>>
  <2> DEFINE path == Head(w.workdir) \o provider.path
  <2>1. Anchored(w, provider) = [provider EXCEPT !.path = path]
    BY <1>2 DEF Anchored
  <2>2. Head(w.workdir) \in Seq(STRING)
    BY <1>2
  <2>3. path \in Seq(STRING)
    BY <1>1, <2>2, ConcatProperties
  <2> HIDE DEF path
  <2>4. [provider EXCEPT !.path = path].path = path
    BY <1>1
  <2> QED BY <2>1, <2>3, <2>4
<1>3. CASE ~ (provider.relative /\ w.workdir # <<>>)
  BY <1>1, <1>3 DEF Anchored
<1> QED BY <1>2, <1>3

LEMMA LiveArePlaces ==
  ASSUME ArePlaces(Mounts)
  PROVE  LiveConfigs \in Seq(Places(Mounts))
<1> DEFINE targets == {Locate(Mounts, Mounts[i].target) : i \in DOMAIN Mounts}
           live == {f \in targets :
                     /\ Mounts[f.mount].kind = "config"
                     /\ Mounts[f.mount].source \in daemon.configs \cap daemon.prefixed}
           A == Places(Mounts)
<1>1. targets \subseteq A
  BY DEF Places, ArePlaces
<1>2. IsFiniteSet(targets)
  <2> DEFINE I == DOMAIN Mounts
  <2>1. IsFiniteSet(I)
    <3>1. I = 1 .. Len(Mounts) /\ Len(Mounts) \in Nat
      BY DEF ArePlaces
    <3> HIDE DEF I
    <3> QED BY <3>1, FS_Interval
  <2> DEFINE f == [i \in I |-> Locate(Mounts, Mounts[i].target)]
  <2>2. targets = Range(f)
    BY DEF Range
  <2>3. f \in Surjection(I, targets)
    BY Fun_IsSurj
  <2> HIDE DEF targets, f, I
  <2>4. IsFiniteSet(targets)
    BY <2>1, <2>3, FS_Surjection
  <2> QED BY <2>4
<1>3. LiveConfigs = IF ~ ConfigsListed \/ ~ Workload.service THEN <<>> ELSE SetToSeq(live)
  BY DEF LiveConfigs
<1>4. live \subseteq targets
  OBVIOUS
<1> HIDE DEF live, targets
<1>5. IsFiniteSet(live)
  BY <1>2, <1>4, FS_Subset
<1>6. SetToSeq(live) \in Seq(live)
  BY <1>5, MembersOf
<1> HIDE DEF A
<1>7. SetToSeq(live) \in Seq(A)
  BY <1>1, <1>4, <1>6
<1>8. <<>> \in Seq(A)
  OBVIOUS
<1>9. LiveConfigs \in Seq(A)
  BY <1>3, <1>7, <1>8
<1> QED BY <1>9 DEF A

LEMMA ListedArePlaces ==
  ASSUME Deployed, Traced, ListFiles
  PROVE  queue' \in Seq(Places(Mounts))
<1>1. load # <<>> /\ IsWorkload(Case.tree, Workload) /\ IsTree(tree)
  BY DEF ListFiles, Traced, Deployed
<1>2. ArePlaces(Mounts) /\ AreBound(Mounts)
  BY <1>1, MountedPlaces, MountedBound DEF IsWorkload, Mounts
<1>3. CASE queue' = LiveConfigs
  BY <1>2, <1>3, LiveArePlaces
<1>4. CASE queue' = <<>>
  BY <1>4
<1>5. CASE info.provider # <<>> /\ queue' # <<>> /\ queue' # LiveConfigs
  <2> DEFINE provider == Anchored(Workload, Head(info.provider))
             files == ProviderFiles(tree, Mounts, provider, placement = "here").files
  <2>1. queue' = files
    BY <1>5 DEF ListFiles
  <2>2. Head(info.provider) \in ProviderType /\ Workload.workdir \in Seq(Seq(STRING))
    BY <1>1, <1>5 DEF Traced, IsStatic, IsWorkload
  <2>3. provider.path \in Seq(STRING)
    BY <2>2, AnchoredPath
  <2> HIDE DEF provider
  <2> DEFINE here == placement = "here"
  <2>4. ProviderFiles(tree, Mounts, provider, here).files \in Seq(Places(Mounts))
    <3> HIDE DEF here
    <3> QED BY <1>1, <1>2, <2>3, FilesArePlaces
  <2> QED BY <2>1, <2>4
<1> QED BY <1>3, <1>4, <1>5 DEF ListFiles

-----------------------------------------------------------------------------
(* The workload and the paths stay such.                                   *)

Needed == {"explicit", "search", "reading", "provider", "files"}

LEMMA TracedOn ==
  ASSUME Traced, UNCHANGED <<login, load>>, info'.path \in Seq(STRING), IsStatic(info'),
         call' \in Needed => load # <<>>,
         load # <<>> => queue' \in Seq(Places(Mounts)), call' # "files" => queue' = <<>>
  PROVE  Traced'
<1>1. Case' = Case /\ Workload' = Workload /\ Mounts' = Mounts
  BY DEF Case, Workload, Mounts
<1> QED BY <1>1 DEF Traced, Needed

\* What only takes note of something.
LEMMA TracedNote ==
  ASSUME Traced, UNCHANGED <<login, load, queue>>,
         info'.path = info.path, info'.provider = info.provider,
         call' = call \/ (call # "files" /\ call' # "files" /\ (call' \in Needed => load # <<>>))
  PROVE  Traced'
<1>1. info'.path \in Seq(STRING) /\ IsStatic(info')
  BY DEF Traced, IsStatic
<1>2. call' \in Needed => load # <<>>
  BY DEF Traced, Needed
<1>3. (load # <<>> => queue' \in Seq(Places(Mounts))) /\ (call' # "files" => queue' = <<>>)
  BY DEF Traced
<1> QED BY <1>1, <1>2, <1>3, TracedOn

\* The listings find a workload.
LEMMA TracedFinds ==
  ASSUME Configured, Traced, UNCHANGED <<login, daemon, queue>>, call # "files",
         call' \notin Needed \cup {"files"},
         info'.path = info.path, info'.provider = info.provider,
         \/ load' \in {load, <<>>}
         \/ \E i \in DOMAIN daemon.services :
               load' = daemon.services[i].load /\ load' # <<>>
         \/ \E i \in DOMAIN daemon.containers :
               load' = daemon.containers[i].load /\ load' # <<>>
  PROVE  Traced'
<1>1. login \in DOMAIN Logins /\ daemon = Case.daemon /\ Case' = Case
  BY DEF Configured, Case
<1>2. ASSUME load' # <<>>  PROVE  IsWorkload(Case.tree, Head(load'))
  <2>1. CASE load' = load
    BY <1>2, <2>1 DEF Traced, Workload
  <2>2. CASE \E i \in DOMAIN daemon.services : load' = daemon.services[i].load
    BY <1>1, <1>2, <2>2, DeployIs DEF ToSet
  <2>3. CASE \E i \in DOMAIN daemon.containers : load' = daemon.containers[i].load
    BY <1>1, <1>2, <2>3, DeployIs DEF ToSet
  <2> QED BY <1>2, <2>1, <2>2, <2>3
<1>3. queue' = <<>> /\ queue' \in Seq(Places(Mounts'))
  <2>1. \A S : <<>> \in Seq(S)
    OBVIOUS
  <2> QED BY <2>1 DEF Traced
<1>4. info'.path \in Seq(STRING) /\ IsStatic(info')
  BY DEF Traced, IsStatic
<1>5. Places(Mounts)' = Places(Mounts')
  BY DEF Places
<1> QED BY <1>1, <1>2, <1>3, <1>4, <1>5 DEF Traced, Needed, Workload

LEMMA ListingsTrace ==
  ASSUME Inv, Traced, ListServices \/ ListContainers, UNCHANGED <<login, queue>>
  PROVE  Traced'
<1>1. CASE ListServices
  <2>1. /\ call = "services" /\ call' = "containers" /\ daemon' = daemon
        /\ info'.path = info.path /\ info'.provider = info.provider
    BY <1>1 DEF ListServices, Goes, Inv, LabelsListed, EmptyInfo
  <2>2. \/ load' \in {load, <<>>}
        \/ \E i \in DOMAIN daemon.services :
              load' = daemon.services[i].load /\ load' # <<>>
    BY <1>1 DEF ListServices, Matching
  <2> QED BY <2>1, <2>2, TracedFinds DEF Needed, Inv
<1>2. CASE ListContainers
  <2>1. /\ call = "containers" /\ call' \in {"done", "state", "configs"} /\ daemon' = daemon
        /\ info'.path = info.path /\ info'.provider = info.provider
    BY <1>2 DEF ListContainers, Goes, Inv, LabelsListed, EmptyInfo
  <2>2. \/ load' \in {load, <<>>}
        \/ \E i \in DOMAIN daemon.containers :
              load' = daemon.containers[i].load /\ load' # <<>>
    BY <1>2 DEF ListContainers, Matching
  <2> QED BY <2>1, <2>2, TracedFinds DEF Needed, Inv
<1> QED BY <1>1, <1>2

LEMMA AsksTrace ==
  ASSUME Inv, Traced, UNCHANGED <<login, queue>>,
         AskState \/ ListConfigs \/ Found \/ AskPlacement \/ Absolute
  PROVE  Traced'
<1>1. load' = load /\ info'.path = info.path /\ info'.provider = info.provider
  BY DEF AskState, ListConfigs, Found, AskPlacement, Absolute, Undecided, Inv, LabelsListed,
         EmptyInfo
<1>2. call' = call \/ (call # "files" /\ call' # "files" /\ (call' \in Needed => load # <<>>))
  BY DEF AskState, ListConfigs, Found, AskPlacement, Absolute, Undecided, Goes, Needed, Traced
<1> QED BY <1>1, <1>2, TracedNote

LEMMA SearchTraces ==
  ASSUME Inv, Traced, Search, UNCHANGED <<login, queue>>
  PROVE  Traced'
<1>1. /\ call = "search" /\ load # <<>> /\ load' = load /\ queue' = queue
      /\ IsWorkload(Case.tree, Workload)
      /\ call' \in {"reading", "provider"} /\ DOMAIN info = DOMAIN EmptyInfo
  BY DEF Search, Traced, Inv, LabelsListed, Undecided, Goes
<1> DEFINE found == Searched(tree, Workload, placement = "here")
<1>2. \/ info' = [info EXCEPT !.path = found.path]
      \/ info' = FromArguments
      \/ \E p : info' = [info EXCEPT !.problem = p]
  BY DEF Search, Undecided
<1>3. found.path \in Seq(STRING)
  <2> DEFINE here == placement = "here"
  <2>1. Searched(tree, Workload, here).path \in Seq(STRING)
    <3> HIDE DEF here
    <3> QED BY <1>1, SearchedPath DEF IsWorkload
  <2> QED BY <2>1
<1> HIDE DEF found
<1>4. info'.path \in Seq(STRING) /\ IsStatic(info')
  <2>1. CASE info' = [info EXCEPT !.path = found.path]
    <3>1. info'.path = found.path /\ info'.provider = info.provider
      BY <1>1, <2>1 DEF EmptyInfo
    <3> QED BY <1>3, <3>1 DEF Traced, IsStatic
  <2>2. CASE info' = FromArguments
    <3>1. info'.path = info.path
      BY <1>1, <2>2 DEF FromArguments, EmptyInfo
    <3>2. \/ info'.provider = info.provider
          \/ Workload.flags # <<>> /\ info'.provider = Head(Workload.flags).provider
          \/ Workload.env # <<>> /\ info'.provider = Head(Workload.env).provider
      BY <1>1, <2>2 DEF FromArguments, EmptyInfo
    <3> QED BY <1>1, <3>1, <3>2 DEF Traced, IsStatic, IsWorkload
  <2>3. CASE \E p : info' = [info EXCEPT !.problem = p]
    BY <2>3 DEF Traced, IsStatic
  <2> QED BY <1>2, <2>1, <2>2, <2>3
<1>5. (load # <<>> => queue' \in Seq(Places(Mounts))) /\ (call' # "files" => queue' = <<>>)
  BY <1>1 DEF Traced
<1> QED BY <1>1, <1>4, <1>5, TracedOn DEF Needed

LEMMA TakeStaticTraces ==
  ASSUME Inv, Deployed, Traced, UnderWay, TakeStatic, UNCHANGED <<login, queue>>
  PROVE  Traced'
<1>1. /\ call = "reading" /\ call' = "provider" /\ load' = load /\ load # <<>>
      /\ DOMAIN info = DOMAIN EmptyInfo /\ IsWorkload(Case.tree, Workload)
      /\ read.at = "done"
  BY DEF TakeStatic, Goes, Traced, Inv, LabelsListed
<1>2. \/ \E p : info' = [info EXCEPT !.problem = p]
      \/ /\ read.got # None
         /\ \E e, p : info' = [info EXCEPT !.source = "file", !.entrypoints = e,
                                           !.provider = Document.static.provider, !.problem = p]
  <2>1. CASE read.got = None \/ Document.state = "broken"
    BY <2>1 DEF TakeStatic
  <2>2. CASE ~ (read.got = None \/ Document.state = "broken")
    <3>1. info' = [info EXCEPT !.source = "file", !.entrypoints = Document.static.entrypoints,
                                 !.provider = Document.static.provider,
                                 !.problem = IF Document.static.entrypoints = {}
                                             THEN "declares no entrypoints" ELSE Unset]
      BY <2>2 DEF TakeStatic
    <3> QED BY <2>2, <3>1
  <2> QED BY <2>1, <2>2
<1>3. info'.path \in Seq(STRING) /\ IsStatic(info')
  <2>1. CASE \E p : info' = [info EXCEPT !.problem = p]
    BY <2>1 DEF Traced, IsStatic
  <2>2. CASE /\ read.got # None
             /\ \E e, p : info' = [info EXCEPT !.source = "file", !.entrypoints = e,
                                           !.provider = Document.static.provider, !.problem = p]
    <3>1. info'.path = info.path /\ info'.provider = Document.static.provider
      BY <1>1, <2>2 DEF EmptyInfo
    <3>2. read.got \in DOMAIN Case.tree /\ Case.tree[read.got].kind = "file"
      BY <1>1, <2>2 DEF UnderWay, ReadFrom
    <3>3. tree[read.got] = Case.tree[read.got]
      BY <3>2 DEF Deployed
    <3>4. IsStatic(Case.tree[read.got].doc.static)
      BY <1>1, <3>2 DEF IsWorkload
    <3> QED BY <3>1, <3>3, <3>4 DEF Traced, IsStatic, Document
  <2> QED BY <1>2, <2>1, <2>2
<1>5. (load # <<>> => queue' \in Seq(Places(Mounts))) /\ (call' # "files" => queue' = <<>>)
  BY <1>1 DEF Traced
<1> QED BY <1>1, <1>3, <1>5, TracedOn DEF Needed

LEMMA FilesTrace ==
  ASSUME Inv, Deployed, Traced, UnderWay, ListFiles \/ TakeFile \/ EndFiles \/ Surprise,
         UNCHANGED login
  PROVE  Traced'
<1>1. /\ load' = load /\ load # <<>> /\ info'.path = info.path
      /\ info'.provider = info.provider
  BY DEF ListFiles, TakeFile, EndFiles, Surprise, Traced, Inv, LabelsListed, EmptyInfo
<1>2. info'.path \in Seq(STRING) /\ IsStatic(info')
  BY <1>1 DEF Traced, IsStatic
<1>3. queue \in Seq(Places(Mounts))
  BY <1>1 DEF Traced
<1>4. queue' \in Seq(Places(Mounts)) /\ (call' # "files" => queue' = <<>>)
  <2> DEFINE A == Places(Mounts)
  <2>1. CASE ListFiles
    BY <2>1, ListedArePlaces DEF ListFiles, Goes
  <2>2. CASE TakeFile
    <3>1. queue # <<>> /\ queue' = Tail(queue) /\ call' = "files" /\ queue \in Seq(A)
      BY <1>3, <2>2 DEF TakeFile, UnderWay, ReadFrom
    <3> HIDE DEF A
    <3>2. Tail(queue) \in Seq(A)
      BY <3>1
    <3> QED BY <3>1, <3>2 DEF A
  <2>3. CASE EndFiles \/ Surprise
    <3>1. queue' = <<>>
      BY <2>3 DEF EndFiles, Surprise
    <3> HIDE DEF A
    <3>2. queue' \in Seq(A)
      BY <3>1
    <3> QED BY <3>1, <3>2 DEF A
  <2> QED BY <2>1, <2>2, <2>3
<1> QED BY <1>1, <1>2, <1>4, TracedOn

\* A pass begins with nothing.
LEMMA TracedAnew ==
  ASSUME load' = <<>>, queue' = <<>>, call' = "services", info' = EmptyInfo
  PROVE  Traced'
<1>1. info'.path = <<>> /\ info'.provider = <<>>
  BY DEF EmptyInfo
<1>2. <<>> \in Seq(STRING)
  OBVIOUS
<1> QED BY <1>1, <1>2 DEF Traced, IsStatic

LEMMA TracedStays ==
  ASSUME Traced, UNCHANGED <<login, call, load, queue, info>>
  PROVE  Traced'
BY TracedNote

-----------------------------------------------------------------------------
(* What lies below.                                                        *)

Closed(t, S) == \A i \in S : t[i].kind = "dir" => Range(t[i].names) \subseteq S

LEMMA WithEntriesGrows ==
  ASSUME NEW t, IsTree(t), NEW S \in SUBSET DOMAIN t
  PROVE  /\ S \subseteq WithEntries(t, S) /\ WithEntries(t, S) \subseteq DOMAIN t
         /\ WithEntries(t, S) = S <=> Closed(t, S)
<1> DEFINE dirs == {j \in S : t[j].kind = "dir"}
           entries == UNION {Range(t[i].names) : i \in dirs}
<1>1. WithEntries(t, S) = S \cup entries
  BY DEF WithEntries
<1>2. entries \subseteq DOMAIN t
  BY DEF IsTree
<1>3. entries \subseteq S <=> Closed(t, S)
  BY DEF Closed
<1> HIDE DEF entries
<1> QED BY <1>1, <1>2, <1>3

\* In every round something is found, or everything has been.
LEMMA RoundsFind ==
  ASSUME NEW t, IsTree(t), NEW S0 \in SUBSET DOMAIN t, NEW N \in Nat,
         NEW g, IsChain(g, SpreadIn(t), S0, N)
  PROVE  \A n \in 0 .. N : /\ S0 \subseteq g[n] /\ g[n] \subseteq DOMAIN t
                           /\ Closed(t, g[n]) \/ Cardinality(g[n]) >= n
<1> DEFINE Filled(n) == /\ S0 \subseteq g[n] /\ g[n] \subseteq DOMAIN t
                        /\ Closed(t, g[n]) \/ Cardinality(g[n]) >= n
           T == {n \in 0 .. N : ~ Filled(n)}
<1>1. IsFiniteSet(DOMAIN t)
  BY DEF IsTree
<1>2. Filled(0)
  BY <1>1, FS_Subset, FS_CardinalityType DEF IsChain
<1>3. ASSUME NEW n \in 1 .. N, Filled(n - 1)  PROVE  Filled(n)
  <2> DEFINE S == g[n - 1]
  <2>1. g[n] = WithEntries(t, S)
    BY DEF IsChain, Moved, SpreadIn
  <2>2. S0 \subseteq S /\ S \subseteq DOMAIN t /\ (Closed(t, S) \/ Cardinality(S) >= n - 1)
    BY <1>3
  <2> HIDE DEF S
  <2>3. S \subseteq g[n] /\ g[n] \subseteq DOMAIN t /\ (g[n] = S <=> Closed(t, S))
    BY <2>1, <2>2, WithEntriesGrows
  <2>4. CASE Closed(t, S)
    BY <2>2, <2>3, <2>4
  <2>5. CASE ~ Closed(t, S)
    <3>1. g[n] # S /\ Cardinality(S) >= n - 1
      BY <2>2, <2>3, <2>5
    <3>2. IsFiniteSet(g[n]) /\ IsFiniteSet(S)
      BY <1>1, <2>2, <2>3, FS_Subset
    <3>3. Cardinality(S) \in Nat /\ Cardinality(g[n]) \in Nat /\ n \in Nat
      BY <3>2, FS_CardinalityType
    <3>4. Cardinality(S) < Cardinality(g[n])
      BY <2>3, <3>1, <3>2, <3>3, FS_Subset
    <3>5. Cardinality(g[n]) >= n
      BY <3>1, <3>3, <3>4
    <3> QED BY <2>2, <2>3, <3>5
  <2> QED BY <2>4, <2>5
<1> HIDE DEF Filled
<1>4. T = {}
  <2> SUFFICES ASSUME T # {}  PROVE  FALSE
    OBVIOUS
  <2>1. T \in SUBSET Nat
    OBVIOUS
  <2>2. PICK n \in T : \A m \in T : n <= m
    BY <2>1, FirstPosition
  <2>3. n # 0
    BY <1>2
  <2>4. n \in 1 .. N /\ n - 1 \in 0 .. N /\ n - 1 \notin T
    BY <2>2, <2>3
  <2>5. Filled(n - 1)
    BY <2>4
  <2> QED BY <1>3, <2>2, <2>4, <2>5
<1> QED BY <1>4 DEF Filled

Spreads(t, x, n, f) ==
    [i \in 0 .. n |-> IF i = 0 THEN {x} ELSE {WithEntries(t, y) : y \in f[i - 1]}]

LEMMA ClosureIs ==
  ASSUME NEW t, NEW S0, Cardinality(DOMAIN t) \in Nat
  PROVE  Closure(t, S0) = After(SpreadIn(t), S0, Cardinality(DOMAIN t))
<1> DEFINE n == Cardinality(DOMAIN t)
           what == SpreadIn(t)
           found == CHOOSE f : f = Spreads(t, S0, n, f)
<1>1. Closure(t, S0) = UNION found[n]
  BY DEF Closure, Spreads
<1>2. \A f : Unrolls(f, what, S0, n) <=> f = Spreads(t, S0, n, f)
  BY DEF Unrolls, Spreads, Moved, SpreadIn
<1>0. n \in Nat
  OBVIOUS
<1> HIDE DEF n, what
<1>3. Unrolls(found, what, S0, n)
  BY <1>0, <1>2, UnrollsExists
<1> HIDE DEF found
<1>4. found[n] = {After(what, S0, n)}
  BY <1>0, <1>3, UnrollsEnds
<1>5. UNION found[n] = After(what, S0, n)
  BY <1>4
<1> QED BY <1>1, <1>5 DEF n, what

\* As many rounds as there are inodes find all that there is to find.
LEMMA ClosureCloses ==
  ASSUME NEW t, IsTree(t), NEW S0 \in SUBSET DOMAIN t
  PROVE  /\ S0 \subseteq Closure(t, S0) /\ Closure(t, S0) \subseteq DOMAIN t
         /\ Closed(t, Closure(t, S0))
<1> DEFINE N == Cardinality(DOMAIN t)
           g == CHOOSE g : IsChain(g, SpreadIn(t), S0, N)
<1>1. IsFiniteSet(DOMAIN t) /\ N \in Nat
  BY FS_CardinalityType DEF IsTree
<1>2. IsChain(g, SpreadIn(t), S0, N)
  BY <1>1, ChainExists
<1>3. Closure(t, S0) = g[N]
  BY <1>1, ClosureIs DEF After
<1> HIDE DEF N, g
<1>4. /\ S0 \subseteq g[N] /\ g[N] \subseteq DOMAIN t
      /\ Closed(t, g[N]) \/ Cardinality(g[N]) >= N
  <2>1. N \in 0 .. N
    BY <1>1
  <2> QED BY <1>1, <1>2, <2>1, RoundsFind
<1>5. CASE Cardinality(g[N]) >= N
  <2>1. Cardinality(g[N]) \in Nat
    BY <1>1, <1>4, FS_Subset, FS_CardinalityType
  <2>2. g[N] = DOMAIN t
    BY <1>1, <1>4, <1>5, <2>1, FS_Subset DEF N
  <2>3. Closed(t, DOMAIN t)
    BY DEF Closed, IsTree
  <2> QED BY <1>3, <1>4, <2>2, <2>3
<1> QED BY <1>3, <1>4, <1>5

LEMMA SourcesInTree ==
  ASSUME NEW t, IsTree(t), NEW source \in Seq(STRING)
  PROVE  Sources(t, source) \subseteq DOMAIN t
<1>1. OnHost(t, source) \in AWalk(t)
  BY HostEnds
<1>2. Here(OnHost(t, source)) \in DOMAIN t
  BY <1>1, HereInTree
<1> QED BY <1>2 DEF Sources

-----------------------------------------------------------------------------
(* What is read.                                                           *)

\* Where the read that is under way is.
Inside ==
    /\ read.at # "idle" => IsRead(read) /\ read.got \in below \cup {None}
    /\ InProgress =>
         /\ below \subseteq DOMAIN tree /\ Closed(tree, below)
         /\ Sources(tree, read.source) \subseteq below
         /\ read.dir \in below \cup {None}

\* Opening goes from a directory to what is in it, or stops.
LEMMA Opening ==
  ASSUME NEW t, NEW S, S \subseteq DOMAIN t, Closed(t, S),
         NEW r, IsRead(r), r.dir \in S \cup {None}, r.got \in S \cup {None},
         Sources(t, r.source) \subseteq S
  PROVE  LET s == OpenStep(t, r)
         IN  /\ IsRead(s) /\ s.source = r.source
             /\ s.dir \in S \cup {None} /\ s.got \in S \cup {None}
             /\ s.got = r.got \/ t[s.got].kind = "file"
<1> DEFINE Within(s) == /\ IsRead(s) /\ s.source = r.source
                        /\ s.dir \in S \cup {None} /\ s.got \in S \cup {None}
                        /\ s.got = r.got \/ t[s.got].kind = "file"
<1>1. ASSUME NEW why  PROVE  Within(Refuse(r, why))
  BY DEF Refuse, IsRead
<1>2. ASSUME NEW i \in S, t[i].kind = "file"
      PROVE  Within([r EXCEPT !.at = "done", !.got = i])
  BY <1>2 DEF IsRead
<1>3. ASSUME NEW i \in S, NEW rest  PROVE  Within([r EXCEPT !.dir = i, !.resolved = rest])
  BY DEF IsRead
<1> HIDE DEF Within
<1>4. ASSUME NEW i \in S  PROVE  Within(Took(t, r, i))
  BY <1>1, <1>2 DEF Took
<1>5. ASSUME NEW i \in S  PROVE  Within(OpenComponent(t, r, i))
  BY <1>1, <1>3, <1>4 DEF OpenComponent
<1>6. ASSUME NEW dir \in S  PROVE  Within(OpenIn(t, r, dir))
  <2> DEFINE name == Head(r.resolved)
  <2>1. CASE t[dir].kind # "dir" \/ t[dir].shut \/ name \notin DOMAIN t[dir].names
    BY <1>1, <2>1 DEF OpenIn
  <2>2. CASE t[dir].kind = "dir" /\ ~ t[dir].shut /\ name \in DOMAIN t[dir].names
    <3>1. t[dir].names[name] \in S
      BY <2>2 DEF Closed, Range
    <3> QED BY <1>5, <2>2, <3>1 DEF OpenIn, OpenedAs
  <2> QED BY <2>1, <2>2
<1>7. ASSUME NEW root, root = OnHost(t, r.source)  PROVE  Within(OpenRoot(t, r, root))
  <2>1. CASE root.err # Fine
    BY <1>1, <2>1 DEF OpenRoot
  <2>2. CASE root.err = Fine
    <3>1. Here(root) \in S
      BY <1>7, <2>2 DEF Sources
    <3> QED BY <1>4, <1>6, <2>2, <3>1 DEF OpenRoot
  <2> QED BY <2>1, <2>2
<1>8. Within(OpenStep(t, r))
  BY <1>6, <1>7 DEF OpenStep
<1> QED BY <1>8 DEF Within

-----------------------------------------------------------------------------
(* What is read while the files may change.                                *)

\* The inductive invariant of the files.
Tracked == UnderWay /\ Following /\ Inside
FilesInv == Deployed /\ Traced /\ Tracked

LEMMA IdleIsTracked ==
  ASSUME read'.at = "idle"
  PROVE  Tracked'
BY DEF Tracked, UnderWay, Following, Inside, InProgress

LEMMA CurrentStays ==
  ASSUME UNCHANGED <<call, load, queue, info>>
  PROVE  /\ Mounts' = Mounts /\ Workload' = Workload /\ Current' = Current /\ (Bound' <=> Bound)
         /\ (UNCHANGED placement => (Placed' <=> Placed))
<1>1. Mounts' = Mounts /\ Workload' = Workload
  BY DEF Mounts, Workload
<1>2. Current' = Current
  BY <1>1 DEF Current
<1>3. Bound' <=> Bound
  BY <1>1, <1>2 DEF Bound
<1>4. UNCHANGED placement => (Placed' <=> Placed)
  BY <1>1 DEF Placed
<1> QED BY <1>1, <1>2, <1>3, <1>4

\* A read that begins.
LEMMA BeginsTracked ==
  ASSUME Configured, FilesInv, Read(Current), phase = "wiring", phase' = "wiring",
         call \in {"reading", "files"}, call = "files" => queue # <<>>, Placed,
         UNCHANGED <<tree, changes, daemon, login, call, placement, load, queue, info>>
  PROVE  Tracked'
<1> DEFINE m == Mounts[Current.mount]
<1>1. /\ Mounts' = Mounts /\ Current' = Current /\ (Bound' <=> Bound) /\ Placed' /\ Case' = Case
      /\ Uncovered(tree, Mounts, Current.path)' = Uncovered(tree, Mounts, Current.path)
  <2>1. Mounts' = Mounts /\ Current' = Current /\ (Bound' <=> Bound) /\ Placed'
    BY CurrentStays
  <2> QED BY <2>1 DEF Case
<1>2. /\ load # <<>> /\ IsWorkload(Case.tree, Workload) /\ IsMounted(Case.tree, Mounts)
      /\ Current.path \in Seq(STRING) /\ Current = Locate(Mounts, Current.path)
      /\ IsTree(tree)
  BY CurrentIs DEF FilesInv, Deployed
<1>3. CASE Bound /\ placement = "here"
  <2>1. Unread(Current) = Fine /\ m.kind = "bind"
    BY <1>3 DEF Unread, Bound
  <2>2. m.source \in Seq(STRING)
    BY <1>3, SourceIs DEF Bound, FilesInv
  <2> DEFINE r == Reading(m.source, Current.rest)
             S == Sources(tree, m.source)
  <2>3. read' = r /\ below' = Closure(tree, S)
    BY <2>1 DEF Read, BeginRead
  <2>4. S \subseteq DOMAIN tree
    BY <1>2, <2>2, SourcesInTree
  <2>5. S \subseteq below' /\ below' \subseteq DOMAIN tree /\ Closed(tree, below')
    BY <1>2, <2>3, <2>4, ClosureCloses
  <2>6. IsRead(r) /\ r.at = "lstat" /\ r.source = m.source /\ r.dir = None /\ r.got = None
    BY DEF Reading, IsRead
  <2>7. UnderWay'
    <3> HIDE DEF r
    <3> QED BY <1>1, <1>3, <2>3, <2>6 DEF UnderWay, ReadFrom
  <2>8. Inside'
    <3> HIDE DEF r, m
    <3> QED BY <2>3, <2>5, <2>6 DEF Inside
  <2>9. ASSUME Steady'  PROVE  Followed(tree, r, Uncovered(tree, Mounts, Current.path))
    <3>1. IsMounted(tree, Mounts)
      BY <1>2, <2>9 DEF FilesInv, Deployed, Steady
    <3> DEFINE path == Current.path
    <3>2. Current = Locate(Mounts, path) /\ path \in Seq(STRING)
      BY <1>2
    <3>3. Locate(Mounts, path).mount # NoMount /\ m = Mounts[Locate(Mounts, path).mount]
          /\ m.kind = "bind"
      BY <1>3, <3>2 DEF Bound
    <3> HIDE DEF m, path
    <3>4. LET s == Reading(m.source, Locate(Mounts, path).rest)
          IN  s.at = "lstat" /\ Resolves(tree, s, Uncovered(tree, Mounts, path))
      BY <1>2, <3>1, <3>2, <3>3, BeginsAlong
    <3>5. r.at = "lstat" /\ Resolves(tree, r, Uncovered(tree, Mounts, path))
      BY <3>2, <3>4
    <3> HIDE DEF r
    <3> QED BY <3>5 DEF Followed, path
  <2>10. Following'
    <3> HIDE DEF r
    <3> QED BY <1>1, <2>3, <2>9 DEF Following
  <2> QED BY <2>7, <2>8, <2>10 DEF Tracked
<1>4. CASE ~ (Bound /\ placement = "here")
  <2>1. ~ (Unread(Current) = Fine /\ m.kind = "bind")
    BY <1>4 DEF Unread, Bound, Fine
  <2> DEFINE why == Unread(Current)
             got == IF why = Fine THEN m.source ELSE None
  <2>2. read' = [Reading(<<>>, <<>>) EXCEPT !.at = "done", !.why = why, !.got = got]
        /\ below' = {read'.got}
    BY <2>1 DEF Read
  <2>3. IsRead(read') /\ read'.at = "done" /\ read'.got = got
    BY <2>2 DEF Reading, IsRead
  <2>4. got # None => /\ Current.mount # NoMount /\ m.kind = "config"
                      /\ got = m.source
    BY <2>1 DEF Unread, Fine
  <2>5. got # None => got \in DOMAIN Case.tree /\ Case.tree[got].kind = "file"
    BY <2>4, SourceIs DEF FilesInv
  <2> HIDE DEF got, m, why
  <2>6. UnderWay'
    BY <1>1, <2>3, <2>4, <2>5 DEF UnderWay, ReadFrom, InProgress, m
  <2>7. Following'
    BY <1>1, <1>4 DEF Following
  <2>8. Inside'
    BY <2>2, <2>3 DEF Inside, InProgress
  <2> QED BY <2>6, <2>7, <2>8 DEF Tracked
<1> QED BY <1>3, <1>4

\* A step of the read.
LEMMA ReadStepTracked ==
  ASSUME Configured, FilesInv, ReadStep, phase' = "wiring",
         UNCHANGED <<daemon, login, call, placement, load, queue, info>>
  PROVE  Tracked'
<1> DEFINE w == Uncovered(tree, Mounts, Current.path)
<1>0. /\ InProgress /\ UNCHANGED <<tree, changes, below>>
      /\ read' = IF read.at = "open" THEN OpenStep(tree, read) ELSE ResolveStep(tree, read)
      /\ read.at # "idle"
  BY DEF ReadStep, InProgress
<1>1. /\ Mounts' = Mounts /\ Current' = Current /\ (Bound' <=> Bound) /\ (Placed' <=> Placed)
      /\ Case' = Case /\ w' = w
  <2>1. Mounts' = Mounts /\ Current' = Current /\ (Bound' <=> Bound) /\ (Placed' <=> Placed)
    BY CurrentStays
  <2> QED BY <1>0, <2>1 DEF Case
<1>2. /\ ReadFrom /\ Bound /\ placement = "here" /\ read.source = Mounts[Current.mount].source
      /\ call \in {"reading", "files"} /\ (call = "files" => queue # <<>>) /\ Placed
  BY <1>0 DEF FilesInv, Tracked, UnderWay, ReadFrom
<1>3. /\ IsRead(read) /\ read.got \in below \cup {None} /\ below \subseteq DOMAIN tree
      /\ Closed(tree, below) /\ Sources(tree, read.source) \subseteq below
      /\ read.dir \in below \cup {None}
  BY <1>0 DEF FilesInv, Tracked, Inside
<1>4. /\ IsRead(read') /\ read'.source = read.source
      /\ read'.dir \in below \cup {None} /\ read'.got \in below \cup {None}
      /\ read'.got = read.got \/ tree[read'.got].kind = "file"
  <2>1. CASE read.at = "open"
    BY <1>0, <1>3, <2>1, Opening
  <2>2. CASE read.at # "open"
    BY <1>0, <1>3, <2>2, ResolveKeeps
  <2> QED BY <2>1, <2>2
<1>5. Inside'
  BY <1>0, <1>3, <1>4 DEF Inside
<1>6. read'.got # None => read'.got \in DOMAIN Case.tree /\ Case.tree[read'.got].kind = "file"
  <2>1. CASE read'.got = read.got
    BY <1>2, <2>1 DEF ReadFrom
  <2>2. CASE read'.got # read.got
    BY <1>3, <1>4, <2>2 DEF FilesInv, Deployed
  <2> QED BY <2>1, <2>2
<1>7. UnderWay'
  BY <1>1, <1>2, <1>4, <1>6 DEF UnderWay, ReadFrom
<1>8. ASSUME Steady'  PROVE  Followed(tree, read', w)
  <2>1. Steady
    BY <1>0, <1>8 DEF Steady
  <2>2. Followed(tree, read, w) /\ IsTree(tree)
    BY <1>0, <1>2, <2>1 DEF FilesInv, Tracked, Following, Deployed
  <2> HIDE DEF w
  <2>3. CASE read.at = "open"
    BY <1>0, <2>2, <2>3, OpenFollows
  <2>4. CASE read.at # "open"
    <3>1. read.at \in {"lstat", "readlink"}
      BY <1>0, <2>4 DEF InProgress
    <3> QED BY <1>0, <2>2, <2>4, <3>1, ResolveFollows
  <2> QED BY <2>3, <2>4
<1>9. Following'
  BY <1>0, <1>1, <1>8 DEF Following
<1> QED BY <1>5, <1>7, <1>9 DEF Tracked

\* Somebody deploys while something is read, or nothing is.
LEMMA ChangeTracked ==
  ASSUME Configured, FilesInv, Change, phase' = phase,
         UNCHANGED <<daemon, login, call, placement, load, queue, info>>
  PROVE  Tracked'
<1>1. Deployed' /\ ~ Steady' /\ DOMAIN tree' = DOMAIN tree
  BY DeployedChanges DEF FilesInv
<1>2. /\ read' = read /\ (InProgress' <=> InProgress)
      /\ below' = IF InProgress THEN Closure(tree', below \cup Sources(tree', read.source))
                                ELSE below
  BY DEF Change, InProgress
<1>3. /\ Mounts' = Mounts /\ Current' = Current /\ (Bound' <=> Bound) /\ (Placed' <=> Placed)
      /\ Case' = Case
  <2>1. Mounts' = Mounts /\ Current' = Current /\ (Bound' <=> Bound) /\ (Placed' <=> Placed)
    BY CurrentStays
  <2> QED BY <2>1 DEF Case
<1>4. UnderWay'
  BY <1>2, <1>3 DEF FilesInv, Tracked, UnderWay, ReadFrom
<1>5. Following'
  BY <1>1 DEF Following
<1>6. Inside'
  <2>1. CASE ~ InProgress
    BY <1>2, <2>1 DEF FilesInv, Tracked, Inside
  <2>2. CASE InProgress
    <3> DEFINE S == below \cup Sources(tree', read.source)
    <3>1. read.source \in Seq(STRING)
      <4>1. /\ read.source = Mounts[Current.mount].source /\ Bound
            /\ call \in {"reading", "files"} /\ (call = "files" => queue # <<>>)
        BY <2>2 DEF FilesInv, Tracked, UnderWay, ReadFrom, InProgress
      <4> QED BY <4>1, SourceIs DEF FilesInv, Bound
    <3>2. IsTree(tree')
      BY <1>1 DEF Deployed
    <3>3. Sources(tree', read.source) \subseteq DOMAIN tree'
      BY <3>1, <3>2, SourcesInTree
    <3>4. S \subseteq DOMAIN tree'
      BY <1>1, <2>2, <3>3 DEF FilesInv, Tracked, Inside
    <3>5. S \subseteq below' /\ below' \subseteq DOMAIN tree' /\ Closed(tree', below')
      BY <1>2, <2>2, <3>2, <3>4, ClosureCloses
    <3> QED BY <1>1, <1>2, <2>2, <3>5 DEF FilesInv, Tracked, Inside
  <2> QED BY <2>1, <2>2
<1> QED BY <1>4, <1>5, <1>6 DEF Tracked

\* Where the workload runs is not asked while a bind mount is read.
LEMMA AskTracked ==
  ASSUME FilesInv, AskPlacement, phase = "wiring", phase' = "wiring", UNCHANGED <<login, queue>>
  PROVE  Tracked'
<1>1. /\ placement = "unasked" /\ UNCHANGED <<fileVars, daemon, call, load, info>>
  BY DEF AskPlacement
<1>2. CASE read.at = "idle"
  BY <1>1, <1>2, IdleIsTracked DEF fileVars
<1>3. CASE read.at # "idle"
  <2>1. ReadFrom
    BY <1>3 DEF FilesInv, Tracked, UnderWay
  <2>2. \A i \in DOMAIN Mounts : Mounts[i].kind # "bind"
    BY <1>1, <2>1 DEF ReadFrom, Placed
  <2>3. ~ Bound
    BY <2>1, <2>2, CurrentIs DEF Bound, ReadFrom, FilesInv
  <2>4. Mounts' = Mounts /\ Current' = Current /\ (Bound' <=> Bound) /\ Case' = Case
    BY <1>1, CurrentStays DEF Case
  <2>5. Placed'
    BY <2>2, <2>4 DEF Placed
  <2>6. ~ InProgress /\ (InProgress' <=> InProgress) /\ read' = read /\ below' = below
    BY <1>1, <2>1, <2>3 DEF ReadFrom, fileVars, InProgress
  <2>7. UnderWay'
    BY <1>1, <2>1, <2>3, <2>4, <2>5, <2>6 DEF UnderWay, ReadFrom
  <2>8. Following'
    BY <2>3, <2>4 DEF Following
  <2>9. Inside'
    BY <2>6 DEF FilesInv, Tracked, Inside
  <2> QED BY <2>7, <2>8, <2>9 DEF Tracked
<1> QED BY <1>2, <1>3

LEMMA StutterTracked ==
  ASSUME FilesInv, UNCHANGED vars
  PROVE  Tracked'
<1>1. UNCHANGED <<login, daemon, tree, changes, read, below, phase, call, placement, load, queue,
                  info>>
  BY DEF vars, traefikVars, fileVars, panelVars, cfgVars
<1>2. Mounts' = Mounts /\ Current' = Current /\ (Bound' <=> Bound) /\ (Placed' <=> Placed)
      /\ Case' = Case /\ (InProgress' <=> InProgress) /\ (Steady' <=> Steady)
  BY <1>1, CurrentStays DEF Case, InProgress, Steady
<1>3. UnderWay'
  BY <1>1, <1>2 DEF FilesInv, Tracked, UnderWay, ReadFrom
<1>4. Following'
  <2>1. Uncovered(tree, Mounts, Current.path)' = Uncovered(tree, Mounts, Current.path)
    BY <1>1, <1>2
  <2> QED BY <1>1, <1>2, <2>1 DEF FilesInv, Tracked, Following
<1>5. Inside'
  BY <1>1, <1>2 DEF FilesInv, Tracked, Inside
<1> QED BY <1>3, <1>4, <1>5 DEF Tracked

-----------------------------------------------------------------------------
(* Every step keeps what is known of the files.                            *)

\* Nothing is read but while the wiring is collected.
LEMMA PassKeepsFiles ==
  ASSUME FilesInv, Load \/ BeginPass \/ CollectSwarm \/ AskApi \/ Fail \/ Draw \/ Rest
  PROVE  FilesInv'
<1>1. phase # "wiring" /\ UNCHANGED <<login, daemon, tree, changes, read>>
  BY DEF Load, BeginPass, CollectSwarm, AskApi, Fail, Draw, Rest, traefikVars, fileVars, cfgVars
<1>2. Deployed'
  BY <1>1, DeployedStays DEF FilesInv
<1>3. Tracked'
  <2>1. read.at = "idle"
    BY <1>1 DEF FilesInv, Tracked, UnderWay, ReadFrom
  <2> QED BY <1>1, <2>1, IdleIsTracked
<1>4. Traced'
  <2>1. CASE BeginPass
    BY <2>1, TracedAnew DEF BeginPass
  <2>2. CASE Load \/ CollectSwarm \/ AskApi \/ Fail \/ Draw \/ Rest
    <3>1. UNCHANGED <<login, call, load, queue, info>>
      BY <2>2 DEF Load, CollectSwarm, AskApi, Fail, Draw, Rest, traefikVars, cfgVars
    <3> QED BY <3>1, TracedStays DEF FilesInv
  <2> QED BY <2>1, <2>2
<1> QED BY <1>2, <1>3, <1>4 DEF FilesInv

LEMMA WiringTraces ==
  ASSUME Inv, FilesInv, CollectTraefik, UNCHANGED login
  PROVE  Traced'
<1> USE DEF FilesInv, Tracked
<1>1. CASE (ListServices \/ ListContainers) /\ UNCHANGED queue
  BY <1>1, ListingsTrace
<1>2. CASE (AskState \/ ListConfigs \/ Found \/ AskPlacement \/ Absolute) /\ UNCHANGED queue
  BY <1>2, AsksTrace
<1>3. CASE Search /\ UNCHANGED queue
  BY <1>3, SearchTraces
<1>4. CASE TakeStatic /\ UNCHANGED queue
  BY <1>4, TakeStaticTraces
<1>5. CASE \/ ReadStatic /\ UNCHANGED queue
           \/ ReadStep /\ UNCHANGED <<daemon, faults, call, state, placement, load, queue, info>>
           \/ Change /\ UNCHANGED <<daemon, faults, call, state, placement, load, queue, info>>
           \/ ReadFile
  <2>1. UNCHANGED <<call, load, queue, info>>
    BY <1>5 DEF ReadStatic, ReadFile
  <2> QED BY <1>5, <2>1, TracedStays
<1>6. CASE ListFiles \/ TakeFile \/ EndFiles \/ Surprise
  BY <1>6, FilesTrace
<1> QED BY <1>1, <1>2, <1>3, <1>4, <1>5, <1>6 DEF CollectTraefik

LEMMA WiringTracks ==
  ASSUME Inv, FilesInv, CollectTraefik, UNCHANGED login, phase = "wiring", call # "done",
         phase' = IF call' = "done" THEN "api" ELSE "wiring"
  PROVE  Tracked'
<1>1. CASE ListServices \/ ListContainers \/ AskState \/ ListConfigs \/ Found \/ Absolute
             \/ Search \/ ListFiles \/ EndFiles
  <2>1. /\ call \notin {"reading", "files"} \/ (call = "files" /\ queue = <<>>)
        /\ read' = read
    BY <1>1 DEF ListServices, ListContainers, AskState, ListConfigs, Found, Absolute, Search,
                ListFiles, EndFiles, fileVars
  <2>2. read.at = "idle"
    BY <2>1 DEF FilesInv, Tracked, UnderWay, ReadFrom
  <2> QED BY <2>1, <2>2, IdleIsTracked
<1>2. CASE TakeStatic \/ TakeFile \/ Surprise
  <2>1. read' = Idle
    BY <1>2 DEF TakeStatic, TakeFile, Surprise
  <2>2. read'.at = "idle"
    BY <2>1 DEF Idle
  <2> QED BY <2>2, IdleIsTracked
<1>3. CASE AskPlacement /\ UNCHANGED queue
  <2>1. phase' = "wiring"
    BY <1>3 DEF AskPlacement
  <2> QED BY <1>3, <2>1, AskTracked
<1>4. CASE ReadStatic /\ UNCHANGED queue
  <2>1. /\ call = "reading" /\ Placed /\ Read(Locate(Mounts, info.path)) /\ phase' = "wiring"
        /\ UNCHANGED <<tree, changes, daemon, login, call, placement, load, queue, info>>
    BY <1>4 DEF ReadStatic
  <2>2. Locate(Mounts, info.path) = Current
    <3>1. Current = Locate(Mounts, IF call = "reading" THEN info.path ELSE Head(queue).path)
      BY DEF Current
    <3> QED BY <2>1, <3>1
  <2>3. Read(Current)
    BY <2>1, <2>2
  <2> QED BY <2>1, <2>3, BeginsTracked DEF Inv
<1>5. CASE ReadFile
  <2>1. /\ call = "files" /\ queue # <<>> /\ Placed /\ Read(Head(queue)) /\ phase' = "wiring"
        /\ UNCHANGED <<tree, changes, daemon, login, call, placement, load, queue, info>>
    BY <1>5 DEF ReadFile
  <2>2. Head(queue) = Current
    BY <2>1, CurrentIs DEF FilesInv
  <2>3. Read(Current)
    BY <2>1, <2>2
  <2> QED BY <2>1, <2>3, BeginsTracked DEF Inv
<1>6. CASE ReadStep /\ UNCHANGED <<daemon, faults, call, state, placement, load, queue, info>>
  BY <1>6, ReadStepTracked DEF Inv
<1>7. CASE /\ Change /\ call # "done"
           /\ UNCHANGED <<daemon, faults, call, state, placement, load, queue, info>>
  BY <1>7, ChangeTracked DEF Inv
<1> QED BY <1>1, <1>2, <1>3, <1>4, <1>5, <1>6, <1>7 DEF CollectTraefik

\* Only a deployment touches the files.
LEMMA WiringDeploys ==
  ASSUME Inv, FilesInv, CollectTraefik, UNCHANGED login
  PROVE  Deployed'
<1>1. CASE Change /\ UNCHANGED daemon
  BY <1>1, DeployedChanges DEF Inv, FilesInv
<1>2. CASE ~ (Change /\ UNCHANGED daemon)
  <2>1. UNCHANGED <<daemon, tree, changes>>
    BY <1>2 DEF CollectTraefik, ListServices, ListContainers, AskState, ListConfigs, Found,
                AskPlacement, Absolute, Search, ReadStatic, TakeStatic, ListFiles, ReadFile,
                TakeFile, EndFiles, Surprise, ReadStep, fileVars
  <2> QED BY <2>1, DeployedStays DEF FilesInv
<1> QED BY <1>1, <1>2

LEMMA FilesKept == Inv /\ FilesInv /\ [Next]_vars => FilesInv'
<1> SUFFICES ASSUME Inv, FilesInv, [Next]_vars  PROVE  FilesInv'
  OBVIOUS
<1>1. CASE Load \/ BeginPass \/ CollectSwarm \/ AskApi \/ Fail \/ Draw \/ Rest
  BY <1>1, PassKeepsFiles
<1>2. CASE Wiring
  <2>1. /\ phase = "wiring" /\ call # "done" /\ CollectTraefik /\ UNCHANGED login
        /\ phase' = IF call' = "done" THEN "api" ELSE "wiring"
    BY <1>2 DEF Wiring, cfgVars
  <2> QED BY <2>1, WiringTraces, WiringTracks, WiringDeploys DEF FilesInv
<1>3. CASE UNCHANGED vars
  <2>1. UNCHANGED <<login, daemon, tree, changes, call, load, queue, info>>
    BY <1>3 DEF vars, traefikVars, fileVars, panelVars, cfgVars
  <2>2. Deployed' /\ Traced'
    BY <2>1, DeployedStays, TracedStays DEF FilesInv
  <2> QED BY <1>3, <2>2, StutterTracked DEF FilesInv
<1> QED BY <1>1, <1>2, <1>3 DEF Next

LEMMA FilesBegin ==
  ASSUME Init
  PROVE  FilesInv
<1>1. Deployed
  <2>1. IsTree(Case.tree)
    BY DeployIs DEF Init
  <2> QED BY <2>1 DEF Init, Deployed
<1>2. Traced
  <2>1. <<>> \in Seq(STRING)
    OBVIOUS
  <2>2. info.path = <<>> /\ info.provider = <<>>
    BY DEF Init, EmptyInfo
  <2> QED BY <2>1, <2>2 DEF Init, Traced, IsStatic
<1>3. Tracked
  BY DEF Init, Tracked, UnderWay, Following, Inside, InProgress, Idle
<1> QED BY <1>1, <1>2, <1>3 DEF FilesInv

\* What is read is what the container's kernel finds.
LEMMA ReadIsOwned ==
  ASSUME FilesInv, read.at = "done", Steady, Bound, placement = "here",
         OwnMount(tree, Mounts, Current.path)
  PROVE  Owned(tree, read, InContainer(tree, Mounts, Current.path))
<1>1. Followed(tree, read, Uncovered(tree, Mounts, Current.path))
  BY DEF FilesInv, Tracked, Following
<1>2. /\ InContainer(tree, Mounts, Current.path) = Uncovered(tree, Mounts, Current.path)
      /\ ~ Climbs(Uncovered(tree, Mounts, Current.path))
  BY DEF OwnMount
<1> QED BY <1>1, <1>2 DEF Followed

LEMMA FilesAreRead ==
  ASSUME FilesInv
  PROVE  ReadIsContainers
<1> SUFFICES ASSUME read.at = "done", Steady, placement = "here",
                    Current.mount # NoMount, Mounts[Current.mount].kind = "bind",
                    OwnMount(tree, Mounts, Current.path)
             PROVE  Owned(tree, read, InContainer(tree, Mounts, Current.path))
  BY DEF ReadIsContainers, Current
<1> QED BY ReadIsOwned DEF Bound

LEMMA InvKept == Inv /\ [Next]_vars => Inv'
BY LoadKeeps, BeginPassKeeps, CollectSwarmKeeps, WiringKeeps, AskApiKeeps, FailKeeps,
   DrawKeeps, RestKeeps, StutterKeeps DEF Next

-----------------------------------------------------------------------------
(* The static configuration that was taken is Traefik's.                   *)

LEMMA TraefikIsSourced == TraefikSource = Sourced(tree, Workload)
BY TraefikSourceIs DEF Sourced, SourcedAt, SourceAt, Mounts

\* Nothing is decided yet, or nothing can be.
LEMMA DecidedNot ==
  ASSUME call' \in Before \cup {"provider", "done"}, info'.source = Unset,
         call' \in Before => info'.path = <<>>
  PROVE  Decided'
BY DEF Decided, Before

\* What was decided stays.
LEMMA OwnPathsStay ==
  ASSUME UNCHANGED <<tree, load>>
  PROVE  (OwnPaths' <=> OwnPaths) /\ Workload' = Workload /\ Mounts' = Mounts
<1>1. Workload' = Workload /\ Mounts' = Mounts
  BY DEF Workload, Mounts
<1>2. ASSUME NEW path  PROVE  Brought(path)' <=> Brought(path)
  BY <1>1 DEF Brought
<1> QED BY <1>1, <1>2 DEF OwnPaths

LEMMA DecidedStays ==
  ASSUME Decided, UNCHANGED <<tree, changes, daemon, load>>,
         info'.source = info.source, info'.path = info.path,
         info'.entrypoints = info.entrypoints, info'.problem = info.problem,
         call' = call \/ (call \in {"provider", "files"} /\ call' \in {"provider", "files", "done"})
  PROVE  Decided'
<1>1. (OwnPaths' <=> OwnPaths) /\ Workload' = Workload
  BY OwnPathsStay
<1>2. There(tree, Workload)' = There(tree, Workload)
      /\ Sourced(tree, Workload)' = Sourced(tree, Workload)
      /\ CandidatePaths(Workload)' = CandidatePaths(Workload)
  BY <1>1
<1>3. FirstThere' <=> FirstThere
  BY <1>2 DEF FirstThere
<1>4. Steady' <=> Steady
  BY DEF Steady
<1>5. IsSourced(Sourced(tree, Workload))' <=> IsSourced(Sourced(tree, Workload))
  BY <1>2 DEF IsSourced
<1> QED BY <1>1, <1>3, <1>4, <1>5 DEF Decided, Before

\* Of the candidates that are there the first is Traefik's.
LEMMA SourceOfFirst ==
  ASSUME CandidatePaths(Workload) \in Seq(Seq(STRING)), FirstThere
  PROVE  /\ Sourced(tree, Workload)
              = SourcedAt(tree, info.path, InContainer(tree, Mounts, info.path))
         /\ info.path \in ToSet(CandidatePaths(Workload))
<1> DEFINE P == CandidatePaths(Workload)
           there == There(tree, Workload)
           at == [k \in DOMAIN P |-> InContainer(tree, Mounts, P[k])]
           first == CHOOSE k \in there : \A j \in there : k <= j
<1>1. PICK k \in there : (\A j \in there : k <= j) /\ info.path = P[k]
  BY DEF FirstThere
<1>2. there \subseteq DOMAIN P /\ DOMAIN P = 1 .. Len(P)
  BY DEF There
<1>3. Sourced(tree, Workload) = SourcedAt(tree, P[first], at[first])
  BY <1>1 DEF Sourced, Mounts
<1>4. at[k] = InContainer(tree, Mounts, P[k])
  BY <1>1, <1>2
<1>5. there \subseteq Nat
  BY <1>2
<1> HIDE DEF there, P, at
<1>6. first \in there /\ \A j \in there : first <= j
  BY <1>1
<1> HIDE DEF first
<1>7. first = k
  BY <1>1, <1>5, <1>6
<1>8. info.path \in ToSet(P)
  BY <1>1, <1>2 DEF ToSet
<1> QED BY <1>1, <1>3, <1>4, <1>7, <1>8 DEF P

LEMMA SearchDecides ==
  ASSUME Inv, FilesInv, Decided, Search
  PROVE  Decided'
<1> DEFINE found == Searched(tree, Workload, placement = "here")
<1>1. /\ call = "search" /\ info.source = Unset /\ info.path = <<>>
      /\ DOMAIN info = DOMAIN EmptyInfo
      /\ load # <<>> /\ IsWorkload(Case.tree, Workload)
      /\ UNCHANGED <<tree, changes, daemon, load>>
  BY DEF Search, Decided, Before, FilesInv, Traced, Inv, LabelsListed, fileVars
<1>2. \/ found.is = "present" /\ info' = [info EXCEPT !.path = found.path] /\ call' = "reading"
      \/ call' = "provider" /\ \E p : info' = [info EXCEPT !.problem = p]
      \/ found.is = "none" /\ info' = FromArguments /\ call' = "provider"
  BY DEF Search, Undecided, Goes
<1>3. /\ OwnPaths' <=> OwnPaths
      /\ Workload' = Workload /\ Mounts' = Mounts /\ (Steady' <=> Steady)
  BY <1>1, OwnPathsStay DEF Steady
<1>4. There(tree, Workload)' = There(tree, Workload)
      /\ Sourced(tree, Workload)' = Sourced(tree, Workload)
      /\ CandidatePaths(Workload)' = CandidatePaths(Workload)
  BY <1>1, <1>3
<1>5. ASSUME Steady, OwnPaths
      PROVE  /\ found.is = "none" => There(tree, Workload) = {}
             /\ found.is = "present" =>
                  \E k \in There(tree, Workload) :
                      /\ \A j \in There(tree, Workload) : k <= j
                      /\ found.path = CandidatePaths(Workload)[k]
  <2>1. IsTree(tree) /\ tree = Case.tree
    BY <1>5 DEF FilesInv, Deployed
  <2>2. IsMounted(tree, Workload.mounts) /\ CandidatePaths(Workload) \in Seq(Seq(STRING))
    BY <1>1, <2>1 DEF IsWorkload
  <2> DEFINE P == CandidatePaths(Workload)
             w == Workload
             here == placement = "here"
  <2>3. ASSUME NEW k \in DOMAIN P
        PROVE  LET path == P[k]
               IN  /\ OwnMount(tree, w.mounts, path)
                   /\ Locate(w.mounts, path).mount = NoMount
                        => InContainer(tree, w.mounts, path).err = "missing"
    <3>1. P[k] \in ToSet(P)
      BY DEF ToSet
    <3> QED BY <1>5, <3>1 DEF OwnPaths, Brought, Mounts
  <2> HIDE DEF here, w
  <2>4. LET f == Searched(tree, w, here)
        IN  /\ f.is = "none" => There(tree, w) = {}
            /\ f.is = "present" =>
                 \E k \in There(tree, w) : /\ \A j \in There(tree, w) : k <= j
                                           /\ f.path = CandidatePaths(w)[k]
    BY <2>1, <2>2, <2>3, FoundIsThere DEF w
  <2> QED BY <2>4 DEF here, w
<1> HIDE DEF found
<1>6. CASE found.is = "present" /\ info' = [info EXCEPT !.path = found.path] /\ call' = "reading"
  <2>1. info'.source = Unset /\ info'.path = found.path
    BY <1>1, <1>6 DEF EmptyInfo
  <2>2. ASSUME Steady', OwnPaths'  PROVE  FirstThere'
    BY <1>3, <1>4, <1>5, <1>6, <2>1, <2>2 DEF FirstThere
  <2> QED BY <1>6, <2>1, <2>2 DEF Decided, Before
<1>7. CASE call' = "provider" /\ \E p : info' = [info EXCEPT !.problem = p]
  <2>1. info'.source = Unset
    BY <1>1, <1>7 DEF EmptyInfo
  <2> QED BY <1>7, <2>1, DecidedNot DEF Before
<1>8. CASE found.is = "none" /\ info' = FromArguments /\ call' = "provider"
  <2>1. ASSUME info'.source # Unset, Steady', OwnPaths'
        PROVE  IsSourced(Sourced(tree, Workload))'
    <3>1. There(tree, Workload) = {}
      BY <1>3, <1>5, <1>8, <2>1
    <3>2. \/ Workload.flags # <<>> \/ Workload.env # <<>>
      <4> SUFFICES ASSUME Workload.flags = <<>>, Workload.env = <<>>  PROVE  FALSE
        OBVIOUS
      <4>1. info' = [info EXCEPT !.problem = "no static configuration found"]
        BY <1>8 DEF FromArguments
      <4> QED BY <1>1, <2>1, <4>1 DEF EmptyInfo
    <3>3. CASE Workload.flags # <<>>
      <4> DEFINE static == Head(Workload.flags)
      <4>1. info' = [info EXCEPT !.source = "flags", !.entrypoints = static.entrypoints,
                                 !.provider = static.provider]
        BY <1>8, <3>3 DEF FromArguments
      <4>2. Sourced(tree, Workload) = Argued("flags", static)
        BY <3>1, <3>3 DEF Sourced
      <4> HIDE DEF static
      <4>3. info'.source = "flags" /\ info'.path = <<>> /\ info'.entrypoints = static.entrypoints
        BY <1>1, <4>1 DEF EmptyInfo
      <4> QED BY <1>4, <4>2, <4>3 DEF IsSourced, Argued
    <3>4. CASE Workload.flags = <<>> /\ Workload.env # <<>>
      <4> DEFINE static == Head(Workload.env)
      <4>1. info' = [info EXCEPT !.source = "env", !.entrypoints = static.entrypoints,
                                 !.provider = static.provider]
        BY <1>8, <3>4 DEF FromArguments
      <4>2. Sourced(tree, Workload) = Argued("env", static)
        BY <3>1, <3>4 DEF Sourced
      <4> HIDE DEF static
      <4>3. info'.source = "env" /\ info'.path = <<>> /\ info'.entrypoints = static.entrypoints
        BY <1>1, <4>1 DEF EmptyInfo
      <4> QED BY <1>4, <4>2, <4>3 DEF IsSourced, Argued
    <3> QED BY <3>2, <3>3, <3>4
  <2> QED BY <1>8, <2>1 DEF Decided, Before
<1> QED BY <1>2, <1>6, <1>7, <1>8

\* What is read of the first candidate is what Traefik's kernel finds there.
LEMMA TakenIsThere ==
  ASSUME FilesInv, Decided, call = "reading", read.at = "done", read.got # None, Steady, OwnPaths
  PROVE  LET w == InContainer(tree, Mounts, info.path)
         IN  /\ Sourced(tree, Workload) = SourcedAt(tree, info.path, w)
             /\ Regular(tree, w) /\ Here(w) = read.got
<1> DEFINE path == info.path
           w == InContainer(tree, Mounts, path)
           u == Uncovered(tree, Mounts, path)
<1>1. /\ load # <<>> /\ IsWorkload(Case.tree, Workload) /\ ArePlaces(Mounts)
      /\ Current = Locate(Mounts, path) /\ Current.path = path /\ path \in Seq(STRING)
      /\ Current.mount # NoMount => Current.mount \in DOMAIN Mounts
  <2>1. Current = Locate(Mounts, path) /\ path \in Seq(STRING)
    BY DEF Current, FilesInv, Traced
  <2>2. load # <<>> /\ IsWorkload(Case.tree, Workload) /\ ArePlaces(Mounts)
        /\ (Current.mount # NoMount => Current.mount \in DOMAIN Mounts)
    BY CurrentIs DEF FilesInv
  <2>3. Locate(Mounts, path).path = path
    BY <2>1, <2>2, LocateIs
  <2> QED BY <2>1, <2>2, <2>3
<1>2. FirstThere
  BY DEF Decided
<1>3. /\ Sourced(tree, Workload) = SourcedAt(tree, path, w)
      /\ path \in ToSet(CandidatePaths(Workload))
  BY <1>1, <1>2, SourceOfFirst DEF IsWorkload
<1>4. OwnMount(tree, Mounts, path)
  BY <1>3 DEF OwnPaths
<1>5. /\ read.got \in DOMAIN Case.tree /\ Case.tree[read.got].kind = "file"
      /\ \/ Bound /\ placement = "here"
         \/ /\ Current.mount # NoMount /\ Mounts[Current.mount].kind = "config"
            /\ read.got = Mounts[Current.mount].source
  BY DEF FilesInv, Tracked, UnderWay, ReadFrom
<1>6. tree = Case.tree /\ IsTree(tree) /\ IsMounted(tree, Mounts)
  BY <1>1 DEF FilesInv, Deployed, IsWorkload, Mounts
<1>7. w.err = Fine /\ Here(w) = read.got
  <2>1. CASE Bound /\ placement = "here"
    <3>1. Owned(tree, read, w)
      BY <1>1, <1>4, <2>1, ReadIsOwned
    <3> QED BY <3>1 DEF Owned
  <2>2. CASE /\ Current.mount # NoMount /\ Mounts[Current.mount].kind = "config"
             /\ read.got = Mounts[Current.mount].source
    <3>1. Locate(Mounts, path).rest = <<>>
      BY <1>1, <2>2, ConfigRest
    <3>2. u.err = Fine /\ Here(u) = MountRoot(tree, Mounts[Current.mount])
      BY <1>1, <1>6, <2>2, <3>1, AtTarget
    <3>3. Here(u) = read.got
      BY <2>2, <3>2 DEF MountRoot
    <3>4. w = u
      BY <1>4 DEF OwnMount
    <3> QED BY <3>2, <3>3, <3>4
  <2> QED BY <1>5, <2>1, <2>2
<1>8. Regular(tree, w)
  BY <1>5, <1>6, <1>7 DEF Regular
<1> QED BY <1>3, <1>7, <1>8

LEMMA TakeStaticDecides ==
  ASSUME Inv, FilesInv, Decided, TakeStatic
  PROVE  Decided'
<1>1. /\ call = "reading" /\ read.at = "done" /\ call' = "provider" /\ info.source = Unset
      /\ DOMAIN info = DOMAIN EmptyInfo /\ UNCHANGED <<tree, changes, daemon, load>>
  BY DEF TakeStatic, Goes, Decided, Inv, LabelsListed
<1>2. CASE read.got = None \/ Document.state = "broken"
  <2>1. \E p : info' = [info EXCEPT !.problem = p]
    BY <1>2 DEF TakeStatic
  <2>2. info'.source = Unset
    BY <1>1, <2>1 DEF EmptyInfo
  <2> QED BY <1>1, <2>2, DecidedNot DEF Before
<1>3. CASE read.got # None /\ Document.state # "broken"
  <2> DEFINE static == Document.static
             problem == IF static.entrypoints = {} THEN "declares no entrypoints" ELSE Unset
  <2>1. info' = [info EXCEPT !.source = "file", !.entrypoints = static.entrypoints,
                             !.provider = static.provider, !.problem = problem]
    BY <1>3 DEF TakeStatic
  <2>2. static = tree[read.got].doc.static
    BY DEF Document
  <2> HIDE DEF static, problem
  <2>3. /\ info'.source = "file" /\ info'.path = info.path
        /\ info'.entrypoints = static.entrypoints
    BY <1>1, <2>1 DEF EmptyInfo
  <2>4. (OwnPaths' <=> OwnPaths) /\ Workload' = Workload /\ (Steady' <=> Steady)
    BY <1>1, OwnPathsStay DEF Steady
  <2>5. Sourced(tree, Workload)' = Sourced(tree, Workload)
    BY <1>1, <2>4
  <2>6. ASSUME Steady', OwnPaths'  PROVE  IsSourced(Sourced(tree, Workload))'
    <3> DEFINE w == InContainer(tree, Mounts, info.path)
    <3>1. /\ Sourced(tree, Workload) = SourcedAt(tree, info.path, w)
          /\ Regular(tree, w) /\ Here(w) = read.got
      BY <1>1, <1>3, <2>4, <2>6, TakenIsThere
    <3> HIDE DEF w
    <3>2. Sourced(tree, Workload) = [source |-> "file", path |-> info.path, static |-> static]
      BY <2>2, <3>1 DEF SourcedAt
    <3> QED BY <2>3, <2>5, <3>2 DEF IsSourced
  <2> QED BY <1>1, <2>6 DEF Decided, Before
<1> QED BY <1>2, <1>3

\* The listings and what is asked before a file is looked for.
LEMMA EarlyDecides ==
  ASSUME Inv, Decided,
         ListServices \/ ListContainers \/ AskState \/ ListConfigs \/ Found \/ Absolute
  PROVE  Decided'
<1>1. /\ call \in Before /\ info.source = Unset /\ info.path = <<>>
      /\ DOMAIN info = DOMAIN EmptyInfo
  BY DEF ListServices, ListContainers, AskState, ListConfigs, Found, Absolute, Decided, Before,
         Inv, LabelsListed
<1>2. info'.source = info.source /\ info'.path = info.path
  BY <1>1 DEF ListServices, ListContainers, AskState, ListConfigs, Found, Absolute, Undecided,
              EmptyInfo
<1>3. call' \in Before \cup {"provider", "done"}
  BY DEF ListServices, ListContainers, AskState, ListConfigs, Found, Absolute, Undecided, Goes,
         Before
<1> QED BY <1>1, <1>2, <1>3, DecidedNot

LEMMA FilesDecide ==
  ASSUME Inv, Decided, ListFiles \/ TakeFile \/ EndFiles
  PROVE  Decided'
<1>1. DOMAIN info = DOMAIN EmptyInfo
  BY DEF Inv, LabelsListed
<1>2. /\ UNCHANGED <<tree, changes, daemon, load>>
      /\ call \in {"provider", "files"} /\ call' \in {"provider", "files", "done"}
  BY DEF ListFiles, TakeFile, EndFiles, fileVars, Goes
<1>3. /\ info'.source = info.source /\ info'.path = info.path
      /\ info'.entrypoints = info.entrypoints /\ info'.problem = info.problem
  BY <1>1 DEF ListFiles, TakeFile, EndFiles, EmptyInfo
<1> QED BY <1>2, <1>3, DecidedStays

LEMMA SurpriseDecides ==
  ASSUME Inv, Decided, Surprise
  PROVE  Decided'
<1>1. info'.problem = "could not be read" /\ call' = "done"
  BY DEF Surprise, Goes, Inv, LabelsListed, EmptyInfo
<1> QED BY <1>1 DEF Decided, Before

LEMMA ChangeDecides ==
  ASSUME Inv, FilesInv, Decided, Change, UNCHANGED <<daemon, login, call, load, info>>
  PROVE  Decided'
<1>1. ~ Steady'
  BY DeployedChanges DEF Inv, FilesInv
<1> QED BY <1>1 DEF Decided

LEMMA DecidedKept == Inv /\ FilesInv /\ Decided /\ [Next]_vars => Decided'
<1> SUFFICES ASSUME Inv, FilesInv, Decided, [Next]_vars  PROVE  Decided'
  OBVIOUS
<1>1. CASE BeginPass
  <2>1. call' = "services" /\ info'.source = Unset /\ info'.path = <<>>
    BY <1>1 DEF BeginPass, EmptyInfo
  <2> QED BY <2>1, DecidedNot DEF Before
<1>2. CASE UNCHANGED <<tree, changes, daemon, load, info, call>>
  BY <1>2, DecidedStays
<1>3. CASE Load \/ CollectSwarm \/ AskApi \/ Fail \/ Draw \/ Rest \/ UNCHANGED vars
  <2>1. UNCHANGED <<tree, changes, daemon, load, info, call>>
    BY <1>3 DEF Load, CollectSwarm, AskApi, Fail, Draw, Rest, vars, traefikVars, fileVars
  <2> QED BY <1>2, <2>1
<1>4. CASE Wiring
  <2>1. CASE ListServices \/ ListContainers \/ AskState \/ ListConfigs \/ Found \/ Absolute
    BY <2>1, EarlyDecides
  <2>2. CASE Search
    BY <2>2, SearchDecides
  <2>3. CASE TakeStatic
    BY <2>3, TakeStaticDecides
  <2>4. CASE ListFiles \/ TakeFile \/ EndFiles
    BY <2>4, FilesDecide
  <2>5. CASE Surprise
    BY <2>5, SurpriseDecides
  <2>6. CASE Change /\ UNCHANGED <<daemon, faults, call, state, placement, load, queue, info>>
    BY <1>4, <2>6, ChangeDecides DEF Wiring, cfgVars
  <2>7. CASE \/ AskPlacement \/ ReadStatic \/ ReadFile
             \/ ReadStep /\ UNCHANGED <<daemon, faults, call, state, placement, load, queue, info>>
    <3>1. UNCHANGED <<tree, changes, daemon, load, info, call>>
      BY <2>7 DEF AskPlacement, ReadStatic, ReadFile, ReadStep, fileVars
    <3> QED BY <1>2, <3>1
  <2> QED BY <1>4, <2>1, <2>2, <2>3, <2>4, <2>5, <2>6, <2>7 DEF Wiring, CollectTraefik
<1> QED BY <1>1, <1>3, <1>4 DEF Next

LEMMA DecidedIsTraefiks ==
  ASSUME Decided
  PROVE  StaticIsTraefiks
BY TraefikIsSourced DEF Decided, StaticIsTraefiks, IsSourced, OwnPaths

-----------------------------------------------------------------------------
(* Theorems.                                                               *)

\* The invariant, of what is shown, of the files and of what was decided, is inductive.
THEOREM Invariance == Spec => [](Inv /\ FilesInv /\ Decided)
<1>1. Init => Inv /\ FilesInv /\ Decided
  <2>1. Init => Decided
    BY DEF Init, Decided, Before, EmptyInfo
  <2> QED BY <2>1, InitHolds, FilesBegin
<1>2. Inv /\ FilesInv /\ Decided /\ [Next]_vars => Inv' /\ FilesInv' /\ Decided'
  BY InvKept, FilesKept, DecidedKept
<1> QED BY <1>1, <1>2, PTL DEF Spec

\* Follow mode leaves at least half of the wall clock to the host, for any interval it
\* is told to keep and passes of any length (next_delay).
THEOREM HalfIsLeft == Spec => []PanelTakesHalf
<1>1. Inv => PanelTakesHalf
  BY DEF Inv, Paid, PanelTakesHalf
<1> QED BY <1>1, Invariance, PTL

\* No router that a label declares goes missing without a line that says why, for any
\* services and containers and whatever call of the daemon fails.
THEOREM LabelsWereDrawn == Spec => []LabelsAreDrawn
<1>1. Inv => LabelsAreDrawn
  BY DEF Inv
<1> QED BY <1>1, Invariance, PTL

\* No value of the file is replaced or inverted without a word, for any file and any value
\* of it (_Reader, ConfigProblem), save by the accessors that are silent.
THEOREM UsedWasWritten == Spec => []WhatIsUsedIsWritten
<1>1. ASSUME Inv  PROVE WhatIsUsedIsWritten
  <2> SUFFICES ASSUME phase # "start", Case.file.state = "toml",
                      NEW name \in DOMAIN Case.file.values
               PROVE  Written(Settings[name], Case.file.values[name], cfg.read[name])
    BY DEF WhatIsUsedIsWritten, Written
  <2>1. cfg = LoadConfig(Case.file)
    BY <1>1 DEF Inv, Configured
  <2>2. cfg.read = [key \in DOMAIN Case.file.values |->
                      Setting(Settings[key], Case.file.values[key])]
    <3> DEFINE file == Case.file
    <3>1. file.state = "toml" /\ cfg = LoadConfig(file)
      BY <2>1
    <3> HIDE DEF file
    <3>2. cfg.read = [key \in DOMAIN file.values |-> Setting(Settings[key], file.values[key])]
      BY <3>1, ReadOf
    <3> QED BY <3>2 DEF file
  <2>3. cfg.read[name] = Setting(Settings[name], Case.file.values[name])
    BY <2>2
  <2>4. Settings[name].accessor \in Accessors /\ Case.file.values[name] \in RawValue
    BY <1>1, CaseOf, SettingRows DEF Inv, Configured
  <2> QED BY <2>3, <2>4, SettingIsWritten
<1> QED BY <1>1, Invariance, PTL

\* The read that follows links only as far as the source of its mount: whatever is
\* deployed between any two of its calls, what it opens lay below that source when the
\* read began or later (_resolved_below_root, _open_below_root), for any tree and mounts.
THEOREM StaysInside == Spec => []NeverOutside
<1>1. FilesInv => NeverOutside
  BY DEF FilesInv, Tracked, Inside, NeverOutside
<1> QED BY <1>1, Invariance, PTL

\* While nothing is deployed, the file that is read on the host is the one the kernel
\* finds at that path in the container, and it is missing only where the container has
\* none (_resolved_below_root: "as the kernel does"), for any tree, mounts and links.
THEOREM ReadsAsContainer == Spec => []ReadIsContainers
<1>1. FilesInv => ReadIsContainers
  BY FilesAreRead
<1> QED BY <1>1, Invariance, PTL

\* While nothing is deployed, the static configuration that is drawn is the one Traefik
\* starts with, of the file, the flags or the environment (_find_static_file,
\* _read_static), for any workload and whatever call of the daemon fails.
THEOREM StaticWasTraefiks == Spec => []StaticIsTraefiks
<1>1. Decided => StaticIsTraefiks
  BY DecidedIsTraefiks
<1> QED BY <1>1, Invariance, PTL
=============================================================================
