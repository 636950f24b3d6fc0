------------------------------- MODULE Config -------------------------------
(***************************************************************************)
(* config.py: what a setting is worth, given what the TOML file says.      *)
(*                                                                         *)
(* A value of the file is a record: a number, a number and a half, `inf`,   *)
(* `nan`, an integer too large for a float (`huge`), a boolean, a text (a  *)
(* number in quotes, a word, a URL), a list or a table.  Floats are in     *)
(* tenths.  A setting has its accessor of _Reader, its default, its limits *)
(* and the names it allows.                                                *)
(***************************************************************************)
EXTENDS Integers, SequencesExt

Nothing    == [is |-> "nothing"]
Num(n)     == [is |-> "number", n |-> n]
Half(n)    == [is |-> "half", n |-> n]
Infinite   == [is |-> "inf"]
NotANumber == [is |-> "nan"]
Huge       == [is |-> "huge"]
Bool(b)    == [is |-> "bool", b |-> b]
Yes        == Bool(TRUE)
No         == Bool(FALSE)
Word(w)    == [is |-> "word", word |-> w]
Blank      == Word("")
Digits(n)  == [is |-> "digits", n |-> n]
List(s)    == [is |-> "list", items |-> s]
Dict       == [is |-> "table"]

Words(names) == List([i \in DOMAIN names |-> Word(names[i])])

\* What the file may give a setting.
Scalar ==
    [is : {"number", "half", "digits"}, n : Int] \cup [is : {"bool"}, b : BOOLEAN]
      \cup [is : {"word"}, word : STRING] \cup [is : {"inf", "nan", "huge", "table"}]
RawValue == Scalar \cup [is : {"list"}, items : Seq(Scalar)]

-----------------------------------------------------------------------------
(* The settings.                                                           *)

HealthKinds    == <<"postgres", "mongodb", "kafka", "glusterfs", "rustfs", "systemd", "vrrp",
                    "apache">>
SectionNames   == <<"server", "health", "trouble", "docker", "traefik">>
HostEventKinds == <<"oom_kill", "vrrp_state", "apache_slots_full", "unit_failed", "apache_reload">>

Of(accessor, default) ==
    [accessor |-> accessor, default |-> default, minimum |-> Nothing, clamp |-> Nothing,
     allowed |-> {}]
AtLeast(n, default) == [Of("number", Num(default)) EXCEPT !.minimum = Num(n)]
Optional(n, default) == [AtLeast(n, default) EXCEPT !.accessor = "optional"]
WholeFrom(n, default) == [Of("integer", Num(default)) EXCEPT !.minimum = Num(n)]
ClampedTo(n, default) == [Of("integer", Num(default)) EXCEPT !.clamp = Num(n)]
OneOf(words) == [Of("choice", Word(Head(words))) EXCEPT !.allowed = {Word(w) : w \in ToSet(words)}]
SomeOf(words, default) ==
    [Of("members", default) EXCEPT !.allowed = {Word(w) : w \in ToSet(words)}]

\* A table of settings, each with its name.
Named(rows) == [name \in {r[1] : r \in rows} |-> (CHOOSE r \in rows : r[1] = name)[2]]

\* Thresholds
Plain(n) == Of("number", Num(n))
Thresholds ==
    {<<"thresholds.memory.warning", Plain(750)>>, <<"thresholds.memory.critical", Plain(900)>>,
     <<"thresholds.swap.warning", Plain(10)>>, <<"thresholds.filesystem.warning", Plain(800)>>,
     <<"thresholds.filesystem.critical", Plain(900)>>, <<"thresholds.load.warning", Plain(8)>>,
     <<"thresholds.load.critical", Plain(10)>>, <<"thresholds.psi.warning", AtLeast(0, 100)>>,
     <<"thresholds.psi.critical", AtLeast(0, 250)>>}

\* _host_kind_configs: a threshold of Apache's may be left out.
HostKinds ==
    {<<"health.apache.url", Of("url", Nothing)>>,
     <<"health.apache.requests_warning", Optional(0, -10)>>,
     <<"health.apache.requests_critical", Optional(0, -10)>>,
     <<"health.apache.slots_warning", AtLeast(0, 800)>>,
     <<"health.apache.slots_critical", AtLeast(0, 950)>>,
     <<"health.vrrp.lead_warning", Of("integer", Num(5))>>,
     <<"health.vrrp.lead_critical", Of("integer", Num(0))>>,
     <<"health.systemd.ignore", Of("patterns", List(<<>>))>>}

\* DEFAULT_HEALTH_TIMEOUTS
Timeouts ==
    {<<"health.timeout.postgres", AtLeast(0, 15)>>,
     <<"health.timeout.mongodb", AtLeast(0, 60)>>, <<"health.timeout.kafka", AtLeast(0, 40)>>,
     <<"health.timeout.glusterfs", AtLeast(0, 10)>>,
     <<"health.timeout.rustfs", AtLeast(0, 20)>>, <<"health.timeout.systemd", AtLeast(0, 10)>>,
     <<"health.timeout.wireguard", AtLeast(0, 10)>>, <<"health.timeout.dns", AtLeast(0, 25)>>}

\* PostgresProbe, MongoProbe, KafkaProbe, RustfsProbe
Probes ==
    {<<"health.postgres.match", Of("patterns", Words(<<"_pg-">>))>>,
     <<"health.mongodb.match", Of("patterns", Words(<<"mongodb">>))>>,
     <<"health.kafka.match", Of("patterns", Words(<<"kafka_kafka-">>))>>,
     <<"health.rustfs.match", Of("patterns", Words(<<"rustfs_rustfs">>))>>,
     <<"health.postgres.mode", OneOf(<<"pg_auto_failover", "standalone">>)>>,
     <<"health.kafka.command_config", Of("text", Word("/client.properties"))>>,
     <<"health.rustfs.scheme", OneOf(<<"https", "http">>)>>}

\* _health_config
HealthKeys ==
    {<<"health.budget", AtLeast(1, 80)>>, <<"health.enabled", Of("kinds", Words(HealthKinds))>>}
      \cup Timeouts \cup Probes \cup HostKinds

\* _managed_config
Managed ==
    {<<"managed.by", Of("text", Blank)>>, <<"managed.detail", Of("text", Blank)>>,
     <<"managed.repository", Of("url", Nothing)>>}

\* load_config
DockerKeys ==
    {<<"docker.timeout", AtLeast(1, 15)>>, <<"docker.df_timeout", AtLeast(1, 40)>>,
     <<"docker.description_label", Of("text", Word("status.description"))>>,
     <<"docker.group_label", Of("text", Word("status.group"))>>,
     <<"docker.show_image", Of("flag", Yes)>>,
     <<"docker.legend", Of("flag", Yes)>>,
     <<"docker.infrastructure_stacks", Of("list", Words(<<"postgresql", "kafka">>))>>,
     <<"docker.infra_ui_services", Of("list", Words(<<"kafka-ui">>))>>,
     <<"services.critical", Of("list", List(<<>>))>>}
HostKeys ==
    {<<"resources.ignore_mountpoints", Of("list", List(<<>>))>>,
     <<"resources.process_sample", Plain(3)>>, <<"resources.top_processes", ClampedTo(0, 5)>>,
     <<"traefik.match", Of("patterns", Words(<<"traefik_traefik">>))>>,
     <<"traefik.links", Of("link", Nothing)>>,
     <<"trouble.host_events", SomeOf(HostEventKinds, Words(HostEventKinds))>>}
Table ==
    {<<"width", WholeFrom(20, 80)>>, <<"sections", SomeOf(SectionNames, List(<<>>))>>,
     <<"follow.interval", AtLeast(1, 50)>>, <<"follow.health_interval", AtLeast(1, 200)>>}
      \cup DockerKeys \cup HostKeys \cup Thresholds \cup HealthKeys \cup Managed

Settings == Named(Table)

-----------------------------------------------------------------------------
(* The accessors. `noted` is a problem --debug reports.                    *)

Taken(v) == [value |-> v, noted |-> FALSE, raises |-> FALSE]
Noted(v) == [value |-> v, noted |-> TRUE, raises |-> FALSE]
Raised   == [value |-> Nothing, noted |-> FALSE, raises |-> TRUE]
Falls(s) == Noted(s.default)

IsText(raw)     == raw.is \in {"word", "digits"}
IsNumber(raw)   == raw.is \in {"number", "half", "digits"}
Under(n, limit) == limit # Nothing /\ n < limit.n

\* _Reader.number: float() of an integer that is too large is an OverflowError,
\* which is neither of the two errors that are caught.
Number(s, raw) ==
    IF raw.is = "huge" THEN Raised
    ELSE IF ~ IsNumber(raw) \/ Under(raw.n, s.minimum) THEN Falls(s)
    ELSE Taken(IF raw.is = "half" THEN raw ELSE Num(raw.n))

\* _optional_number: what is left out colours nothing, and so does what is wrong.
OptionalNumber(s, raw) ==
    IF Number(s, raw).noted THEN Noted(Nothing) ELSE Number(s, raw)

\* _Reader.integer: int() drops the fraction, and raises OverflowError on `inf`.
Integer(s, raw) ==
    IF raw.is = "inf" THEN Raised
    ELSE IF raw.is = "huge" THEN Taken(Huge)
    ELSE IF ~ IsNumber(raw) THEN Falls(s)
    ELSE IF Under(raw.n, s.clamp) THEN Taken(s.clamp)
    ELSE IF Under(raw.n, s.minimum) THEN Falls(s)
    ELSE Taken(Num(raw.n))

\* mutant: a boolean in quotes is read as bool() reads it.
Flag_Truthy(s, raw) ==
    IF raw.is = "bool" THEN Taken(raw)
    ELSE IF IsText(raw) THEN Taken(Bool(raw # Blank))
    ELSE Falls(s)

\* _Reader.flag
Flag(s, raw) ==
    CASE raw.is = "bool"                                        -> Taken(raw)
      [] raw \in {Word("true"), Word("yes"), Word("on"), Digits(1)}  -> Taken(Yes)
      [] raw \in {Word("false"), Word("no"), Word("off"), Digits(0)} -> Taken(No)
      [] OTHER                                                  -> Falls(s)

\* _Reader.text, _Reader.choice
Text(s, raw)   == IF IsText(raw) THEN Taken(raw) ELSE Falls(s)
Choice(s, raw) == IF raw \in s.allowed THEN Taken(raw) ELSE Falls(s)

\* A list without the entries that may not be in it; those `kept` stay where the file
\* has them.
Filtered(items, kept) ==
    [Taken(List(Restrict(items, kept))) EXCEPT !.noted = kept # DOMAIN items]

\* _Reader.patterns: the empty one would match every name.
Patterns(s, raw) ==
    LET entries == IF IsText(raw) THEN <<raw>> ELSE raw.items
        good == {i \in DOMAIN entries : IsText(entries[i]) /\ entries[i] # Blank}
    IN  IF IsText(raw) \/ raw.is = "list" THEN Filtered(entries, good) ELSE Falls(s)

\* _Reader.members: a name that is repeated is kept once.
Members(s, raw) ==
    LET allowed == {i \in DOMAIN raw.items : raw.items[i] \in s.allowed}
        once == {i \in allowed : \A j \in allowed : raw.items[j] = raw.items[i] => i <= j}
    IN  IF raw.is # "list" THEN Falls(s)
        ELSE [Filtered(raw.items, allowed) EXCEPT !.value = List(Restrict(raw.items, once))]

\* _list_setting: what is neither a list nor a string is silently the default;
\* and so is, for `health.enabled`, a string.
ListSetting(s, raw) ==
    IF raw.is = "list" THEN Taken(raw)
    ELSE IF IsText(raw) /\ s.accessor = "list" THEN Taken(List(<<raw>>))
    ELSE Taken(s.default)

\* _web_url: urlsplit raises a ValueError on a bracket that is not closed. A
\* link that is none is dropped silently.
Url(s, raw) ==
    IF raw = Word("http://[") THEN Raised
    ELSE IF raw = Word("http://host") THEN Taken(raw)
    ELSE [Falls(s) EXCEPT !.noted = s.accessor = "url"]

Setting(s, raw) ==
    CASE s.accessor = "number"           -> Number(s, raw)
      [] s.accessor = "optional"         -> OptionalNumber(s, raw)
      [] s.accessor = "integer"          -> Integer(s, raw)
      [] s.accessor = "flag"             -> Flag(s, raw)
      [] s.accessor = "text"             -> Text(s, raw)
      [] s.accessor = "choice"           -> Choice(s, raw)
      [] s.accessor = "patterns"         -> Patterns(s, raw)
      [] s.accessor = "members"          -> Members(s, raw)
      [] s.accessor \in {"list", "kinds"} -> ListSetting(s, raw)
      [] s.accessor \in {"url", "link"}   -> Url(s, raw)

\* load_config: a file that is not there is no problem; one that cannot be read
\* or is no TOML is one; one that is no UTF-8 is a ValueError nobody catches.
\* `unknown` says that a table holds a key nothing reads; a setting that is not
\* among those `read` has its default.
LoadConfig(file) ==
    LET read == [name \in DOMAIN file.values |-> Setting(Settings[name], file.values[name])]
        any(what) == \E name \in DOMAIN read : read[name][what]
    IN  IF file.state # "toml"
        THEN [raises |-> file.state = "not UTF-8", noted |-> file.state # "absent", read |-> <<>>]
        ELSE [raises |-> any("raises"), noted |-> file.unknown \/ any("noted"), read |-> read]

-----------------------------------------------------------------------------
(* What the file says.                                                     *)

\* The words for a boolean, in small letters and without the blanks around them.
WordsFor(b) ==
    IF b THEN {Word("true"), Word("yes"), Word("on"), Digits(1)}
         ELSE {Word("false"), Word("no"), Word("off"), Digits(0)}

\* Two values that say the same: for a number one in quotes, for a whole one what is
\* before its fraction, and for a count that is negative none, as is documented; for a
\* flag a word for the same boolean; for a list one entry without brackets, or the entries
\* without their repetitions.
SaysTheSame(s, raw, value) ==
    \/ value = raw
    \/ /\ s.accessor \in {"number", "optional", "integer"}
       /\ raw.is = "digits" /\ value = Num(raw.n)
    \/ s.accessor = "integer" /\ raw.is = "half" /\ value = Num(raw.n)
    \/ IsNumber(raw) /\ Under(raw.n, s.clamp) /\ value = s.clamp
    \/ s.accessor = "flag" /\ \E b \in BOOLEAN : raw \in WordsFor(b) /\ value = Bool(b)
    \/ s.accessor = "patterns" /\ IsText(raw) /\ value = List(<<raw>>)
    \/ /\ s.accessor \in {"patterns", "members"} /\ raw.is = "list" /\ value.is = "list"
       /\ ToSet(raw.items) = ToSet(value.items)

\* The settings whose wrong values are dropped without a word.
Silent(s) == s.accessor \in {"list", "kinds", "link"}
=============================================================================
