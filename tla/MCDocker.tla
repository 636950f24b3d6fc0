------------------------------- MODULE MCDocker -----------------------------
(* Instances of Docker for TLC. *)
EXTENDS Docker

Lists(S, longest) == UNION {[1..n -> S] : n \in 0..longest}

PgRows == [tli : {NoTli, 4, 5}, lsn : {NoLsn, 1}, reported : {"primary", "secondary", "other"},
           moving : {FALSE}]
LagRows == [tli : {5}, lsn : {NoLsn, 1, 2}, reported : {"primary", "secondary"},
            moving : BOOLEAN]
Postgres ==
    [of : {"pg_autoctl"}, rows : Lists(PgRows, 2) \cup Lists(LagRows, 2)
        \cup [1..3 -> [tli : {4, 5}, lsn : {1}, moving : {FALSE},
                       reported : {"primary", "secondary", "other"}]]]
      \cup [of : {"pg_isready"}, ready : BOOLEAN]

Mongo ==
    [of : {"mongosh"}, set : BOOLEAN, hosts : {<<>>, <<1>>, <<1, 2>>}, primary : {NoOne, 2},
     me : {1}, states : [1..2 -> {"unasked"} \cup DOMAIN MongoStates]]

Kafka ==
    {a \in [of : {"kafka"}, form : {"status", "changed", "other"}, leader : {NoOne, 1, 2, 3},
            voters : {<<>>, <<1>>, <<1, 2>>}, observers : {<<>>, <<3>>}] : IsAnswer(a)}

Nodelike == [host : {1}, online : BOOLEAN, daemon : BOOLEAN]
Glusters ==
    [of : {"gluster"}, peers : Lists(BOOLEAN, 3),
     volumes : {<<>>} \cup {<<v>> : v \in Lists(Nodelike, 2)}
                 \cup {<<v, <<[host |-> 2, online |-> FALSE, daemon |-> FALSE]>>>> :
                          v \in Lists(Nodelike, 1)}]

Curls == [of : {"curl"}, guessed : {TRUE}, live : Lists(BOOLEAN, 1) \ {<<>>}]
           \cup [of : {"curl"}, guessed : {FALSE}, live : Lists(BOOLEAN, 4) \ {<<>>}]

Answers ==
    Postgres \cup Mongo \cup Kafka \cup Glusters \cup Curls
      \cup [of : {"failure", "elsewhere"}]

-----------------------------------------------------------------------------
(* Services of Swarm, from the counts of their tasks. The clock starts at  *)
(* Window + 1: what was at 0 is before the window.                         *)

Times(n, task) == [k \in 1..n |-> task]
Tasks(running, starting, down, unassigned) ==
    Times(running, [state |-> "running", placed |-> TRUE, err |-> FALSE, at |-> 0])
      \o Times(starting, [state |-> "preparing", placed |-> TRUE, err |-> FALSE, at |-> 0])
      \o Times(down, [state |-> "failed", placed |-> TRUE, err |-> FALSE, at |-> 0])
      \o Times(unassigned, [state |-> "pending", placed |-> FALSE, err |-> FALSE, at |-> 0])

Plain(replicas, tasks) ==
    [key |-> <<"s", "db">>, stack |-> <<"s">>, group |-> Unlabelled, ui |-> FALSE, job |-> FALSE,
     replicas |-> replicas, tasks |-> tasks, ended |-> [k \in DOMAIN tasks |-> <<>>]]

Services ==
    {Plain(c[1], Tasks(c[2], c[3], c[4], c[5])) :
        c \in {Global, 0, 2} \X (0..2) \X (0..1) \X (0..1) \X (0..1)}

\* A job with its last run, at one of two times.
Jobs ==
    {[Plain(c[1], Tasks(c[2], 0, 0, 0)) EXCEPT !.job = TRUE, !.ended = <<c[3]>>] :
        c \in (0..1) \X (0..1)
                \X ({<<>>} \cup {<<r>> : r \in [state : {"failed", "complete"}, at : {1, 2}]})}

Case(a, events, broken, mode, ss, cs) ==
    [answer |-> a, life |-> events, faults |-> broken, mode |-> mode, services |-> ss,
     containers |-> cs]

\* Another service of the same row.
Twin(s) == [s EXCEPT !.key = <<"s", "db", "2">>]

\* Every answer with a few rows, and a few answers with every row.
SomeRows == {<<Plain(2, Tasks(n, 0, 0, 0))>> : n \in 0..2}
SomeAnswers ==
    [of : {"failure", "elsewhere"}]
      \cup [of : {"curl"}, guessed : {FALSE}, live : Lists(BOOLEAN, 3) \ {<<>>}]
ManyRows ==
    {<<s>> : s \in Services \cup Jobs}
      \cup {<<j, Twin(k)>> : j \in Jobs, k \in Jobs}
      \cup {<<Plain(2, Tasks(n, m, 0, 0)), Twin(j)>> : n \in 0..2, m \in 0..1, j \in Jobs}

Verdicts ==
    {Case(a, 0, 0, "manager", r, <<>>) : a \in Answers, r \in SomeRows}
      \cup {Case(a, 0, 0, "manager", r, <<>>) : a \in SomeAnswers, r \in ManyRows}
      \cup {Case([of |-> "elsewhere"], 0, 1, "manager", r, <<>>) : r \in SomeRows}

-----------------------------------------------------------------------------
(* Services whose tasks fall, and containers with their memory. *)

Second == Twin(Plain(1, Tasks(1, 0, 0, 0)))
Loner  == [Second EXCEPT !.group = Empty]
Web    == [Second EXCEPT !.key = <<"s", "web">>, !.group = "db", !.ui = TRUE]
Falling ==
    {Case([of |-> "elsewhere"], 5, f, "manager", ss, <<>>) :
        f \in 0..1,
        ss \in {<<Plain(1, Tasks(1, 0, 0, 0))>>, <<Plain(2, Tasks(2, 0, 0, 0))>>,
                <<Plain(Global, Tasks(1, 0, 0, 0))>>}}

Box == [service |-> NotSwarm, project |-> NoProject, name |-> <<"box">>, ui |-> FALSE,
        state |-> "running", nonzero |-> FALSE, health |-> "none", restarts |-> 0,
        started |-> 0, usage |-> 1, limit |-> 2]
Boxes ==
    {Box, [Box EXCEPT !.limit = 0], [Box EXCEPT !.state = "restarting", !.restarts = 1],
     [Box EXCEPT !.state = "exited", !.nonzero = TRUE],
     [Box EXCEPT !.project = <<"p">>, !.usage = 2],
     [Box EXCEPT !.project = <<"p">>, !.name = <<"api">>, !.health = "unhealthy", !.usage = 2],
     [Box EXCEPT !.project = <<"p">>, !.health = "starting", !.restarts = 2, !.started = 2],
     [Box EXCEPT !.project = <<"p">>, !.state = "exited"],
     [Box EXCEPT !.project = <<"p">>, !.state = "exited", !.nonzero = TRUE],
     [Box EXCEPT !.service = <<"s", "db">>], [Box EXCEPT !.service = <<"s", "db">>, !.usage = 2],
     [Box EXCEPT !.service = <<"s", "db", "2">>], [Box EXCEPT !.name = <<"p", "box">>],
     [Box EXCEPT !.project = <<"s">>, !.name = <<"db">>]}
Stacks ==
    {<<Plain(1, Tasks(1, 0, 0, 0))>>, <<Plain(1, Tasks(1, 0, 0, 0)), Second>>,
     <<Plain(0, <<>>), Loner, Web>>}
Local == {c \in Boxes : c.service = NotSwarm}
Hosts ==
    {Case([of |-> "elsewhere"], 0, 1, mode, ss, cs) :
        mode \in {"manager", "worker"}, ss \in Stacks, cs \in Lists(Boxes, 2)}
      \cup {Case([of |-> "elsewhere"], 0, 1, "standalone", <<>>, cs) : cs \in Lists(Local, 2)}
      \cup {Case([of |-> "elsewhere"], 0, 0, "off", <<>>, <<>>)}

MCCases == Verdicts \cup Falling \cup Hosts
=============================================================================
