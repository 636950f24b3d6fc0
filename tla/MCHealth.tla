------------------------------ MODULE MCHealth ------------------------------
(* Instances of Health for TLC. *)
EXTENDS Health

MCDockerKinds == {"postgres", "kafka"}

Hosts(lists, clients, dockers, givens, answering) ==
    [enabled : lists, client : clients, docker : dockers, given : givens,
     answers : answering]

\* Every way a check is run, with kinds that are configured twice, and two
\* probes that share the index.  (Without fairness a daemon may stop answering
\* whatever `answers` says.)
MCHosts ==
    Hosts({<<"postgres", "glusterfs", "postgres", "systemd", "vrrp", "systemd">>},
          BOOLEAN, BOOLEAN, BOOLEAN, {TRUE})
      \cup Hosts({<<"postgres", "kafka">>}, BOOLEAN, {TRUE}, {TRUE}, {TRUE})

\* With a daemon that answers: two probes that share the container listings, and
\* one next to two checks that share the node list.  With one that hangs: checks
\* that need it next to checks that do not.
MCLiveHosts ==
    Hosts({<<"postgres", "kafka">>}, {TRUE}, {TRUE}, {TRUE}, {TRUE})
      \cup Hosts({<<"postgres">>}, {TRUE}, {TRUE}, {FALSE}, {TRUE})
      \cup Hosts({<<"postgres", "glusterfs">>}, {TRUE}, {TRUE}, {TRUE}, {FALSE})
      \cup Hosts({<<"glusterfs">>}, BOOLEAN, {TRUE}, {FALSE}, {FALSE})

\* Hosts with and without Docker, with and without anything enabled.
MCShownHosts ==
    Hosts({<<>>, <<"systemd", "systemd", "vrrp">>, <<"kafka", "glusterfs">>},
          BOOLEAN, BOOLEAN, BOOLEAN, {TRUE})
=============================================================================
