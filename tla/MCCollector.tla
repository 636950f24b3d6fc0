---------------------------- MODULE MCCollector -----------------------------
(* Instances of Collector for TLC. *)
EXTENDS Collector

Hosts(sources, keepaliveds, webs, apts) ==
    [enabled : sources, keepalived : keepaliveds, web : webs, apt : apts]

\* Keepalived with and without the kind enabled; a web server; apt.
MCConfigs ==
    Hosts({{"vrrp"}, {}}, {TRUE}, {FALSE}, {FALSE})
      \cup Hosts({{"apache", "vrrp"}}, {FALSE}, {TRUE}, {FALSE})
      \cup Hosts({{"vrrp"}}, {FALSE}, {FALSE}, {TRUE})
=============================================================================
