----------------------------- MODULE Collector ------------------------------
(***************************************************************************)
(* One run of the collector's service after another: the root-side helper  *)
(* data/keepalived-dump (ExecStartPre), status-collect (collector/run.py   *)
(* with vrrp.py, apache.py and apt.py) and ExecStopPost.                   *)
(*                                                                         *)
(* The helper asks keepalived for a dump, which keepalived writes into     *)
(* /tmp when it gets round to it and in several parts; waits until its     *)
(* size has settled; and moves a private copy into the runtime directory.  *)
(* status-collect reads and deletes the copy, asks the web server and apt, *)
(* and replaces the host state file.  The helper or the whole run may be   *)
(* killed at any step.                                                     *)
(*                                                                         *)
(* The state keepalived dumps, and the number of pending updates, are      *)
(* identified with the time they belong to.  journal.py is the subject of  *)
(* Journal and Trouble.                                                    *)
(***************************************************************************)
EXTENDS Integers

CONSTANTS
    Configs,    \* hosts: the enabled sources, of {"vrrp", "apache"}, and whether
                \* there are a keepalived, a web server and apt
    Parts,      \* how many parts keepalived writes a dump in
    MaxPolls,   \* how often the helper looks for it
    Interval,   \* UPDATE_INTERVAL
    MaxClock,   \* BOUND: last time considered
    MaxServed,  \* BOUND: requests ever served
    MaxSignals  \* BOUND: signals keepalived has not served yet

ASSUME CollectorAssumption ==
    /\ \A c \in Configs : /\ DOMAIN c = {"enabled", "keepalived", "web", "apt"}
                          /\ c.enabled \subseteq {"vrrp", "apache"}
                          /\ {c.keepalived, c.web, c.apt} \subseteq BOOLEAN
    /\ {Parts, MaxPolls, Interval} \subseteq Nat \ {0}
    /\ {MaxClock, MaxServed, MaxSignals} \subseteq Nat

Never  == MaxClock + 1      \* later than every time
Absent == [exists |-> FALSE]
Nothing == [given |-> FALSE]

VARIABLES
    clock,      \* the time
    config,     \* the member of Configs this host is
    up,         \* keepalived runs
    signals,    \* signals it has not served yet
    dump,       \* its dump in /tmp
    writing,    \* it is still writing that file
    served,     \* requests the web server ever served
    since,      \* `served` when it was last restarted
    sticky,     \* the runtime directory refuses deletions at the moment
    pc,         \* where the service is
    polls,      \* polls the helper has left
    last,       \* the size it saw last, 0 for none
    work,       \* the copy in its work directory
    copy,       \* the copy in the runtime directory
    totals,     \* apache.json
    state,      \* the HostState of this run
    host,       \* host.json
    wrote       \* history: whether the last run replaced host.json

worldVars  == <<clock, config, up, signals, writing, served, since, sticky>>
helperVars == <<polls, last, work>>
vars == <<worldVars, dump, pc, helperVars, copy, totals, state, host, wrote>>

Enabled(source) == source \in config.enabled

\* `asked` and `kept` are history: when this run's helper turned to keepalived, and
\* whether there was a copy before it did.
NoState == [written_at |-> 0, vrrp |-> Absent, error |-> "none", apache |-> Nothing,
            updates |-> Nothing, asked |-> Never, kept |-> FALSE]

Init ==
    /\ clock = 0
    /\ config \in Configs
    /\ up = config.keepalived
    /\ signals = 0
    /\ dump = Absent
    /\ writing = FALSE
    /\ served = 0
    /\ since = 0
    /\ sticky = FALSE
    /\ pc = "idle"
    /\ polls = MaxPolls
    /\ last = 0
    /\ work = Absent
    /\ copy = Absent
    /\ totals = Nothing
    /\ state = NoState
    /\ host = NoState
    /\ wrote = FALSE

-----------------------------------------------------------------------------
(* keepalived, the web server, the clock. *)

\* keepalived serves a signal: it opens the file anew,
Serve ==
    /\ up /\ signals > 0 /\ ~ writing
    /\ signals' = signals - 1
    /\ dump' = [exists |-> TRUE, of |-> clock, parts |-> 1]
    /\ writing' = (Parts > 1)
    /\ UNCHANGED <<clock, up, served, since, sticky>>

\* and goes on writing it.
WritePart ==
    /\ up /\ writing
    /\ dump' = [dump EXCEPT !.parts = @ + 1]
    /\ writing' = (dump.parts + 1 < Parts)
    /\ UNCHANGED <<clock, up, signals, served, since, sticky>>

\* keepalived is stopped, perhaps in the middle of a dump, or started.
Switch ==
    /\ up' = ~ up
    /\ signals' = 0
    /\ writing' = FALSE
    /\ UNCHANGED <<clock, dump, served, since, sticky>>

Request ==
    /\ served < MaxServed
    /\ served' = served + 1
    /\ UNCHANGED <<clock, up, signals, dump, writing, since, sticky>>

Restart ==
    /\ since' = served
    /\ UNCHANGED <<clock, up, signals, dump, writing, served, sticky>>

Tick ==
    /\ clock < MaxClock
    /\ clock' = clock + 1
    /\ UNCHANGED <<up, signals, dump, writing, served, since, sticky>>

Stick ==
    /\ sticky' = ~ sticky
    /\ UNCHANGED <<clock, up, signals, dump, writing, served, since>>

World ==
    /\ \/ config.keepalived /\ (Serve \/ WritePart \/ Switch \/ Stick)
       \/ config.web /\ (Request \/ Restart)
       \/ Tick
    /\ UNCHANGED <<config, pc, helperVars, copy, totals, state, host, wrote>>

-----------------------------------------------------------------------------
(* The helper: data/keepalived-dump. *)

\* The timer starts the service.
Start ==
    /\ pc = "idle"
    /\ pc' = "helper"
    /\ wrote' = FALSE
    /\ state' = [NoState EXCEPT !.kept = copy.exists]
    /\ UNCHANGED <<worldVars, dump, helperVars, copy, totals, host>>

HelperExits ==
    /\ pc' = "collect"
    /\ polls' = MaxPolls
    /\ last' = 0

\* There is no keepalived to ask.
NobodyToAsk ==
    /\ pc = "helper"
    /\ ~ up
    /\ HelperExits
    /\ UNCHANGED <<worldVars, dump, work, copy, totals, state, host, wrote>>

\* What keepalived still writes into a file that was removed goes nowhere.
Removes == dump' = Absent /\ writing' = FALSE

\* mutant: an old dump is left in place.
Sweeps_Not == UNCHANGED <<dump, writing>>

\* rm -f "$dump", before keepalived is asked.
Sweeps == Removes

Sweep ==
    /\ pc = "helper"
    /\ up
    /\ Sweeps
    /\ state' = [state EXCEPT !.asked = clock]
    /\ pc' = "signal"
    /\ UNCHANGED <<clock, config, up, signals, served, since, sticky, helperVars,
                   copy, totals, host, wrote>>

Signal ==
    /\ pc = "signal"
    /\ IF up
       THEN /\ signals' = IF signals < MaxSignals THEN signals + 1 ELSE signals
            /\ pc' = "poll"
            /\ UNCHANGED <<polls, last>>
       ELSE HelperExits /\ UNCHANGED signals
    /\ UNCHANGED <<clock, config, up, dump, writing, served, since, sticky, work,
                   copy, totals, state, host, wrote>>

Size == IF dump.exists THEN dump.parts ELSE 0

Settled == Size # 0 /\ Size = last

PollsLeft == polls > 0

\* One turn of the loop.  A dump that has not settled in time is left where it is.
Poll ==
    /\ pc = "poll"
    /\ \/ /\ PollsLeft
          /\ polls' = polls - 1
          /\ last' = IF Size # 0 THEN Size ELSE last
          /\ pc' = IF Settled THEN "copy" ELSE "poll"
       \/ ~ PollsLeft /\ HelperExits
    /\ UNCHANGED <<worldVars, dump, work, copy, totals, state, host, wrote>>

\* The dump is copied as far as it goes.
Copy ==
    /\ pc = "copy"
    /\ dump.exists
    /\ work' = dump
    /\ pc' = "move"
    /\ UNCHANGED <<worldVars, dump, polls, last, copy, totals, state, host, wrote>>

\* The copy is moved into place and the dump deleted.
Move ==
    /\ pc = "move"
    /\ copy' = work
    /\ work' = Absent
    /\ Removes
    /\ HelperExits
    /\ UNCHANGED <<clock, config, up, signals, served, since, sticky, totals, state,
                   host, wrote>>

\* It is not a file of root's any more, or there is no work directory: it is left.
Refuse ==
    /\ pc = "copy"
    /\ HelperExits
    /\ UNCHANGED <<worldVars, dump, work, copy, totals, state, host, wrote>>

\* Copying or moving failed.
GiveUp ==
    /\ pc \in {"copy", "move"}
    /\ work' = Absent
    /\ Removes
    /\ HelperExits
    /\ UNCHANGED <<clock, config, up, signals, served, since, sticky, copy, totals,
                   state, host, wrote>>

InHelper == pc \in {"helper", "signal", "poll", "copy", "move"}

\* The helper is killed; the "-" of ExecStartPre lets the run go on.  A work
\* directory it leaves behind is never looked at again.
HelperDies ==
    /\ InHelper
    /\ work' = Absent
    /\ HelperExits
    /\ UNCHANGED <<worldVars, dump, copy, totals, state, host, wrote>>

Helper ==
    \/ NobodyToAsk \/ Sweep \/ Signal \/ Poll
    \/ Copy \/ Move \/ Refuse \/ GiveUp
    \/ HelperDies

-----------------------------------------------------------------------------
(* status-collect: collector/run.py. *)

Becomes(place, next) ==
    /\ pc' = place
    /\ state' = next
    /\ UNCHANGED <<worldVars, dump, helperVars, host, wrote>>

\* main() takes the time.
Begin ==
    /\ pc = "collect"
    /\ Becomes("vrrp", [state EXCEPT !.written_at = clock])
    /\ UNCHANGED <<copy, totals>>

\* remove_dump, and its error code.
Left(file)    == IF sticky THEN file ELSE Absent
Cleanup(code) == IF sticky THEN "cleanup" ELSE code

\* collect_vrrp: nothing there, a copy that cannot be read or is not a whole dump,
\* or the dump; the copy is deleted.  The codes of the former are one here.  Only
\* an exception nobody foresaw leaves it.
Vrrp ==
    /\ pc = "vrrp"
    /\ \/ ~ Enabled("vrrp") /\ Becomes("apache", state) /\ UNCHANGED copy
       \/ /\ Enabled("vrrp") /\ ~ copy.exists
          /\ Becomes("apache", [state EXCEPT !.error = "not-installed"])
          /\ UNCHANGED copy
       \/ /\ Enabled("vrrp") /\ copy.exists
          /\ Becomes("apache", [state EXCEPT !.error = Cleanup("parse")])
          /\ copy' = Left(copy)
       \/ /\ Enabled("vrrp") /\ copy.exists /\ copy.parts = Parts
          /\ Becomes("apache", [state EXCEPT !.vrrp = copy, !.error = Cleanup("none")])
          /\ copy' = Left(copy)
       \/ /\ Enabled("vrrp") /\ copy.exists
          /\ Becomes("apache", [state EXCEPT !.error = "internal"])
          /\ UNCHANGED copy
    /\ UNCHANGED totals

Total == served - since

\* mutant: a total that went down is not noticed.
HasRate_Blind == totals.given /\ state.written_at > totals.at

\* _window_and_rate: there is a window, and the server has not been restarted.
HasRate == /\ totals.given
           /\ state.written_at > totals.at
           /\ Total >= totals.total

\* collect_apache: a failed read, or a block with or without a rate; the totals
\* are replaced, or stay when that fails.  `real` is history: the requests served
\* since the totals were taken.
Apache ==
    /\ pc = "apache"
    /\ \/ Becomes("updates", state) /\ UNCHANGED totals
       \/ /\ Enabled("apache") /\ config.web
          /\ Becomes("updates",
                [state EXCEPT !.apache =
                   IF HasRate THEN [given |-> TRUE, requests |-> Total - totals.total,
                                    real |-> served - totals.served]
                              ELSE Nothing])
          /\ \/ totals' = [given |-> TRUE, total |-> Total, at |-> state.written_at,
                           served |-> served]
             \/ UNCHANGED totals
    /\ UNCHANGED copy

\* The answer host.json has.
Previous == host.updates

Fresh == Previous.given /\ state.written_at < Previous.at + Interval

\* mutant: a failed simulation is stamped like one that worked.
Kept_Stamped ==
    IF Previous.given THEN [Previous EXCEPT !.at = state.written_at] ELSE Previous

Kept == Previous

\* A simulation that works, one that fails, and an unforeseen exception.
Answered ==
    IF config.apt
    THEN {[given |-> TRUE, at |-> state.written_at, n |-> clock], Kept, Nothing}
    ELSE {Nothing}

\* collect_updates: at most hourly; the previous answer stands in between.
Updates ==
    /\ pc = "updates"
    /\ \/ Fresh /\ Becomes("cleanup", [state EXCEPT !.updates = Previous])
       \/ /\ ~ Fresh
          /\ \E answer \in Answered :
                Becomes("cleanup", [state EXCEPT !.updates = answer])
    /\ UNCHANGED <<copy, totals>>

\* mutant: the copy is only looked after where VRRP is enabled.
FinalRemoval_Enabled == copy.exists /\ Enabled("vrrp")

FinalRemoval == copy.exists

\* The `finally` of run().
CleanUp ==
    /\ pc = "cleanup"
    /\ \/ /\ FinalRemoval
          /\ Becomes("write", [state EXCEPT !.error = Cleanup(@)])
          /\ copy' = Left(copy)
       \/ ~ FinalRemoval /\ Becomes("write", state) /\ UNCHANGED copy
    /\ UNCHANGED totals

\* write_state replaces host.json in one step, or fails.
Write ==
    /\ pc = "write"
    /\ pc' = "stopped"
    /\ state' = NoState
    /\ \/ host' = state /\ wrote' = TRUE
       \/ UNCHANGED <<host, wrote>>
    /\ UNCHANGED <<worldVars, dump, helperVars, copy, totals>>

\* ExecStopPost, after every run.
StopPost ==
    /\ pc = "stopped"
    /\ pc' = "idle"
    /\ copy' = Left(copy)
    /\ UNCHANGED <<worldVars, dump, helperVars, totals, state, host, wrote>>

\* The whole run is killed.
Die ==
    /\ pc \notin {"idle", "stopped"}
    /\ pc' = "stopped"
    /\ polls' = MaxPolls
    /\ last' = 0
    /\ work' = Absent
    /\ state' = NoState
    /\ UNCHANGED <<worldVars, dump, copy, totals, host, wrote>>

Collect == Begin \/ Vrrp \/ Apache \/ Updates \/ CleanUp \/ Write \/ StopPost \/ Die

Next == World \/ Start \/ Helper \/ Collect

Spec == Init /\ [][Next]_vars

-----------------------------------------------------------------------------
(* Properties. *)

\* docs: the copy of the dump, which holds the VRRP password, never outlives a run,
\* with VRRP enabled or not; one that could not be deleted is reported as
\* `cleanup` in the state the run published.
CopyIsGoneOrReported ==
    pc = "idle" /\ copy.exists /\ wrote => host.error = "cleanup"

\* A VRRP block that is published is a whole dump and was written after this run's
\* helper asked: a dump that was late, was left half-written or belongs to a run
\* that was killed is never shown as the current state.  (Unless a copy was left
\* that could not be deleted.)
VrrpIsThisRuns ==
    host.vrrp.exists /\ ~ host.kept =>
        host.vrrp.parts = Parts /\ host.vrrp.of >= host.asked

\* The request rate never claims requests that were not served in its window,
\* across restarts of the server, failed reads, totals that could not be saved
\* and runs that were killed.
RateIsTrue == host.apache.given => host.apache.requests \in 0..host.apache.real

\* docs: a broken apt is never reported as a fresh answer: the count that is
\* published was taken no earlier than the time it carries.
FailedCheckIsNotFresh == host.updates.given => host.updates.n >= host.updates.at
=============================================================================
