------------------------------ MODULE Trouble ------------------------------
(***************************************************************************)
(* The host half of TROUBLE: collector/run.py publishes what               *)
(* collect_events returned in the host state file, and a login reads that  *)
(* file at any moment (collectors/hoststate.py, render/trouble.py).        *)
(*                                                                         *)
(* The reader takes no lock and changes nothing, so what it shows is a     *)
(* function of the current state.                                          *)
(***************************************************************************)
EXTENDS Journal

CONSTANT StaleAfter     \* STALE_AFTER_SECONDS

ASSUME TroubleAssumption == StaleAfter \in Nat

VARIABLES
    published,  \* the events of the host state file
    shown       \* history: `view` of the run that published them

troubleVars == <<vars, published, shown>>

NoTime  == -1
NoState == [kinds |-> {}, at |-> 0, error |-> "unwritten",
            counts |-> [k \in Kinds |-> [count |-> 0, last |-> NoTime]]]

TroubleInit ==
    /\ Init
    /\ published = NoState
    /\ shown = view

\* The members of a list of time stamps: the n-th that has time t, for each.
Members(bag) == UNION {{t} \X (1..bag[t]) : t \in Times}

\* _counts
EventCount(bag) ==
    [count |-> Cardinality(Members(bag)),
     last  |-> Max({NoTime} \cup {t \in Times : bag[t] > 0})]

\* mutant: the error code is left out of the state.
PublishedError_Lost == "none"

PublishedError == error

\* write_state replaces the host state file in one step, or fails and leaves the
\* old one.
Publish ==
    /\ Return
    /\ \/ /\ published' = [kinds  |-> kinds,
                            at     |-> now,
                            error  |-> PublishedError,
                            counts |-> [k \in Kinds |-> EventCount(stamps[k])]]
          /\ shown' = view
       \/ UNCHANGED <<published, shown>>

TroubleNext ==
    \/ (World \/ Run \/ Die) /\ UNCHANGED <<published, shown>>
    \/ Publish

TroubleSpec == TroubleInit /\ [][TroubleNext]_troubleVars

-----------------------------------------------------------------------------
(* What a login shows at this moment. *)

Written == published.error # "unwritten"

\* mutant: the state never counts as stale.
Stale_Never == FALSE

Stale == clock - published.at > StaleAfter

\* A row of host_trouble.
Row(k) ==
    /\ Written
    /\ k \in published.kinds \cap enabled
    /\ published.counts[k].count > 0

\* The rows carry "state ... old" or "not refreshed".
Noted == Stale \/ published.error # "none"

\* mutant: the warning needs a row to stand under.
Warning_UnderRows ==
    Written /\ published.error # "none" /\ \E k \in Kinds : Row(k)

\* _journal_warning
Warning == Written /\ enabled # {} /\ published.error # "none"

-----------------------------------------------------------------------------
(* Properties. *)

\* The entries of kind k in the window of the published state, among `positions`.
InWindow(positions, k) ==
    {i \in positions : log[i].kind = k /\ log[i].at > published.at - Window}

\* Published counts are the truth: never more events than happened in the twelve
\* hours, also after a failed read, and after a read that did not fail no fewer
\* than the journal held when it was read.
CountsAreTrue ==
    Written => \A k \in published.kinds :
        LET c == published.counts[k].count IN
        /\ c <= Cardinality(InWindow(1..shown.seen, k))
        /\ published.error = "none" =>
             c >= Cardinality(InWindow((shown.gone + 1)..shown.seen, k))

\* A row without a note is current: its last event is no older than the window
\* and one stale limit together.
PlainRowsAreCurrent ==
    \A k \in Kinds :
        Row(k) /\ ~ Noted => published.counts[k].last > clock - StaleAfter - Window

\* A failed read never looks like quiet twelve hours: when TROUBLE shows neither
\* a row for an enabled kind nor the warning, there was no such event in the
\* journal when the collector looked.
QuietIsQuiet ==
    \A k \in published.kinds \cap enabled :
        Written /\ ~ Row(k) /\ ~ Warning =>
          InWindow((shown.gone + 1)..shown.seen, k) = {}
=============================================================================
