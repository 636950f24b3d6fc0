------------------------------ MODULE Journal ------------------------------
(***************************************************************************)
(* Host events: collector/journal.py (collect_events).                     *)
(*                                                                         *)
(* A systemd timer runs the collector again and again, one run at a time.  *)
(* A run loads its private state (`file`: cursor, kinds, time stamps),     *)
(* reads the journal after the cursor or, failing that, over the window,   *)
(* adds the stamps of the entries it was given, saves, and returns the     *)
(* stamps as counts.  Meanwhile entries are logged, old ones are vacuumed, *)
(* the configured kinds change, and the run may die at any step.           *)
(*                                                                         *)
(* The journal is a sequence of entries; a cursor is a position in it, 0   *)
(* for none.  An entry of kind Other passes the server-side filter and     *)
(* matches no pattern (or has no usable time).  A list of time stamps is a *)
(* bag: how often each time occurs in it.  Logged entries carry the time   *)
(* of the clock, which is never set back.                                  *)
(***************************************************************************)
EXTENDS Integers, Sequences, FiniteSets, FiniteSetsExt

CONSTANTS
    Kinds,      \* the kinds of host event
    Other,      \* an entry that is none of them
    Window,     \* WINDOW
    MaxClock,   \* BOUND: last time considered
    MaxLog,     \* BOUND: entries ever logged
    Mishaps     \* of {"vacuum", "configure", "lose", "die"}: what else may happen

ASSUME JournalAssumption ==
    /\ Other \notin Kinds
    /\ Window \in Nat \ {0}
    /\ MaxClock \in Nat
    /\ MaxLog \in Nat
    /\ Mishaps \subseteq {"vacuum", "configure", "lose", "die"}

Times     == 0..MaxClock
Positions == 1..MaxLog
NoStamps  == [k \in Kinds |-> [t \in Times |-> 0]]

VARIABLES
    clock,      \* the time
    log,        \* every entry ever logged
    vacuumed,   \* how many of the oldest are no longer in the journal
    enabled,    \* trouble_host_events in the configuration file
    file,       \* journal.json; without one, no cursor, kinds or stamps
    pc,         \* where the run is
    now,        \* the run's `now`
    kinds,      \* the run's `enabled`
    known,      \* the stamps it loaded
    cursor,     \* the cursor it may use
    out,        \* positions of the entries journalctl gave it
    full,       \* whether the window was read in full
    stamps,     \* the stamps collect_events counts
    error,      \* the error code collect_events returns; all codes are one here
    view        \* history: the entries (gone + 1)..seen were in the journal at
                \* the run's read

worldVars == <<clock, log, vacuumed, enabled>>
runVars   == <<pc, now, kinds, known, cursor, out, full, stamps, error>>
vars      == <<worldVars, file, runVars, view>>

NoFile      == [cursor |-> 0, kinds |-> {}, stamps |-> NoStamps]
RunInit ==
    /\ now = 0
    /\ kinds = {}
    /\ known = NoStamps
    /\ cursor = 0
    /\ out = {}
    /\ full = FALSE
    /\ stamps = NoStamps
    /\ error = "none"

Init ==
    /\ clock = 0
    /\ log = <<>>
    /\ vacuumed = 0
    /\ enabled \in SUBSET Kinds
    /\ file = NoFile
    /\ pc = "idle"
    /\ RunInit
    /\ view = [gone |-> 0, seen |-> 0]

Available == (vacuumed + 1)..Len(log)

-----------------------------------------------------------------------------
(* The journal, the clock, the administrator. *)

Log(k) ==
    /\ Len(log) < MaxLog
    /\ log' = Append(log, [kind |-> k, at |-> clock])
    /\ UNCHANGED <<clock, vacuumed, enabled, file, runVars, view>>

Vacuum ==
    /\ "vacuum" \in Mishaps
    /\ vacuumed < Len(log)
    /\ vacuumed' = vacuumed + 1
    /\ UNCHANGED <<clock, log, enabled, file, runVars, view>>

Configure ==
    /\ "configure" \in Mishaps
    /\ enabled' \in SUBSET Kinds
    /\ UNCHANGED <<clock, log, vacuumed, file, runVars, view>>

Tick ==
    /\ clock < MaxClock
    /\ clock' = clock + 1
    /\ UNCHANGED <<log, vacuumed, enabled, file, runVars, view>>

\* The state directory is wiped, or the file is unreadable from now on.
Lose ==
    /\ "lose" \in Mishaps
    /\ file' = NoFile
    /\ UNCHANGED <<worldVars, runVars, view>>

World == Vacuum \/ Configure \/ Tick \/ Lose \/ \E k \in Kinds \cup {Other} : Log(k)

-----------------------------------------------------------------------------
(* collect_events. *)

UsableCursor == IF file.kinds = enabled THEN file.cursor ELSE 0

Start ==
    /\ pc = "idle"
    /\ now' = clock
    /\ kinds' = enabled
    /\ known' = file.stamps
    /\ cursor' = UsableCursor
    /\ pc' = IF UsableCursor # 0 THEN "incremental" ELSE "window"
    /\ UNCHANGED <<worldVars, file, out, full, stamps, error, view>>

Pruned(s) ==
    [k \in Kinds |-> [t \in Times |-> IF t > now - Window THEN s[k][t] ELSE 0]]

Views == view' = [gone |-> vacuumed, seen |-> Len(log)]

\* The entries journalctl printed.
Reads(positions, inFull) ==
    /\ out' = positions
    /\ full' = inFull
    /\ pc' = "scan"
    /\ Views
    /\ UNCHANGED <<worldVars, file, now, kinds, known, cursor, stamps, error>>

\* collect_events returns these stamps, counted.
Returns(bags, code) ==
    /\ stamps' = bags
    /\ error' = code
    /\ pc' = "returned"
    /\ known' = NoStamps
    /\ cursor' = 0
    /\ out' = {}
    /\ full' = FALSE
    /\ UNCHANGED <<worldVars, now, kinds>>

\* A time-out, no journalctl, or no permission: the last known stamps are counted
\* and nothing is saved.
Fails ==
    /\ Returns(Pruned(known), "failed")
    /\ Views
    /\ UNCHANGED file

ReadAfterCursor ==
    /\ pc = "incremental"
    /\ Reads({i \in Available : i > cursor}, FALSE) \/ Fails

\* mutant: a refused cursor counts as "nothing new".
CursorRefused_Empty == pc = "incremental" /\ Reads({}, FALSE)

\* journalctl exits non-zero: the cursor is lost, or it may not read.
CursorRefused ==
    /\ pc = "incremental"
    /\ pc' = "window"
    /\ UNCHANGED <<worldVars, file, now, kinds, known, cursor, out, full, stamps,
                   error, view>>

ReadWindow ==
    /\ pc = "window"
    /\ Reads({i \in Available : log[i].at >= now - Window}, TRUE) \/ Fails

\* The entries at `positions` of kind k and time t, and how many they are.
Hits(entries, positions, k, t) ==
    {i \in positions : entries[i].kind = k /\ entries[i].at = t}

Number(positions, k, t) == Cardinality(Hits(log, positions, k, t))

\* mutant: a window read adds to the saved stamps.
Base_Known == known

\* A full window read replaces the saved stamps.
Base == IF full THEN NoStamps ELSE known

Scanned ==
    [k \in Kinds |-> [t \in Times |->
        Base[k][t] + (IF k \in kinds THEN Number(out, k, t) ELSE 0)]]

\* mutant: the cursor is put behind the newest entry of the journal.
LastCursor_Newest == Len(log)

\* The last cursor _scan saw.
LastCursor == IF out # {} THEN Max(out) ELSE IF full THEN 0 ELSE cursor

\* _write_atomic replaces the file or fails and leaves the old one as it is.
Save ==
    /\ pc = "scan"
    /\ Returns(Pruned(Scanned), "none")
    /\ \/ file' = [cursor |-> LastCursor, kinds |-> kinds, stamps |-> Pruned(Scanned)]
       \/ UNCHANGED file
    /\ UNCHANGED view

\* The run ends and its locals are gone, after it returned or because it died.
RunOver ==
    /\ pc' = "idle"
    /\ now' = 0
    /\ kinds' = {}
    /\ known' = NoStamps
    /\ cursor' = 0
    /\ out' = {}
    /\ full' = FALSE
    /\ stamps' = NoStamps
    /\ error' = "none"
    /\ UNCHANGED <<worldVars, file, view>>

Return == pc = "returned" /\ RunOver

Die == "die" \in Mishaps /\ pc # "idle" /\ RunOver

Run == Start \/ ReadAfterCursor \/ CursorRefused \/ ReadWindow \/ Save

Next == World \/ Run \/ Return \/ Die

Spec == Init /\ [][Next]_vars

-----------------------------------------------------------------------------
(* Properties. *)

Bags == [Kinds -> [Times -> Nat]]

TypeOK ==
    /\ clock \in Times
    /\ log \in Seq([kind : Kinds \cup {Other}, at : Times])
    /\ vacuumed \in 0..Len(log)
    /\ enabled \subseteq Kinds
    /\ file.cursor \in 0..Len(log) /\ file.kinds \subseteq Kinds /\ file.stamps \in Bags
    /\ pc \in {"idle", "incremental", "window", "scan", "returned"}
    /\ now \in Times
    /\ kinds \subseteq Kinds
    /\ known \in Bags /\ stamps \in Bags
    /\ cursor \in 0..Len(log)
    /\ out \subseteq 1..Len(log)
    /\ full \in BOOLEAN
    /\ error \in {"none", "failed"}
    /\ view \in [gone : 0..Len(log), seen : 0..Len(log)]

\* No event is ever counted twice: whatever was lost, refused, reconfigured or
\* cut short, the saved stamps of a kind and time are at most as many as there
\* were entries of that kind and time up to the saved cursor.
NothingTwice ==
    \A k \in Kinds, t \in Times : file.stamps[k][t] <= Number(1..file.cursor, k, t)

\* The saved cursor never passes an event that was not counted: every entry up to
\* it of a saved kind that is in the window and still in the journal is a stamp.
NothingPassedOver ==
    \A k \in file.kinds, t \in Times :
        t > clock - Window =>
          file.stamps[k][t] >= Number((vacuumed + 1)..file.cursor, k, t)

\* What collect_events returns is the truth: for every kind and time never more
\* events than there were, also after a failed read, and after a read that did
\* not fail no fewer than the journal held when it was read.
ReplyIsTrue ==
    pc = "returned" =>
      \A k \in kinds, t \in Times :
          /\ stamps[k][t] <= Number(1..view.seen, k, t)
          /\ error = "none" /\ t > now - Window =>
               stamps[k][t] >= Number((view.gone + 1)..view.seen, k, t)
=============================================================================
