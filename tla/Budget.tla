------------------------------- MODULE Budget -------------------------------
(***************************************************************************)
(* budget.py: run_with_budget, its check threads, the registry of          *)
(* abandoned threads (_stragglers) and the exit handler _join_stragglers.  *)
(*                                                                         *)
(* One process makes up to MaxPass calls, one after another, as `--follow` *)
(* does on every pass (a login run makes one).  Every call starts one      *)
(* daemon thread per task, joins the threads in deadline order, registers  *)
(* the ones still alive and reports.  Threads of earlier calls may still   *)
(* be running; a thread is therefore a pair <<call, task>>, and the dicts  *)
(* `results` and `failed`, which are local to a call, are kept as sets of  *)
(* such pairs.  A task may end with a value, an exception, a               *)
(* BaseException, or never.                                                *)
(*                                                                         *)
(* `clock` is the time since the current call began.  Time passes only     *)
(* inside a call and at exit.  While the main thread waits, time passes    *)
(* freely; while it has a step to take, at most Slack units pass in all    *)
(* (`lag` counts them): Slack is the scheduling delay of the main thread,  *)
(* 0 on an ideal machine.                                                  *)
(***************************************************************************)
EXTENDS Integers, FiniteSets

CONSTANTS
    NTasks,     \* tasks of a call, numbered in the order they are registered
    Budget,     \* the wall-clock budget of a call
    Timeouts,   \* own timeouts, for the tasks that have one
    Grace,      \* EXIT_GRACE_SECONDS
    Slack,      \* scheduling delay of the main thread, per call
    MaxPass,    \* BOUND: number of calls the process makes
    MaxClock,   \* BOUND: on the clock, out of reach when every wait is bounded
    Faults      \* of {"interrupt", "start_fails"}: what may go wrong

Tasks   == 1..NTasks
Passes  == 1..MaxPass
Threads == Passes \X Tasks

ASSUME BudgetAssumption ==
    /\ NTasks \in Nat
    /\ MaxPass \in Nat
    /\ Budget \in Nat
    /\ Grace \in Nat
    /\ Slack \in Nat
    /\ MaxClock \in Nat
    /\ Timeouts \in [DOMAIN Timeouts -> Nat]
    /\ Faults \subseteq {"interrupt", "start_fails"}

VARIABLES
    pc,           \* where the main thread is
    pass,         \* calls made so far; the current one while inside a call
    toStart,      \* the task whose thread is started next
    thread,       \* state of every thread
    results,      \* threads that put their value into their call's `results`
    failed,       \* threads that put their exception into `failed`
    deadlines,    \* the deadline of each task of the current call
    unjoined,     \* tasks of the current call not joined yet
    expired,      \* `expired` of the current call
    abandoned,    \* `abandoned` of the current call
    stragglers,   \* the registry `_stragglers`
    exitJoins,    \* threads the exit handler has yet to join
    exitDeadline, \* the exit handler's shared deadline
    report,       \* the BudgetResult of the last call that returned
    clock,        \* time since the current call began
    lag,          \* how much of it the main thread was runnable but idle
    since,        \* clock when the current bounded wait began
    delivered,    \* history: calls that returned a BudgetResult
    endedAt,      \* history: clock when a task's thread of this call ended
    endedIn       \* history: the value of `pass` when a thread ended

mainVars == <<pc, pass, toStart, deadlines, unjoined, expired, abandoned,
              stragglers, exitJoins, exitDeadline, report, since, delivered>>
workVars == <<thread, results, failed, endedAt, endedIn>>
timeVars == <<clock, lag>>
vars     == <<mainVars, workVars, timeVars>>

InCall == {"starting", "joining", "abandoning", "sweeping", "reporting"}
PCs    == InCall \cup {"idle", "exiting", "exitjoin", "exited", "aborted"}
Over   == {"exited", "aborted"}

Alive(th) == thread[th] \in {"running", "closing"}
Mine(t)   == <<pass, t>>

NoReport == [results |-> {}, truncated |-> {}, failed |-> {}]

Init ==
    /\ pc = "idle"
    /\ pass = 0
    /\ toStart = 1
    /\ thread = [th \in Threads |-> "new"]
    /\ results = {}
    /\ failed = {}
    /\ deadlines = [t \in Tasks |-> 0]
    /\ unjoined = {}
    /\ expired = {}
    /\ abandoned = {}
    /\ stragglers = {}
    /\ exitJoins = {}
    /\ exitDeadline = 0
    /\ report = NoReport
    /\ clock = 0
    /\ lag = 0
    /\ since = 0
    /\ delivered = {}
    /\ endedAt = [t \in Tasks |-> 0]
    /\ endedIn = [th \in Threads |-> 0]

-----------------------------------------------------------------------------
(* The check threads: `runner`. *)

\* func() returned: the value goes into this call's dict under the lock.  The
\* thread is still alive until it has unwound ("closing").
Answer(th) ==
    /\ thread[th] = "running"
    /\ thread' = [thread EXCEPT ![th] = "closing"]
    /\ results' = results \cup {th}
    /\ UNCHANGED <<failed, endedAt, endedIn>>

\* func() raised an Exception.
Fail(th) ==
    /\ thread[th] = "running"
    /\ thread' = [thread EXCEPT ![th] = "closing"]
    /\ failed' = failed \cup {th}
    /\ UNCHANGED <<results, endedAt, endedIn>>

\* The thread is gone: after its answer, or because func() raised something
\* that is not an Exception (SystemExit), which records nothing.
End(th) ==
    /\ Alive(th)
    /\ thread' = [thread EXCEPT ![th] = "ended"]
    /\ endedAt' = IF th[1] = pass THEN [endedAt EXCEPT ![th[2]] = clock]
                                  ELSE endedAt
    /\ endedIn' = [endedIn EXCEPT ![th] = pass]
    /\ UNCHANGED <<results, failed>>

\* Daemon threads: frozen once the interpreter is gone.
ThreadStep(th) ==
    /\ pc \notin Over
    /\ Answer(th) \/ Fail(th) \/ End(th)
    /\ UNCHANGED <<mainVars, timeVars>>

-----------------------------------------------------------------------------
(* run_with_budget on the main thread. *)

\* The call's local variables are gone.
LocalsGone ==
    /\ toStart' = 1
    /\ unjoined' = {}
    /\ expired' = {}
    /\ abandoned' = {}
    /\ deadlines' = [t \in Tasks |-> 0]

Call ==
    /\ pc = "idle"
    /\ pass < MaxPass
    /\ pc' = "starting"
    /\ pass' = pass + 1
    /\ toStart' = 1
    /\ clock' = 0
    /\ lag' = 0
    /\ since' = 0
    /\ endedAt' = [t \in Tasks |-> 0]
    /\ UNCHANGED <<deadlines, unjoined, expired, abandoned, stragglers, exitJoins,
                   exitDeadline, report, delivered, thread, results, failed, endedIn>>

StartThread ==
    /\ pc = "starting"
    /\ toStart \in Tasks
    /\ thread' = [thread EXCEPT ![Mine(toStart)] = "running"]
    /\ toStart' = toStart + 1
    /\ UNCHANGED <<pc, pass, deadlines, unjoined, expired, abandoned, stragglers,
                   exitJoins, exitDeadline, report, since, delivered, results,
                   failed, endedAt, endedIn, timeVars>>

\* thread.start() raises RuntimeError when the system has no thread left.  The
\* exception leaves the call; the caller's stage or follow pass catches it.
StartFails ==
    /\ "start_fails" \in Faults
    /\ pc = "starting"
    /\ toStart \in Tasks
    /\ pc' = "idle"
    /\ LocalsGone
    /\ UNCHANGED <<pass, stragglers, exitJoins, exitDeadline, report, since,
                   delivered, workVars, timeVars>>

Own(t) == IF t \in DOMAIN Timeouts THEN Timeouts[t] ELSE Budget

Deadline(t, started) ==
    IF Own(t) < Budget THEN started + Own(t) ELSE started + Budget

SetDeadlines ==
    /\ pc = "starting"
    /\ toStart \notin Tasks
    /\ pc' = "joining"
    /\ since' = clock
    /\ deadlines' = [t \in Tasks |-> Deadline(t, clock)]
    /\ unjoined' = Tasks
    /\ expired' = {}
    /\ UNCHANGED <<pass, toStart, abandoned, stragglers, exitJoins, exitDeadline,
                   report, delivered, workVars, timeVars>>

\* mutant: the threads are joined in the order they were started.
JoinedNext_Started(t) == t \in unjoined /\ \A u \in unjoined : t <= u

\* sorted() by deadline; it is stable, so ties keep the order of registration.
JoinedNext(t) ==
    /\ t \in unjoined
    /\ \A u \in unjoined :
          deadlines[t] < deadlines[u] \/ (deadlines[t] = deadlines[u] /\ t <= u)

\* mutant: the first task that runs out of time decides for the rest.
JoinReturns_OneForAll(t) ==
    ~ Alive(Mine(t)) \/ clock >= deadlines[t] \/ expired # {}

\* mutant: the join has no timeout.
JoinReturns_NoTimeout(t) == ~ Alive(Mine(t))

\* join() returns when the thread has ended or the timeout is used up.
JoinReturns(t) == ~ Alive(Mine(t)) \/ clock >= deadlines[t]

\* The join and the is_alive() that follows it.  What lets the join return
\* stays true, so the two are one step, at the time of is_alive().
Join(t) ==
    /\ pc = "joining"
    /\ JoinedNext(t)
    /\ JoinReturns(t)
    /\ unjoined' = unjoined \ {t}
    /\ expired' = IF Alive(Mine(t)) THEN expired \cup {t} ELSE expired
    /\ UNCHANGED <<pc, pass, toStart, deadlines, abandoned, stragglers, exitJoins,
                   exitDeadline, report, since, delivered, workVars, timeVars>>

AllJoined ==
    /\ pc = "joining"
    /\ unjoined = {}
    /\ pc' = "abandoning"
    /\ UNCHANGED <<pass, toStart, deadlines, unjoined, expired, abandoned,
                   stragglers, exitJoins, exitDeadline, report, since, delivered,
                   workVars, timeVars>>

Live == {Mine(t) : t \in {u \in Tasks : Alive(Mine(u))}}

\* The list of live threads is taken before the registry's lock is.
Abandon ==
    /\ pc = "abandoning"
    /\ abandoned' = Live
    /\ pc' = "sweeping"
    /\ UNCHANGED <<pass, toStart, deadlines, unjoined, expired, stragglers,
                   exitJoins, exitDeadline, report, since, delivered, workVars,
                   timeVars>>

Swept == {th \in stragglers : Alive(th)}

\* mutant: the list is assigned where it should be extended.
Registered_Assigned == abandoned

\* mutant: no sweep, the list only grows.
Registered_NotSwept == stragglers \cup abandoned

Registered == Swept \cup abandoned

Sweep ==
    /\ pc = "sweeping"
    /\ stragglers' = Registered
    /\ pc' = "reporting"
    /\ UNCHANGED <<pass, toStart, deadlines, unjoined, expired, abandoned,
                   exitJoins, exitDeadline, report, since, delivered, workVars,
                   timeVars>>

\* mutant: one `results` dict for all calls of the process.
InResults_Shared(t) == \E p \in Passes : <<p, t>> \in results

InResults(t) == Mine(t) \in results
InFailed(t)  == Mine(t) \in failed

\* mutant: only what recorded nothing counts as truncated.
Truncated_Unrecorded(t) == ~ InResults(t) /\ ~ InFailed(t)

Truncated(t) == t \in expired \/ (~ InResults(t) /\ ~ InFailed(t))

Report ==
    /\ pc = "reporting"
    /\ report' = [results   |-> {t \in Tasks : InResults(t) /\ t \notin expired},
                  truncated |-> {t \in Tasks : Truncated(t)},
                  failed    |-> {t \in Tasks : InFailed(t) /\ t \notin expired}]
    /\ delivered' = delivered \cup {pass}
    /\ pc' = "idle"
    /\ LocalsGone
    /\ UNCHANGED <<pass, stragglers, exitJoins, exitDeadline, since, workVars,
                   timeVars>>

\* Ctrl-C: KeyboardInterrupt leaves the call wherever it is.  run_follow catches
\* it and returns 0; a login run unwinds.  Either way the interpreter exits next.
\* Inside the registry's lock it may fall before or after the sweep.
Interrupt ==
    /\ "interrupt" \in Faults
    /\ pc \in InCall
    /\ stragglers' \in (IF pc = "sweeping" THEN {stragglers, Swept} ELSE {stragglers})
    /\ pc' = "exiting"
    /\ LocalsGone
    /\ UNCHANGED <<pass, exitJoins, exitDeadline, report, since, delivered,
                   workVars, timeVars>>

-----------------------------------------------------------------------------
(* Interpreter exit: _join_stragglers. *)

Exit ==
    /\ pc = "idle"
    /\ pc' = "exiting"
    /\ UNCHANGED <<pass, toStart, deadlines, unjoined, expired, abandoned,
                   stragglers, exitJoins, exitDeadline, report, since, delivered,
                   workVars, timeVars>>

\* mutant: the list is cleared before it is read.
Taken_Cleared == {}

Taken == Swept

TakeStragglers ==
    /\ pc = "exiting"
    /\ exitJoins' = Taken
    /\ stragglers' = {}
    /\ exitDeadline' = clock + Grace
    /\ since' = clock
    /\ lag' = 0
    /\ pc' = "exitjoin"
    /\ UNCHANGED <<pass, toStart, deadlines, unjoined, expired, abandoned, report,
                   delivered, workVars, clock>>

ExitJoinReturns(th) == ~ Alive(th) \/ clock >= exitDeadline

\* mutant: every thread gets a grace period of its own.
ExitJoin_OwnGrace(th) ==
    /\ pc = "exitjoin"
    /\ th \in exitJoins
    /\ ExitJoinReturns(th)
    /\ exitJoins' = exitJoins \ {th}
    /\ exitDeadline' = clock + Grace
    /\ UNCHANGED <<pc, pass, toStart, deadlines, unjoined, expired, abandoned,
                   stragglers, report, since, delivered, workVars, timeVars>>

\* The order of the list plays no part: the deadline is one for all.
ExitJoin(th) ==
    /\ pc = "exitjoin"
    /\ th \in exitJoins
    /\ ExitJoinReturns(th)
    /\ exitJoins' = exitJoins \ {th}
    /\ UNCHANGED <<pc, pass, toStart, deadlines, unjoined, expired, abandoned,
                   stragglers, exitDeadline, report, since, delivered, workVars,
                   timeVars>>

Exited ==
    /\ pc = "exitjoin"
    /\ exitJoins = {}
    /\ pc' = "exited"
    /\ UNCHANGED <<pass, toStart, deadlines, unjoined, expired, abandoned,
                   stragglers, exitJoins, exitDeadline, report, since, delivered,
                   workVars, timeVars>>

\* A second Ctrl-C cuts the exit handler short.
InterruptExit ==
    /\ "interrupt" \in Faults
    /\ pc = "exitjoin"
    /\ pc' = "aborted"
    /\ UNCHANGED <<pass, toStart, deadlines, unjoined, expired, abandoned,
                   stragglers, exitJoins, exitDeadline, report, since, delivered,
                   workVars, timeVars>>

-----------------------------------------------------------------------------
(* Time. *)

\* The main thread is blocked in a join.
Waiting ==
    \/ /\ pc = "joining"
       /\ \E t \in unjoined : JoinedNext(t) /\ ~ JoinReturns(t)
    \/ /\ pc = "exitjoin"
       /\ exitJoins # {}
       /\ \A th \in exitJoins : ~ ExitJoinReturns(th)

Tick ==
    /\ pc \in InCall \cup {"exiting", "exitjoin"}
    /\ clock < MaxClock
    /\ Waiting \/ lag < Slack
    /\ clock' = clock + 1
    /\ lag' = IF Waiting THEN lag ELSE lag + 1
    /\ UNCHANGED <<mainVars, workVars>>

-----------------------------------------------------------------------------
MainStep ==
    \/ Call \/ StartThread \/ SetDeadlines
    \/ \E t \in Tasks : Join(t)
    \/ AllJoined \/ Abandon \/ Sweep \/ Report
    \/ Exit \/ TakeStragglers
    \/ \E th \in Threads : ExitJoin(th)
    \/ Exited

Fault == StartFails \/ Interrupt \/ InterruptExit

\* The process is gone; nothing else may ever stop it.
Gone == pc \in Over /\ UNCHANGED vars

Next ==
    \/ MainStep \/ Fault \/ Tick \/ Gone
    \/ \E th \in Threads : ThreadStep(th)

\* The main thread runs and time passes.  Nothing is assumed of the check
\* threads: any of them may hang for ever.
Fairness == WF_vars(MainStep) /\ WF_vars(Tick)

SafeSpec == Init /\ [][Next]_vars
Spec     == SafeSpec /\ Fairness

-----------------------------------------------------------------------------
(* Properties. *)

TypeOK ==
    /\ pc \in PCs
    /\ pass \in 0..MaxPass
    /\ toStart \in 1..(NTasks + 1)
    /\ thread \in [Threads -> {"new", "running", "closing", "ended"}]
    /\ results \subseteq Threads
    /\ failed \subseteq Threads
    /\ deadlines \in [Tasks -> Nat]
    /\ unjoined \subseteq Tasks
    /\ expired \subseteq Tasks
    /\ abandoned \subseteq Threads
    /\ stragglers \subseteq Threads
    /\ exitJoins \subseteq Threads
    /\ exitDeadline \in Nat
    /\ report \in [results : SUBSET Tasks, truncated : SUBSET Tasks,
                   failed : SUBSET Tasks]
    /\ clock \in Nat
    /\ lag \in 0..Slack
    /\ since \in Nat
    /\ delivered \subseteq Passes
    /\ endedAt \in [Tasks -> Nat]
    /\ endedIn \in [Threads -> 0..MaxPass]

\* The latest call has returned its BudgetResult and nothing has begun since.
Reported == pass \in delivered /\ pc = "idle"

\* The time up to which a task of the latest call is entitled to answer.
Entitled(t) ==
    since + (IF t \in DOMAIN Timeouts /\ Timeouts[t] < Budget THEN Timeouts[t]
                                                             ELSE Budget)

\* Every task of a call that returned is in exactly one of results, truncated
\* and failed (BudgetResult: keeping them apart is the point), although the
\* threads keep writing while the report is put together.
OneVerdictEach ==
    Reported =>
      /\ report.results \cup report.truncated \cup report.failed = Tasks
      /\ report.results \cap report.failed = {}
      /\ report.truncated \cap (report.results \cup report.failed) = {}

\* An answer is only reported when its thread was through by the task's own
\* deadline, up to the main thread's scheduling delay: a late answer of one
\* task never gets in because another task was being waited for.
NoLateAnswer ==
    Reported =>
      \A t \in report.results \cup report.failed :
          thread[Mine(t)] = "ended" /\ endedAt[t] <= Entitled(t) + Slack

\* A task is only called truncated when it had its full time: it still runs, it
\* ended no earlier than its own deadline, or it ended without any answer.
TruncatedHadItsTime ==
    Reported =>
      \A t \in report.truncated :
          \/ Alive(Mine(t))
          \/ endedAt[t] >= Entitled(t)
          \/ ~ InResults(t) /\ ~ InFailed(t)

\* After every call that returned, and during the next ones, the registry holds
\* all threads of returned calls that still run: the exit handler will see them.
RegistryCoversAbandoned ==
    pc \notin {"exitjoin"} \cup Over =>
      \A th \in Threads :
          Alive(th) /\ th[1] \in delivered => th \in stragglers

\* The registry does not grow with the passes: after a call that returned, the
\* threads in it were all alive when that call's own joins were over.
RegistrySwept ==
    Reported =>
      \A th \in stragglers : Alive(th) \/ endedIn[th] = pass

\* No call takes longer than the budget from the moment its threads run, and
\* the exit handler no longer than one grace period for all threads together.
WaitsBounded ==
    /\ pc \in InCall => clock <= since + Budget + Slack
    /\ pc \in {"exitjoin", "exited"} => clock <= since + Grace + Slack

\* When the exit handler was not cut short, every thread of a returned call
\* that is frozen at exit had the whole grace period to finish.
GraceGiven ==
    pc = "exited" =>
      \A th \in Threads :
          Alive(th) /\ th[1] \in delivered => clock >= since + Grace

\* A call ends whatever its check threads do, and so does the exit handler.
CallsAndExitEnd ==
    /\ pc \in InCall ~> pc \notin InCall
    /\ pc = "exiting" ~> pc \in Over

\* run_with_budget implements its contract.
Phase == IF pc = "idle" THEN "idle" ELSE IF pc \in InCall THEN "open" ELSE "over"

Answered == [t \in Tasks |-> IF <<pass, t>> \in results THEN "value"
                             ELSE IF <<pass, t>> \in failed THEN "error"
                             ELSE "none"]

Verdict == [t \in Tasks |-> IF t \in report.results THEN "result"
                            ELSE IF t \in report.failed THEN "failed"
                            ELSE IF t \in report.truncated THEN "truncated"
                            ELSE "none"]

Contract == INSTANCE BudgetContract
                WITH AllTasks <- Tasks, phase <- Phase, answered <- Answered,
                     verdict <- Verdict, tasks <- IF pass = 0 THEN {} ELSE Tasks

\* The abstract specification: exactly one justified verdict per task, all at
\* once, and every call ends.
ImplementsContract == Contract!Spec
=============================================================================
