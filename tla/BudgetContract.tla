--------------------------- MODULE BudgetContract ---------------------------
(***************************************************************************)
(* What run_with_budget promises its caller, without threads, deadlines or *)
(* joins.  A call is opened over a set of tasks; while it is open          *)
(* (and afterwards, too late) tasks answer with a value or an error; the   *)
(* call closes by giving every task exactly one verdict at once.  A        *)
(* verdict "result" or "failed" is only given to a task that gave that     *)
(* answer in this call; a task may be called "truncated" whether or not it *)
(* answered (a late answer is discarded), and must be if it did not.       *)
(***************************************************************************)
CONSTANT AllTasks       \* every task any call may be given

VARIABLES
    phase,      \* "idle", "open" (inside a call) or "over" (interpreter exit)
    tasks,      \* the tasks of the latest call
    answered,   \* the answer each task of the latest call has given so far
    verdict     \* what the last completed call said of each task

vars == <<phase, tasks, answered, verdict>>

Init ==
    /\ phase = "idle"
    /\ tasks = {}
    /\ answered = [t \in AllTasks |-> "none"]
    /\ verdict = [t \in AllTasks |-> "none"]

Open ==
    /\ phase = "idle"
    /\ phase' = "open"
    /\ tasks' \in SUBSET AllTasks
    /\ answered' = [t \in AllTasks |-> "none"]
    /\ UNCHANGED verdict

Answer(t) ==
    /\ t \in tasks
    /\ answered[t] = "none"
    /\ \E a \in {"value", "error"} : answered' = [answered EXCEPT ![t] = a]
    /\ UNCHANGED <<phase, tasks, verdict>>

\* What the call says of each task when the answers of `late` are discarded.
Judgement(late) ==
    [t \in AllTasks |->
        CASE t \notin tasks -> "none"
          [] t \in tasks /\ (t \in late \/ answered[t] = "none") -> "truncated"
          [] t \in tasks \ late /\ answered[t] = "value" -> "result"
          [] t \in tasks \ late /\ answered[t] = "error" -> "failed"]

Close ==
    /\ phase = "open"
    /\ phase' = "idle"
    /\ \E late \in SUBSET tasks : verdict' = Judgement(late)
    /\ UNCHANGED <<tasks, answered>>

\* The call is left by an exception: no verdict is given.
Abort ==
    /\ phase = "open"
    /\ phase' \in {"idle", "over"}
    /\ UNCHANGED <<tasks, answered, verdict>>

Stop ==
    /\ phase = "idle"
    /\ phase' = "over"
    /\ UNCHANGED <<tasks, answered, verdict>>

Next == Open \/ Close \/ Abort \/ Stop \/ \E t \in AllTasks : Answer(t)

\* Every call that is opened ends, whatever its tasks do.
Fairness == WF_vars(Close \/ Abort)

SafeSpec == Init /\ [][Next]_vars
Spec     == SafeSpec /\ Fairness
=============================================================================
