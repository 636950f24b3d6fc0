---------------------------- MODULE BudgetProofs ----------------------------
(***************************************************************************)
(* Theorems about Budget, for any number of tasks and calls, any timeouts, *)
(* any scheduling delay and any faults.                                    *)
(***************************************************************************)
EXTENDS Budget, TLAPS

\* A call is numbered from 1, so its threads are pairs in Threads.
Typed == TypeOK /\ (pc \in InCall => pass # 0)

LEMMA TypedInit == Init => Typed
  BY BudgetAssumption
     DEF BudgetAssumption, Init, Typed, TypeOK, PCs, InCall, NoReport, Tasks, Passes, Threads

\* Inside a call, the thread of a task is one of Threads.
LEMMA MineIsThread ==
  ASSUME Typed, pc \in InCall, NEW t \in Tasks PROVE Mine(t) \in Threads
  BY BudgetAssumption DEF BudgetAssumption, Typed, TypeOK, Mine, Threads, Passes

LEMMA TypedStep == Typed /\ [Next]_vars => Typed'
<1> USE BudgetAssumption DEF BudgetAssumption, Typed, TypeOK, PCs, InCall
<1> SUFFICES ASSUME Typed, [Next]_vars PROVE Typed' OBVIOUS
<1>1. CASE Call
  <2>1. pass' \in 0..MaxPass /\ pass' # 0
    BY <1>1 DEF Call
  <2> QED BY <1>1, <2>1, SMTT(30) DEF Call
<1>2. CASE StartThread
  <2>1. toStart' \in 1..(NTasks + 1)
    BY <1>2 DEF StartThread, Tasks
  <2>2. thread' \in [Threads -> {"new", "running", "closing", "ended"}]
    BY <1>2 DEF StartThread
  <2> QED BY <1>2, <2>1, <2>2 DEF StartThread, timeVars
<1>3. CASE SetDeadlines
  <2>1. \A t \in Tasks : Deadline(t, clock) \in Nat
    BY DEF Deadline, Own
  <2> QED BY <1>3, <2>1 DEF SetDeadlines, timeVars, workVars
<1>4. ASSUME NEW t \in Tasks, Join(t) PROVE Typed'
  BY <1>4 DEF Join, timeVars, workVars
<1>5. CASE AllJoined
  BY <1>5 DEF AllJoined, timeVars, workVars
<1>6. CASE Abandon
  <2>1. Live \subseteq Threads
    BY <1>6, MineIsThread DEF Abandon, Live
  <2> QED BY <1>6, <2>1 DEF Abandon, timeVars, workVars
<1>7. CASE Sweep
  BY <1>7 DEF Sweep, Registered, Swept, timeVars, workVars
<1>8. CASE Report
  <2>1. /\ delivered' \subseteq Passes
        /\ report' \in [results : SUBSET Tasks, truncated : SUBSET Tasks,
                         failed : SUBSET Tasks]
    BY <1>8 DEF Report, Passes
  <2>2. toStart' \in 1..(NTasks + 1) /\ deadlines' \in [Tasks -> Nat]
    BY <1>8 DEF Report, LocalsGone
  <2> QED BY <1>8, <2>1, <2>2 DEF Report, LocalsGone, timeVars, workVars
<1>9. CASE Exit
  BY <1>9 DEF Exit, timeVars, workVars
<1>10. CASE TakeStragglers
  <2>1. Taken \subseteq Threads
    BY DEF Taken, Swept
  <2>2. clock + Grace \in Nat
    OBVIOUS
  <2> QED BY <1>10, <2>1, <2>2, SMTT(30) DEF TakeStragglers, workVars
<1>11. ASSUME NEW th \in Threads, ExitJoin(th) PROVE Typed'
  BY <1>11 DEF ExitJoin, timeVars, workVars
<1>12. CASE Exited
  BY <1>12 DEF Exited, timeVars, workVars
<1>13. CASE StartFails
  <2>1. toStart' \in 1..(NTasks + 1)
    BY <1>13 DEF StartFails, LocalsGone
  <2> QED BY <1>13, <2>1, SMTT(30) DEF StartFails, LocalsGone, timeVars, workVars
<1>14. CASE Interrupt
  <2>1. toStart' \in 1..(NTasks + 1)
    BY <1>14 DEF Interrupt, LocalsGone
  <2> QED BY <1>14, <2>1, SMTT(30) DEF Interrupt, LocalsGone, Swept, timeVars, workVars
<1>15. CASE InterruptExit
  BY <1>15 DEF InterruptExit, timeVars, workVars
<1>16. CASE Tick
  <2>1. lag' \in 0..Slack /\ clock' \in Nat
    BY <1>16 DEF Tick
  <2> QED BY <1>16, <2>1 DEF Tick, mainVars, workVars
<1>17. ASSUME NEW th \in Threads, ThreadStep(th) PROVE Typed'
  <2> USE <1>17 DEF ThreadStep, mainVars, timeVars
  <2>1. CASE Answer(th)
    BY <2>1 DEF Answer
  <2>2. CASE Fail(th)
    BY <2>2 DEF Fail
  <2>3. CASE End(th)
    <3>1. endedAt' \in [Tasks -> Nat] /\ endedIn' \in [Threads -> 0..MaxPass]
      BY <2>3 DEF End
    <3> QED BY <2>3, <3>1 DEF End
  <2> QED BY <2>1, <2>2, <2>3
<1>18. CASE UNCHANGED vars
  BY <1>18 DEF vars, mainVars, workVars, timeVars
<1> QED
  BY <1>1, <1>2, <1>3, <1>4, <1>5, <1>6, <1>7, <1>8, <1>9, <1>10, <1>11, <1>12,
     <1>13, <1>14, <1>15, <1>16, <1>17, <1>18
     DEF Next, MainStep, Fault, Gone

\* Type correctness of every reachable state.
THEOREM TypeCorrect == Spec => []TypeOK
<1>1. Typed => TypeOK BY DEF Typed
<1> QED BY <1>1, TypedInit, TypedStep, PTL DEF Spec, SafeSpec

-----------------------------------------------------------------------------
(* What the check threads have recorded. *)

Recorded ==
  /\ \A th \in Threads :
        /\ th \in results \cup failed => thread[th] \in {"closing", "ended"}
        /\ ~ (th \in results /\ th \in failed)
        /\ th[1] > pass => thread[th] = "new"
  /\ \A p \in delivered : p <= pass
  /\ pc \in InCall => pass \notin delivered
  /\ pc = "starting" =>
        \A t \in Tasks : t >= toStart => thread[Mine(t)] = "new"

LEMMA RecordedInit == Init => Recorded
  BY BudgetAssumption DEF BudgetAssumption, Init, Recorded, InCall, Threads, Passes

\* A thread's step touches that thread only, brings nobody back to life and
\* forgets no record.
LEMMA ThreadStepEffect ==
  ASSUME Typed, NEW th \in Threads, ThreadStep(th)
  PROVE  /\ \A u \in Threads : u # th => thread'[u] = thread[u]
         /\ \A u \in Threads : Alive(u)' => Alive(u)
         /\ Alive(th)
         /\ thread'[th] # "new"
         /\ UNCHANGED <<mainVars, timeVars>>
  BY DEF ThreadStep, Answer, Fail, End, Alive, Typed, TypeOK

LEMMA RecordedStep == Typed /\ Recorded /\ [Next]_vars => Recorded'
<1> SUFFICES ASSUME Typed, Recorded, [Next]_vars PROVE Recorded' OBVIOUS
<1> USE DEF Recorded, InCall
<1>1. CASE Call
  <2>1. \A t \in Tasks : <<pass + 1, t>> \in Threads
    BY <1>1, BudgetAssumption DEF BudgetAssumption, Call, Threads, Passes, Typed, TypeOK
  <2>2. \A t \in Tasks : thread[<<pass + 1, t>>] = "new"
    BY <2>1, BudgetAssumption DEF Typed, TypeOK
  <2> QED BY <1>1, <2>2, BudgetAssumption
          DEF BudgetAssumption, Call, Mine, Typed, TypeOK, Threads, Passes
<1>2. CASE StartThread
  <2>1. Mine(toStart) \in Threads
    BY <1>2, MineIsThread DEF StartThread
  <2>2. thread' = [thread EXCEPT ![Mine(toStart)] = "running"]
    BY <1>2 DEF StartThread
  <2>3. thread[Mine(toStart)] = "new"
    BY <1>2, BudgetAssumption DEF StartThread, Typed, TypeOK, Tasks, BudgetAssumption
  <2>4. Mine(toStart)[1] = pass
    BY DEF Mine
  <2>5. \A t \in Tasks : t >= toStart + 1 =>
           /\ Mine(t) \in Threads /\ Mine(t) # Mine(toStart)
           /\ t >= toStart
    BY <1>2, MineIsThread, BudgetAssumption
       DEF StartThread, Mine, Tasks, BudgetAssumption
  <2>6. /\ UNCHANGED <<pc, pass, results, failed, delivered>>
        /\ toStart' = toStart + 1
    BY <1>2 DEF StartThread
  <2>7. \A t \in Tasks : Mine(t)' = Mine(t)
    BY <2>6 DEF Mine
  <2>8. \A u \in Threads : u # Mine(toStart) => thread'[u] = thread[u]
    BY <2>2 DEF Typed, TypeOK
  <2>9. thread'[Mine(toStart)] = "running"
    BY <2>1, <2>2 DEF Typed, TypeOK
  <2>10. \A th \in Threads :
        /\ th \in results \cup failed => thread'[th] \in {"closing", "ended"}
        /\ th[1] > pass => thread'[th] = "new"
    BY <2>3, <2>4, <2>8, BudgetAssumption DEF Typed, TypeOK, BudgetAssumption
  <2> QED BY <1>2, <2>5, <2>6, <2>7, <2>8, <2>10 DEF StartThread
<1>3. CASE SetDeadlines
  BY <1>3 DEF SetDeadlines, workVars
<1>4. ASSUME NEW t \in Tasks, Join(t) PROVE Recorded'
  BY <1>4 DEF Join, workVars
<1>5. CASE AllJoined \/ Abandon \/ Sweep
  BY <1>5 DEF AllJoined, Abandon, Sweep, workVars
<1>6. CASE Report
  BY <1>6, BudgetAssumption DEF Report, workVars, Typed, TypeOK
<1>7. CASE Exit \/ TakeStragglers \/ Exited
  BY <1>7 DEF Exit, TakeStragglers, Exited, workVars
<1>8. ASSUME NEW th \in Threads, ExitJoin(th) PROVE Recorded'
  BY <1>8 DEF ExitJoin, workVars
<1>9. CASE Fault
  BY <1>9 DEF Fault, StartFails, Interrupt, InterruptExit, workVars
<1>10. CASE Tick
  BY <1>10 DEF Tick, workVars, mainVars, Mine
<1>11. ASSUME NEW th \in Threads, ThreadStep(th) PROVE Recorded'
  <2>1. /\ UNCHANGED <<pc, pass, toStart, delivered>>
        /\ thread[th] # "new"
    BY <1>11, ThreadStepEffect DEF mainVars, Alive
  <2>2. \A t \in Tasks : Mine(t)' = Mine(t)
    BY <2>1 DEF Mine
  <2>3. \A u \in Threads : u # th => thread'[u] = thread[u]
    BY <1>11, ThreadStepEffect
  <2>4. \A u \in Threads :
        /\ u \in results' \cup failed' => thread'[u] \in {"closing", "ended"}
        /\ ~ (u \in results' /\ u \in failed')
    BY <1>11, <2>3 DEF ThreadStep, Answer, Fail, End, Typed, TypeOK, Alive
  <2>5. pc = "starting" => \A t \in Tasks : Mine(t) \in Threads
    BY MineIsThread
  <2> QED BY <2>1, <2>2, <2>3, <2>4, <2>5
<1>12. CASE UNCHANGED vars
  BY <1>12 DEF vars, mainVars, workVars, Mine
<1> QED
  BY <1>1, <1>2, <1>3, <1>4, <1>5, <1>6, <1>7, <1>8, <1>9, <1>10, <1>11, <1>12
     DEF Next, MainStep, Gone

-----------------------------------------------------------------------------
(* The registry of abandoned threads. *)

\* Who sees the live threads of returned calls at each point: the registry, and
\* from the exit handler on the list it took.  While a call sweeps, its own
\* live threads are in `abandoned` and then in the registry.
Covered ==
  /\ pc \notin {"exitjoin"} \cup Over =>
       \A th \in Threads : Alive(th) /\ th[1] \in delivered => th \in stragglers
  /\ pc = "sweeping" => \A t \in Tasks : Alive(Mine(t)) => Mine(t) \in abandoned
  /\ pc = "reporting" => \A t \in Tasks : Alive(Mine(t)) => Mine(t) \in stragglers
  /\ pc \in {"exitjoin", "exited"} =>
       /\ exitDeadline = since + Grace
       /\ \A th \in Threads :
            Alive(th) /\ th[1] \in delivered =>
                th \in exitJoins \/ clock >= exitDeadline
  /\ pc = "exited" => exitJoins = {}

LEMMA CoveredInit == Init => Covered
  BY DEF Init, Covered, Alive, Over

LEMMA CoveredStep == Typed /\ Recorded /\ Covered /\ [Next]_vars => Covered'
<1> SUFFICES ASSUME Typed, Recorded, Covered, [Next]_vars PROVE Covered' OBVIOUS
<1> USE DEF Covered, Over
<1>1. CASE Call
  BY <1>1 DEF Call, Alive
<1>2. CASE StartThread
  <2>1. /\ UNCHANGED <<pc, stragglers, delivered>>
        /\ pc = "starting"
        /\ pass \notin delivered
    BY <1>2 DEF StartThread, Recorded, InCall
  <2>2. \A th \in Threads : th # Mine(toStart) => thread'[th] = thread[th]
    BY <1>2 DEF StartThread, Typed, TypeOK
  <2>3. Mine(toStart)[1] = pass
    BY DEF Mine
  <2> QED BY <2>1, <2>2, <2>3 DEF Alive
<1>3. CASE SetDeadlines
  BY <1>3 DEF SetDeadlines, workVars, Alive
<1>4. ASSUME NEW t \in Tasks, Join(t) PROVE Covered'
  BY <1>4 DEF Join, workVars, Alive
<1>5. CASE AllJoined
  BY <1>5 DEF AllJoined, workVars, Alive
<1>6. CASE Abandon
  BY <1>6 DEF Abandon, Live, Mine, workVars, Alive
<1>7. CASE Sweep
  BY <1>7 DEF Sweep, Registered, Swept, Mine, workVars, Alive
<1>8. CASE Report
  <2>1. \A th \in Threads : th = <<th[1], th[2]>> /\ th[2] \in Tasks
    BY DEF Threads
  <2>2. \A th \in Threads : Alive(th) /\ th[1] = pass => th \in stragglers
    BY <1>8, <2>1 DEF Report, Mine
  <2> QED BY <1>8, <2>2 DEF Report, workVars, Alive
<1>9. CASE Exit
  BY <1>9 DEF Exit, workVars, Alive
<1>10. CASE TakeStragglers
  BY <1>10 DEF TakeStragglers, Taken, Swept, workVars, Alive
<1>11. ASSUME NEW th \in Threads, ExitJoin(th) PROVE Covered'
  BY <1>11 DEF ExitJoin, ExitJoinReturns, workVars, timeVars, Alive
<1>12. CASE Exited
  BY <1>12 DEF Exited, workVars, timeVars, Alive
<1>13. CASE StartFails
  BY <1>13 DEF StartFails, workVars, Alive
<1>14. CASE Interrupt
  <2>1. \A th \in stragglers : Alive(th) => th \in stragglers'
    BY <1>14 DEF Interrupt, Swept
  <2>2. pc \in InCall /\ pc' = "exiting" /\ UNCHANGED <<delivered, thread>>
    BY <1>14 DEF Interrupt, workVars
  <2> QED BY <2>1, <2>2 DEF InCall, Alive
<1>15. CASE InterruptExit
  BY <1>15 DEF InterruptExit, workVars, Alive
<1>16. CASE Tick
  <2>1. clock' = clock + 1 /\ clock \in Nat /\ exitDeadline \in Nat
    BY <1>16 DEF Tick, Typed, TypeOK
  <2> QED BY <1>16, <2>1 DEF Tick, Mine, mainVars, workVars, Alive
<1>17. ASSUME NEW th \in Threads, ThreadStep(th) PROVE Covered'
  <2>1. /\ \A u \in Threads : Alive(u)' => Alive(u)
        /\ UNCHANGED <<mainVars, timeVars>>
    BY <1>17, ThreadStepEffect
  <2>2. pc \in InCall => \A t \in Tasks : Mine(t) \in Threads
    BY MineIsThread
  <2> QED BY <2>1, <2>2 DEF Mine, mainVars, timeVars, InCall
<1>18. CASE UNCHANGED vars
  BY <1>18 DEF vars, mainVars, workVars, timeVars, Mine, Alive
<1> QED
  BY <1>1, <1>2, <1>3, <1>4, <1>5, <1>6, <1>7, <1>8, <1>9, <1>10, <1>11, <1>12,
     <1>13, <1>14, <1>15, <1>16, <1>17, <1>18
     DEF Next, MainStep, Fault, Gone

\* Between calls and during the next ones, every running thread of a call that
\* returned is in the registry.
THEOREM RegistryCovers == Spec => []RegistryCoversAbandoned
<1>1. Covered => RegistryCoversAbandoned
  BY DEF Covered, RegistryCoversAbandoned
<1> QED
  BY <1>1, TypedInit, TypedStep, RecordedInit, RecordedStep, CoveredInit,
     CoveredStep, PTL DEF Spec, SafeSpec

\* Whatever such a thread is doing when the process is gone, it had the grace
\* period, unless the exit handler itself was interrupted.
THEOREM GraceIsGiven == Spec => []GraceGiven
<1>1. Covered => GraceGiven
  BY DEF Covered, GraceGiven, Over
<1> QED
  BY <1>1, TypedInit, TypedStep, RecordedInit, RecordedStep, CoveredInit,
     CoveredStep, PTL DEF Spec, SafeSpec

-----------------------------------------------------------------------------
(* The registry does not grow. *)

EndedNow(th) == Alive(th) \/ endedIn[th] = pass

Fresh ==
  /\ pc = "sweeping" => \A th \in abandoned : EndedNow(th)
  /\ pc = "reporting" \/ Reported => \A th \in stragglers : EndedNow(th)

LEMMA FreshInit == Init => Fresh
  BY DEF Init, Fresh, Reported

LEMMA FreshStep == Typed /\ Recorded /\ Fresh /\ [Next]_vars => Fresh'
<1> SUFFICES ASSUME Typed, Recorded, Fresh, [Next]_vars PROVE Fresh' OBVIOUS
<1> USE DEF Fresh, Reported
<1>1. CASE Call \/ StartThread \/ SetDeadlines \/ AllJoined \/ Exit \/ TakeStragglers
  BY <1>1 DEF Call, StartThread, SetDeadlines, AllJoined, Exit, TakeStragglers
<1>2. ASSUME NEW t \in Tasks, Join(t) PROVE Fresh'
  BY <1>2 DEF Join
<1>3. CASE Abandon
  BY <1>3 DEF Abandon, Live, EndedNow, Alive, workVars
<1>4. CASE Sweep
  BY <1>4 DEF Sweep, Registered, Swept, EndedNow, Alive, workVars
<1>5. CASE Report
  BY <1>5 DEF Report, EndedNow, Alive, workVars
<1>6. ASSUME NEW th \in Threads, ExitJoin(th) PROVE Fresh'
  BY <1>6 DEF ExitJoin
<1>7. CASE Exited \/ InterruptExit \/ Interrupt
  BY <1>7 DEF Exited, InterruptExit, Interrupt
<1>8. CASE StartFails
  BY <1>8 DEF StartFails, Recorded, InCall
<1>9. CASE Tick
  BY <1>9 DEF Tick, mainVars, workVars, EndedNow, Alive
<1>10. ASSUME NEW th \in Threads, ThreadStep(th) PROVE Fresh'
  <2>1. \A u \in Threads : EndedNow(u) => EndedNow(u)'
    BY <1>10 DEF ThreadStep, Answer, Fail, End, EndedNow, Alive, mainVars, Typed, TypeOK
  <2> QED BY <2>1, <1>10 DEF ThreadStep, mainVars, Typed, TypeOK
<1>11. CASE UNCHANGED vars
  BY <1>11 DEF vars, mainVars, workVars, EndedNow, Alive
<1> QED
  BY <1>1, <1>2, <1>3, <1>4, <1>5, <1>6, <1>7, <1>8, <1>9, <1>10, <1>11
     DEF Next, MainStep, Fault, Gone

\* When a call has returned, no thread in the registry ended before that call.
THEOREM RegistryIsSwept == Spec => []RegistrySwept
<1>1. Fresh => RegistrySwept
  BY DEF Fresh, RegistrySwept, EndedNow
<1> QED
  BY <1>1, TypedInit, TypedStep, RecordedInit, RecordedStep, FreshInit,
     FreshStep, PTL DEF Spec, SafeSpec

-----------------------------------------------------------------------------
(* Time: no wait is longer than what it is bounded by. *)

Joined == {"abandoning", "sweeping", "reporting"}

\* The delay so far is in `lag`.  A task that is still to be joined has not been
\* passed by more than that: this is what the order of the joins buys.
Timely ==
  /\ pc = "starting" => clock <= lag /\ since = 0
  /\ pc \in {"joining"} \cup Joined => clock <= since + Budget + lag
  /\ pc = "joining" =>
       /\ \A t \in Tasks : deadlines[t] = Entitled(t)
       /\ \A t \in unjoined : clock <= deadlines[t] + lag
  /\ pc \in Joined => unjoined = {}
  /\ pc \in {"exitjoin", "exited"} => clock <= since + Grace + lag
  /\ pc = "exitjoin" => exitDeadline = since + Grace

LEMMA TimelyInit == Init => Timely
  BY DEF Init, Timely, Joined

LEMMA EntitledType == ASSUME Typed, NEW t \in Tasks
                      PROVE  /\ Entitled(t) \in Nat
                             /\ since <= Entitled(t)
                             /\ Entitled(t) <= since + Budget
  BY BudgetAssumption DEF BudgetAssumption, Typed, TypeOK, Entitled

\* Where every join still waits, all the deadlines are ahead.
LEMMA WaitingInTime ==
  ASSUME Typed, pc = "joining", Waiting, NEW u \in unjoined
  PROVE  clock < deadlines[u]
<1>1. PICK t \in unjoined : JoinedNext(t) /\ ~ JoinReturns(t)
  BY DEF Waiting
<1>2. clock < deadlines[t] /\ deadlines[t] \in Nat /\ deadlines[u] \in Nat
  BY <1>1 DEF JoinReturns, Typed, TypeOK
<1>3. deadlines[t] <= deadlines[u]
  BY <1>1, <1>2 DEF JoinedNext
<1> QED BY <1>2, <1>3 DEF Typed, TypeOK

LEMMA TimelyStep == Typed /\ Timely /\ [Next]_vars => Timely'
<1> SUFFICES ASSUME Typed, Timely, [Next]_vars PROVE Timely' OBVIOUS
<1> USE BudgetAssumption DEF BudgetAssumption, Timely, Joined
<1>0. clock \in Nat /\ lag \in Nat /\ since \in Nat
  BY DEF Typed, TypeOK
<1>1. CASE Call
  BY <1>1 DEF Call
<1>2. CASE StartThread
  BY <1>2 DEF StartThread, timeVars
<1>3. CASE SetDeadlines
  <2>1. /\ UNCHANGED <<clock, lag>>
        /\ since' = clock
        /\ unjoined' = Tasks
        /\ pc' = "joining"
    BY <1>3 DEF SetDeadlines, timeVars
  <2>2. \A t \in Tasks : deadlines'[t] = Entitled(t)'
    BY <1>3 DEF SetDeadlines, Deadline, Own, Entitled
  <2>3. \A t \in Tasks : clock <= deadlines'[t]
    BY <1>0, <2>1, <2>2 DEF Entitled
  <2>4. \A t \in Tasks : deadlines'[t] \in Nat
    BY <1>0, <2>1, <2>2 DEF Entitled
  <2> QED BY <1>0, <2>1, <2>2, <2>3, <2>4
<1>4. ASSUME NEW t \in Tasks, Join(t) PROVE Timely'
  BY <1>4 DEF Join, timeVars, Entitled
<1>5. CASE AllJoined \/ Abandon \/ Sweep
  BY <1>5 DEF AllJoined, Abandon, Sweep, timeVars
<1>6. CASE Report \/ Exit \/ StartFails \/ Interrupt \/ InterruptExit
  BY <1>6 DEF Report, Exit, StartFails, Interrupt, InterruptExit
<1>7. CASE TakeStragglers
  BY <1>0, <1>7 DEF TakeStragglers
<1>8. ASSUME NEW th \in Threads, ExitJoin(th) PROVE Timely'
  BY <1>8 DEF ExitJoin, timeVars
<1>9. CASE Exited
  BY <1>9 DEF Exited, timeVars
<1>10. CASE Tick
  <2>1. UNCHANGED mainVars /\ clock' = clock + 1 /\ pc # "exited"
    BY <1>10 DEF Tick, InCall
  <2>2. CASE Waiting
    <3>1. lag' = lag
      BY <1>10, <2>2 DEF Tick
    <3>2. ASSUME pc = "joining" PROVE Timely'
      <4>1. \A u \in unjoined : clock < deadlines[u] /\ deadlines[u] \in Nat
        BY <2>2, <3>2, WaitingInTime DEF Typed, TypeOK
      <4>2. PICK u \in unjoined : TRUE
        BY <2>2, <3>2 DEF Waiting
      <4>3. clock < since + Budget
        BY <1>0, <3>2, <4>1, <4>2, EntitledType DEF Typed, TypeOK
      <4>4. \A t \in Tasks : Entitled(t)' = Entitled(t)
        BY <2>1 DEF mainVars, Entitled
      <4> QED BY <1>0, <2>1, <3>1, <3>2, <4>1, <4>3, <4>4 DEF mainVars
    <3>3. ASSUME pc = "exitjoin" PROVE Timely'
      <4>1. clock < exitDeadline
        BY <1>0, <2>2, <3>3 DEF Waiting, ExitJoinReturns, Typed, TypeOK
      <4> QED BY <1>0, <2>1, <3>1, <3>3, <4>1 DEF mainVars
    <3> QED BY <2>2, <3>2, <3>3 DEF Waiting
  <2>3. CASE ~ Waiting
    <3>1. lag' = lag + 1
      BY <1>10, <2>3 DEF Tick
    <3>2. \A t \in unjoined : deadlines[t] \in Nat
      BY DEF Typed, TypeOK
    <3>3. \A t \in Tasks : Entitled(t)' = Entitled(t)
      BY <2>1 DEF mainVars, Entitled
    <3> QED BY <1>0, <2>1, <3>1, <3>2, <3>3 DEF mainVars
  <2> QED BY <2>2, <2>3
<1>11. ASSUME NEW th \in Threads, ThreadStep(th) PROVE Timely'
  BY <1>11 DEF ThreadStep, mainVars, timeVars, Entitled
<1>12. CASE UNCHANGED vars
  BY <1>12 DEF vars, mainVars, timeVars, Entitled
<1> QED
  BY <1>1, <1>2, <1>3, <1>4, <1>5, <1>6, <1>7, <1>8, <1>9, <1>10, <1>11, <1>12
     DEF Next, MainStep, Fault, Gone

\* A call ends within the budget and the exit handler within the grace period,
\* plus the main thread's own delay, however many tasks hang.
THEOREM WaitsAreBounded == Spec => []WaitsBounded
<1>1. Typed /\ Timely => WaitsBounded
  BY BudgetAssumption
     DEF BudgetAssumption, Timely, Joined, WaitsBounded, InCall, Typed, TypeOK
<1> QED
  BY <1>1, TypedInit, TypedStep, TimelyInit, TimelyStep, PTL DEF Spec, SafeSpec

-----------------------------------------------------------------------------
(* The verdicts. *)

\* What is known of a task once it has been joined.
JoinedInTime(t) ==
  /\ t \notin expired => ~ Alive(Mine(t)) /\ endedAt[t] <= Entitled(t) + Slack
  /\ t \in expired => /\ clock >= Entitled(t)
                      /\ Alive(Mine(t)) \/ endedAt[t] >= Entitled(t)

\* What the report says of a task stays justified after the call.
AnswerJustified(t) ==
  t \in report.results \cup report.failed =>
      thread[Mine(t)] = "ended" /\ endedAt[t] <= Entitled(t) + Slack

TruncationJustified(t) ==
  t \in report.truncated =>
      \/ clock >= Entitled(t) /\ (Alive(Mine(t)) \/ endedAt[t] >= Entitled(t))
      \/ ~ Alive(Mine(t)) /\ ~ InResults(t) /\ ~ InFailed(t)

Judged ==
  /\ \A t \in Tasks : endedAt[t] <= clock
  /\ pc \in {"joining"} \cup Joined =>
        /\ expired \cap unjoined = {}
        /\ \A t \in Tasks : t \notin unjoined => JoinedInTime(t)
  /\ Reported =>
        /\ OneVerdictEach
        /\ \A t \in Tasks : AnswerJustified(t) /\ TruncationJustified(t)

LEMMA JudgedInit == Init => Judged
  BY DEF Init, Judged, Joined, Reported

\* A step that leaves all of this alone.
JudgedVars == <<thread, results, failed, endedAt, clock, since, pass, report>>

LEMMA JoinedUnchanged ==
  ASSUME UNCHANGED <<JudgedVars, expired>>, NEW t \in Tasks, JoinedInTime(t)
  PROVE  JoinedInTime(t)'
  BY DEF JudgedVars, JoinedInTime, Alive, Mine, Entitled

LEMMA JudgedStep ==
  Typed /\ Recorded /\ Timely /\ Judged /\ [Next]_vars => Judged'
<1> SUFFICES ASSUME Typed, Recorded, Timely, Judged, [Next]_vars PROVE Judged'
  OBVIOUS
<1> USE DEF Judged, Joined
<1>0. /\ clock \in Nat /\ since \in Nat /\ lag \in Nat /\ lag <= Slack /\ Slack \in Nat
      /\ \A t \in Tasks : endedAt[t] \in Nat /\ Entitled(t) \in Nat
  BY BudgetAssumption, EntitledType DEF BudgetAssumption, Typed, TypeOK
<1>1. CASE Call
  BY <1>1 DEF Call, Reported
<1>2. CASE StartThread
  BY <1>2 DEF StartThread, Reported, timeVars
<1>3. CASE SetDeadlines
  BY <1>3 DEF SetDeadlines, Reported, timeVars, workVars
<1>4. ASSUME NEW t \in Tasks, Join(t) PROVE Judged'
  <2>1. UNCHANGED <<JudgedVars, pc, deadlines>> /\ pc = "joining"
    BY <1>4 DEF Join, JudgedVars, workVars, timeVars
  <2>2. \A u \in Tasks : u # t /\ u \notin unjoined => JoinedInTime(u)'
    BY <1>4, <2>1 DEF Join, JudgedVars, JoinedInTime, Alive, Mine, Entitled
  <2>3. t \in unjoined /\ clock <= deadlines[t] + lag /\ deadlines[t] = Entitled(t)
    <3>1. pc = "joining" /\ t \in unjoined
      BY <1>4 DEF Join, JoinedNext
    <3> QED BY <3>1 DEF Timely
  <2>4. CASE Alive(Mine(t))
    <3>1. clock >= Entitled(t)
      BY <1>4, <2>3, <2>4 DEF Join, JoinReturns
    <3> QED BY <1>4, <2>1, <2>2, <2>4, <3>1
            DEF Join, JudgedVars, JoinedInTime, Alive, Mine, Entitled, Reported
  <2>5. CASE ~ Alive(Mine(t))
    <3>1. endedAt[t] <= Entitled(t) + Slack
      BY <1>0, <2>3
    <3>2. t \notin expired => JoinedInTime(t)'
      BY <1>4, <2>1, <2>5, <3>1
         DEF Join, JudgedVars, JoinedInTime, Alive, Mine, Entitled
    <3>3. expired' = expired /\ unjoined' = unjoined \ {t}
      BY <1>4, <2>5 DEF Join
    <3>4. t \notin expired
      BY <2>1, <2>3
    <3> QED BY <2>1, <2>2, <3>2, <3>3, <3>4 DEF JudgedVars, Reported
  <2> QED BY <2>4, <2>5
<1>5. CASE AllJoined \/ Abandon \/ Sweep
  <2>1. UNCHANGED <<JudgedVars, expired, unjoined>>
    BY <1>5 DEF AllJoined, Abandon, Sweep, JudgedVars, workVars, timeVars
  <2>2. pc \in {"joining", "abandoning", "sweeping"} /\ pc' \in Joined
    BY <1>5 DEF AllJoined, Abandon, Sweep
  <2> QED BY <2>1, <2>2, JoinedUnchanged DEF JudgedVars, Reported
<1>6. CASE Report
  <2>1. /\ pc = "reporting" /\ pc' = "idle"
        /\ UNCHANGED <<thread, results, failed, endedAt, clock, since, pass>>
        /\ unjoined = {}
    BY <1>6 DEF Report, workVars, timeVars, Timely
  <2>2. /\ report'.results = {t \in Tasks : InResults(t) /\ t \notin expired}
        /\ report'.truncated = {t \in Tasks : Truncated(t)}
        /\ report'.failed = {t \in Tasks : InFailed(t) /\ t \notin expired}
    BY <1>6 DEF Report
  <2>3. \A t \in Tasks :
           /\ Mine(t) \in Threads
           /\ ~ (InResults(t) /\ InFailed(t))
           /\ InResults(t) \/ InFailed(t) => thread[Mine(t)] \in {"closing", "ended"}
    BY <2>1, MineIsThread DEF InCall, Recorded, InResults, InFailed
  <2>4. \A t \in Tasks : JoinedInTime(t)
    BY <2>1
  <2>5. OneVerdictEach'
    BY <2>2, <2>3 DEF OneVerdictEach, Truncated
  <2>6. \A t \in Tasks : AnswerJustified(t)'
    BY <2>1, <2>2, <2>3, <2>4
       DEF AnswerJustified, JoinedInTime, Alive, Mine, Entitled
  <2>7. \A t \in Tasks : TruncationJustified(t)'
    BY <2>1, <2>2, <2>3, <2>4
       DEF TruncationJustified, Truncated, JoinedInTime, Alive, Mine, Entitled,
           InResults, InFailed
  <2> QED BY <2>1, <2>5, <2>6, <2>7
<1>7. CASE Exit \/ TakeStragglers \/ Exited \/ Interrupt \/ InterruptExit
  BY <1>7 DEF Exit, TakeStragglers, Exited, Interrupt, InterruptExit, Reported,
              workVars, timeVars
<1>8. ASSUME NEW th \in Threads, ExitJoin(th) PROVE Judged'
  BY <1>8 DEF ExitJoin, Reported, workVars, timeVars
<1>9. CASE StartFails
  BY <1>9 DEF StartFails, Reported, Recorded, InCall, workVars, timeVars
<1>10. CASE Tick
  <2>1. /\ UNCHANGED <<thread, results, failed, endedAt, since, pass, report>>
        /\ UNCHANGED <<expired, unjoined, pc, delivered>>
        /\ clock' = clock + 1 /\ pc # "idle"
    BY <1>10 DEF Tick, mainVars, workVars, InCall
  <2>2. \A t \in Tasks : JoinedInTime(t) => JoinedInTime(t)'
    BY <1>0, <2>1 DEF JoinedInTime, Alive, Mine, Entitled
  <2> QED BY <1>0, <2>1, <2>2 DEF Reported
<1>11. ASSUME NEW th \in Threads, ThreadStep(th) PROVE Judged'
  <2>1. /\ UNCHANGED <<mainVars, timeVars>>
        /\ \A u \in Threads : Alive(u)' => Alive(u)
        /\ \A u \in Threads : u # th => thread'[u] = thread[u]
        /\ Alive(th)
    BY <1>11, ThreadStepEffect
  <2>2. /\ UNCHANGED <<pc, pass, expired, unjoined, report, since, delivered, clock>>
        /\ \A t \in Tasks : Mine(t)' = Mine(t) /\ Entitled(t)' = Entitled(t)
    BY <2>1 DEF mainVars, timeVars, Mine, Entitled
  <2>3. /\ th = <<th[1], th[2]>> /\ th[2] \in Tasks
    BY DEF Threads
  <2>4. /\ \A t \in Tasks : endedAt'[t] = endedAt[t] \/ endedAt'[t] = clock
        /\ \A t \in Tasks : Mine(t) # th => endedAt'[t] = endedAt[t]
        /\ \A t \in Tasks : Mine(t) = th =>
               Alive(Mine(t))' \/ endedAt'[t] = clock
    <3>1. CASE Answer(th) \/ Fail(th)
      BY <3>1, <2>2 DEF Answer, Fail, Alive, Typed, TypeOK
    <3>2. CASE End(th)
      <4>1. th[1] = pass => th = Mine(th[2])
        BY <2>3 DEF Mine
      <4>2. \A t \in Tasks : Mine(t)[1] = pass /\ Mine(t)[2] = t
        BY DEF Mine
      <4>3. \A t \in Tasks : endedAt'[t] = IF th = Mine(t) THEN clock ELSE endedAt[t]
        BY <3>2, <4>1, <4>2 DEF End, Typed, TypeOK
      <4> QED BY <4>3
    <3> QED BY <1>11, <3>1, <3>2 DEF ThreadStep
  <2>5. \A t \in Tasks : Mine(t) \in Threads \/ pc \notin InCall
    BY MineIsThread
  <2>6. \A t \in Tasks : Mine(t) \in Threads => (JoinedInTime(t) => JoinedInTime(t)')
    BY <1>0, <2>1, <2>2, <2>4 DEF JoinedInTime, Alive
  <2>7. Reported => \A t \in Tasks : Mine(t) \in Threads
    BY DEF Reported, Mine, Threads, Typed, TypeOK
  <2>8. \A t \in Tasks :
           Reported /\ AnswerJustified(t) => AnswerJustified(t)'
    BY <1>0, <2>1, <2>2, <2>4, <2>7 DEF AnswerJustified, Alive
  <2>9. \A t \in Tasks :
           Reported /\ TruncationJustified(t) => TruncationJustified(t)'
    <3> TAKE t \in Tasks
    <3> HAVE Reported /\ TruncationJustified(t)
    <3>1. CASE t \in report.truncated /\ ~ Alive(Mine(t)) /\ ~ InResults(t) /\ ~ InFailed(t)
      <4>1. th # Mine(t) /\ Mine(t) \in Threads
        BY <2>1, <2>7, <3>1
      <4>2. ~ InResults(t)' /\ ~ InFailed(t)' /\ ~ Alive(Mine(t))'
        BY <1>11, <2>1, <2>2, <3>1, <4>1
           DEF ThreadStep, Answer, Fail, End, InResults, InFailed
      <4> QED BY <2>2, <4>2 DEF TruncationJustified
    <3>2. CASE t \in report.truncated /\ clock >= Entitled(t)
               /\ (Alive(Mine(t)) \/ endedAt[t] >= Entitled(t))
      BY <1>0, <2>1, <2>2, <2>4, <2>7, <3>2 DEF TruncationJustified, Alive
    <3>3. CASE t \notin report.truncated
      BY <2>2, <3>3 DEF TruncationJustified
    <3> QED BY <3>1, <3>2, <3>3 DEF TruncationJustified
  <2>10. OneVerdictEach => OneVerdictEach'
    BY <2>2 DEF OneVerdictEach, Reported
  <2> QED BY <1>0, <2>2, <2>4, <2>5, <2>6, <2>8, <2>9, <2>10 DEF Reported, InCall
<1>12. CASE UNCHANGED vars
  BY <1>12 DEF vars, mainVars, workVars, timeVars, Reported, OneVerdictEach,
               AnswerJustified, TruncationJustified, JoinedInTime, Alive, Mine,
               Entitled, InResults, InFailed
<1> QED
  BY <1>1, <1>2, <1>3, <1>4, <1>5, <1>6, <1>7, <1>8, <1>9, <1>10, <1>11, <1>12
     DEF Next, MainStep, Fault, Gone

\* A call that returns gives every task exactly one verdict.
THEOREM ReportIsPartition == Spec => []OneVerdictEach
<1>1. Judged => OneVerdictEach
  BY DEF Judged, OneVerdictEach
<1> QED
  BY <1>1, TypedInit, TypedStep, RecordedInit, RecordedStep, TimelyInit,
     TimelyStep, JudgedInit, JudgedStep, PTL DEF Spec, SafeSpec

\* No answer is reported that came after its task's own deadline.
THEOREM AnswersAreTimely == Spec => []NoLateAnswer
<1>1. Typed /\ Judged => NoLateAnswer
  BY DEF Judged, NoLateAnswer, AnswerJustified, Typed, TypeOK
<1> QED
  BY <1>1, TypedInit, TypedStep, RecordedInit, RecordedStep, TimelyInit,
     TimelyStep, JudgedInit, JudgedStep, PTL DEF Spec, SafeSpec

\* No task is called truncated before its time is up.
THEOREM TruncationIsDeserved == Spec => []TruncatedHadItsTime
<1>1. Typed /\ Judged => TruncatedHadItsTime
  BY DEF Judged, TruncatedHadItsTime, TruncationJustified, Typed, TypeOK
<1> QED
  BY <1>1, TypedInit, TypedStep, RecordedInit, RecordedStep, TimelyInit,
     TimelyStep, JudgedInit, JudgedStep, PTL DEF Spec, SafeSpec

-----------------------------------------------------------------------------
(* Refinement of the contract (its safety part; that a call ends is left to TLC). *)

LEMMA ContractInit == Typed /\ Init => Contract!Init
  BY DEF Init, Contract!Init, Phase, Answered, Verdict, NoReport, InCall

LEMMA PassThreads ==
  ASSUME Typed, Recorded, NEW t \in Tasks, <<pass, t>> \in results \cup failed
  PROVE  <<pass, t>> \in Threads
  BY DEF Typed, TypeOK

LEMMA ContractStep ==
  Typed /\ Typed' /\ Recorded /\ Recorded' /\ [Next]_vars
    => [Contract!Next]_(Contract!vars)
<1> SUFFICES ASSUME Typed, Typed', Recorded, Recorded', [Next]_vars
             PROVE  [Contract!Next]_(Contract!vars)
  OBVIOUS
<1> USE DEF Contract!Next, Contract!vars, InCall, Phase
<1>a. ASSUME UNCHANGED <<pass, results, failed>> PROVE UNCHANGED Answered
  BY <1>a DEF Answered
<1>b. ASSUME UNCHANGED report PROVE UNCHANGED Verdict
  BY <1>b DEF Verdict
<1>1. CASE Call
  <2>1. \A t \in Tasks : <<pass', t>> \notin results' \cup failed'
    <3> SUFFICES ASSUME NEW t \in Tasks, <<pass', t>> \in results \cup failed
                 PROVE  FALSE
      BY <1>1 DEF Call
    <3>1. <<pass', t>> \in Threads
      BY DEF Typed, TypeOK
    <3>2. <<pass', t>>[1] > pass
      BY <1>1, BudgetAssumption DEF Call, Typed, TypeOK, BudgetAssumption
    <3> QED BY <3>1, <3>2 DEF Recorded
  <2>2. Answered' = [t \in Tasks |-> "none"]
    BY <2>1 DEF Answered
  <2> QED BY <1>1, <1>b, <2>2 DEF Call, Contract!Open
<1>2. CASE StartThread \/ AllJoined \/ Abandon \/ Sweep
  BY <1>2, <1>a, <1>b DEF StartThread, AllJoined, Abandon, Sweep, workVars
<1>3. CASE SetDeadlines
  BY <1>3, <1>a, <1>b DEF SetDeadlines, workVars
<1>4. ASSUME NEW t \in Tasks, Join(t) PROVE [Contract!Next]_(Contract!vars)
  BY <1>4, <1>a, <1>b DEF Join, workVars
<1>5. CASE Report
  <2>1. /\ report'.results = {t \in Tasks : InResults(t) /\ t \notin expired}
        /\ report'.truncated = {t \in Tasks : Truncated(t)}
        /\ report'.failed = {t \in Tasks : InFailed(t) /\ t \notin expired}
        /\ UNCHANGED <<pass, results, failed>>
    BY <1>5 DEF Report, workVars
  <2>2. pass # 0
    BY <1>5 DEF Report, Typed
  <2>3. ASSUME NEW t \in Tasks
        PROVE  Verdict'[t] =
                 IF t \in report'.truncated THEN "truncated" ELSE
                 IF Answered[t] = "value" THEN "result" ELSE "failed"
    <3>1. Verdict'[t] = IF t \in report'.results THEN "result"
                        ELSE IF t \in report'.failed THEN "failed"
                        ELSE IF t \in report'.truncated THEN "truncated"
                        ELSE "none"
      BY DEF Verdict
    <3>2. Answered[t] = IF InResults(t) THEN "value"
                        ELSE IF InFailed(t) THEN "error" ELSE "none"
      BY DEF Answered, InResults, InFailed, Mine
    <3>3. ~ (InResults(t) /\ InFailed(t))
      BY <1>5, MineIsThread DEF Report, Recorded, InResults, InFailed
    <3> QED BY <2>1, <3>1, <3>2, <3>3 DEF Truncated
  <2>4. \E late \in SUBSET Tasks : Verdict' = Contract!Judgement(late)
    <3>1. \A t \in Tasks : /\ Answered[t] \in {"none", "value", "error"}
                          /\ Answered[t] = "none" => t \in report'.truncated
      BY <2>1 DEF Answered, Truncated, InResults, InFailed, Mine
    <3>2. report'.truncated \in SUBSET Tasks
      BY <2>1
    <3>3. ASSUME NEW t \in Tasks
          PROVE  Verdict'[t] = Contract!Judgement(report'.truncated)[t]
      <4>1. CASE t \in report'.truncated
        BY <2>2, <2>3, <4>1 DEF Contract!Judgement
      <4>2. CASE t \notin report'.truncated /\ Answered[t] = "value"
        BY <2>2, <2>3, <4>2 DEF Contract!Judgement
      <4>3. CASE t \notin report'.truncated /\ Answered[t] = "error"
        BY <2>2, <2>3, <4>3 DEF Contract!Judgement
      <4>4. \/ t \in report'.truncated
            \/ t \notin report'.truncated /\ Answered[t] = "value"
            \/ t \notin report'.truncated /\ Answered[t] = "error"
        <5>1. Answered[t] = IF InResults(t) THEN "value"
                            ELSE IF InFailed(t) THEN "error" ELSE "none"
          BY DEF Answered, InResults, InFailed, Mine
        <5>2. ~ InResults(t) /\ ~ InFailed(t) => t \in report'.truncated
          BY <2>1 DEF Truncated
        <5> QED BY <5>1, <5>2
      <4> QED BY <4>1, <4>2, <4>3, <4>4
    <3>4. Verdict' = Contract!Judgement(report'.truncated)
      BY <3>3 DEF Verdict, Contract!Judgement
    <3> QED BY <3>2, <3>4
  <2>5. UNCHANGED Answered
    BY <1>a, <2>1
  <2> QED BY <1>5, <2>2, <2>4, <2>5 DEF Report, Contract!Close
<1>6. CASE Exit
  BY <1>6, <1>a, <1>b DEF Exit, workVars, Contract!Stop
<1>7. CASE TakeStragglers \/ Exited \/ InterruptExit
  BY <1>7, <1>a, <1>b DEF TakeStragglers, Exited, InterruptExit, workVars
<1>8. ASSUME NEW th \in Threads, ExitJoin(th) PROVE [Contract!Next]_(Contract!vars)
  BY <1>8, <1>a, <1>b DEF ExitJoin, workVars
<1>9. CASE StartFails \/ Interrupt
  BY <1>9, <1>a, <1>b DEF StartFails, Interrupt, workVars, Contract!Abort
<1>10. CASE Tick
  BY <1>10, <1>a, <1>b DEF Tick, mainVars, workVars
<1>11. ASSUME NEW th \in Threads, ThreadStep(th)
       PROVE  [Contract!Next]_(Contract!vars)
  <2>1. UNCHANGED <<pc, pass, report>>
    BY <1>11 DEF ThreadStep, mainVars
  <2>2. UNCHANGED Verdict
    BY <1>b, <2>1
  <2>3. th = <<th[1], th[2]>> /\ th[2] \in Tasks
    BY DEF Threads
  <2>4. CASE End(th)
    BY <1>a, <2>1, <2>2, <2>4 DEF End
  <2>5. CASE (Answer(th) \/ Fail(th)) /\ th[1] # pass
    <3>1. \A t \in Tasks : <<pass, t>> # th
      BY <2>5
    <3>2. UNCHANGED Answered
      BY <2>1, <2>5, <3>1 DEF Answer, Fail, Answered
    <3> QED BY <2>1, <2>2, <3>2
  <2>6. CASE (Answer(th) \/ Fail(th)) /\ th[1] = pass
    <3>1. th = <<pass, th[2]>> /\ pass # 0
      BY <2>3, <2>6, BudgetAssumption DEF BudgetAssumption, Threads, Passes
    <3>2. th \notin results /\ th \notin failed
      BY <2>6 DEF Answer, Fail, Recorded
    <3>3. Answered[th[2]] = "none"
      BY <2>3, <3>1, <3>2 DEF Answered
    <3>4. \A t \in Tasks : t # th[2] => <<pass, t>> # th
      BY <3>1
    <3>5. CASE Answer(th)
      <4>1. Answered' = [Answered EXCEPT ![th[2]] = "value"]
        BY <2>1, <2>3, <3>1, <3>4, <3>5 DEF Answer, Answered
      <4>2. Contract!Answer(th[2])
        BY <2>1, <2>2, <2>3, <3>1, <3>3, <4>1 DEF Contract!Answer
      <4> QED BY <2>3, <4>2
    <3>6. CASE Fail(th)
      <4>1. Answered' = [Answered EXCEPT ![th[2]] = "error"]
        BY <2>1, <2>3, <3>1, <3>2, <3>4, <3>6 DEF Fail, Answered
      <4>2. Contract!Answer(th[2])
        BY <2>1, <2>2, <2>3, <3>1, <3>3, <4>1 DEF Contract!Answer
      <4> QED BY <2>3, <4>2
    <3> QED BY <2>6, <3>5, <3>6
  <2> QED BY <1>11, <2>4, <2>5, <2>6 DEF ThreadStep
<1>12. CASE UNCHANGED vars
  BY <1>12, <1>a, <1>b DEF vars, mainVars, workVars
<1> QED
  BY <1>1, <1>2, <1>3, <1>4, <1>5, <1>6, <1>7, <1>8, <1>9, <1>10, <1>11, <1>12
     DEF Next, MainStep, Fault, Gone

\* Every step of run_with_budget, of its threads and of the exit handler is a
\* step of the contract or changes nothing a caller can see.
THEOREM BudgetImplementsContract == Spec => Contract!SafeSpec
  BY TypedInit, TypedStep, RecordedInit, RecordedStep, ContractInit, ContractStep,
     PTL DEF Spec, SafeSpec, Contract!SafeSpec
=============================================================================
