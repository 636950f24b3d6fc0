--------------------------- MODULE InstallProofs ----------------------------
(***************************************************************************)
(* Theorems about Install, for any versions of the package and any order   *)
(* of installs, uninstalls, failures, interruptions and reboots.           *)
(***************************************************************************)
EXTENDS Install, Integers, TLAPS

-----------------------------------------------------------------------------
(* The inductive invariant. *)

TypeOK ==
    /\ systemd \in BOOLEAN /\ enabled \in BOOLEAN /\ active \in BOOLEAN
    /\ changed \in BOOLEAN
    /\ version \in Versions
    /\ disk \in [Files -> [text : Versions, right : BOOLEAN] \cup {Absent}]
    /\ svc \in {"off", "helper", "copying", "collect", "writing"}
    /\ pc \in {"idle", "write", "reload", "enable", "disable", "stop", "unlink"}

\* The files that are still to be written, or to be deleted, are the last ones
\* of their list.
WriteLeft == {WriteOrder, <<"service", "timer">>, <<"timer">>, <<>>}
DoomedLeft ==
    {Doomed, <<"timer", "script", "host", "dump", "work">>,
     <<"script", "host", "dump", "work">>, <<"host", "dump", "work">>,
     <<"dump", "work">>, <<"work">>, <<>>}

Among(s) == {s[i] : i \in DOMAIN s}

\* What systemd has enabled, or runs, is installed: so a service that has no unit
\* file is not running, which is what _stop_units concludes from the missing file.
\* systemctl enable is only reached after a daemon-reload that worked.
UnitsInstalled ==
    /\ enabled \/ active \/ svc # "off" => systemd /\ \A f \in Files : Exists(f)
    /\ pc = "enable" => systemd

\* From the moment the timer is disabled nothing starts the collector again.
StaysStopped ==
    /\ pc \in {"stop", "unlink"} => ~ enabled /\ ~ active
    /\ pc = "unlink" => svc = "off"

\* What the installer has looked at is as it should be.
WrittenSoFar ==
    /\ pc = "write" => todo \in WriteLeft
    /\ pc \in {"reload", "enable"} => todo = <<>>
    /\ pc \in {"write", "reload", "enable"} =>
         \A f \in Files \ Among(todo) : disk[f] = Put(f)

\* What the uninstaller has unlinked is gone.
DeletedSoFar ==
    pc = "unlink" =>
      /\ todo \in DoomedLeft
      /\ \A f \in Files \ Among(todo) : ~ Exists(f)
      /\ litter \cap ({"host", "dump", "work"} \ Among(todo)) = {}

Inv == TypeOK /\ UnitsInstalled /\ StaysStopped /\ WrittenSoFar /\ DeletedSoFar

-----------------------------------------------------------------------------
(* Lists. *)

\* Taking the head off a list takes it out of what is left.
LEMMA TailOf ==
  ASSUME NEW s \in WriteLeft \cup DoomedLeft, s # <<>>
  PROVE  /\ s \in WriteLeft => Tail(s) \in WriteLeft /\ Head(s) \in Files
         /\ s \in DoomedLeft => Tail(s) \in DoomedLeft
         /\ Among(s) \subseteq Among(Tail(s)) \cup {Head(s)}
<1> DEFINE Words == {"service", "timer", "script", "host", "dump", "work"}
<1>1. s \in Seq(Words)
  <2>1. <<>> \in Seq(Words) /\ <<"timer">> \in Seq(Words) /\ <<"work">> \in Seq(Words)
    OBVIOUS
  <2>2. <<"service", "timer">> \in Seq(Words) /\ <<"dump", "work">> \in Seq(Words)
    OBVIOUS
  <2>3. /\ <<"script", "service", "timer">> \in Seq(Words)
        /\ <<"host", "dump", "work">> \in Seq(Words)
    OBVIOUS
  <2>4. <<"script", "host", "dump", "work">> \in Seq(Words)
    OBVIOUS
  <2>5. <<"timer", "script", "host", "dump", "work">> \in Seq(Words)
    OBVIOUS
  <2>6. <<"service", "timer", "script", "host", "dump", "work">> \in Seq(Words)
    OBVIOUS
  <2> HIDE DEF Words
  <2>7. CASE s \in WriteLeft
    BY <2>1, <2>2, <2>3, <2>7, Zenon DEF WriteLeft, WriteOrder
  <2>8. CASE s \in DoomedLeft
    BY <2>1, <2>2, <2>3, <2>4, <2>5, <2>6, <2>8, Zenon DEF DoomedLeft, Doomed
  <2> QED BY <2>7, <2>8
<1>2. Among(s) \subseteq Among(Tail(s)) \cup {Head(s)}
  <2>1. /\ Head(s) = s[1] /\ DOMAIN s = 1..Len(s) /\ Len(s) \in Nat \ {0}
        /\ DOMAIN Tail(s) = 1..(Len(s) - 1)
        /\ \A i \in 1..(Len(s) - 1) : Tail(s)[i] = s[i + 1]
    BY <1>1
  <2>2. ASSUME NEW i \in 1..Len(s), i # 1  PROVE  s[i] \in Among(Tail(s))
    <3>1. i - 1 \in 1..(Len(s) - 1) /\ (i - 1) + 1 = i
      BY <2>1, <2>2
    <3> QED BY <2>1, <3>1 DEF Among
  <2> QED BY <2>1, <2>2 DEF Among
<1>3. ASSUME s \in WriteLeft  PROVE  Tail(s) \in WriteLeft /\ Head(s) \in Files
  <2>1. CASE s = WriteOrder
    BY <2>1 DEF WriteLeft, WriteOrder, Files, Units
  <2>2. CASE s = <<"service", "timer">>
    BY <2>2 DEF WriteLeft, Files, Units
  <2>3. CASE s = <<"timer">>
    BY <2>3 DEF WriteLeft, Files, Units
  <2> QED BY <1>3, <2>1, <2>2, <2>3 DEF WriteLeft
<1>4. ASSUME s \in DoomedLeft  PROVE  Tail(s) \in DoomedLeft
  <2>1. CASE s = Doomed
    BY <2>1 DEF DoomedLeft, Doomed
  <2>2. CASE s = <<"timer", "script", "host", "dump", "work">>
    BY <2>2 DEF DoomedLeft
  <2>3. CASE s = <<"script", "host", "dump", "work">>
    BY <2>3 DEF DoomedLeft
  <2>4. CASE s = <<"host", "dump", "work">>
    BY <2>4 DEF DoomedLeft
  <2>5. CASE s = <<"dump", "work">>
    BY <2>5 DEF DoomedLeft
  <2>6. CASE s = <<"work">>
    BY <2>6 DEF DoomedLeft
  <2> QED BY <1>4, <2>1, <2>2, <2>3, <2>4, <2>5, <2>6 DEF DoomedLeft
<1> QED BY <1>2, <1>3, <1>4

LEMMA EmptyList == Among(<<>>) = {}
BY DEF Among

LEMMA WholeList ==
  /\ Files \ Among(WriteOrder) = {}
  /\ Files \ Among(Doomed) = {}
  /\ {"host", "dump", "work"} \ Among(Doomed) = {}
<1>1. WriteOrder[1] = "script" /\ WriteOrder[2] = "service" /\ WriteOrder[3] = "timer"
  BY DEF WriteOrder
<1>2. DOMAIN WriteOrder = 1..3
  BY DEF WriteOrder
<1>3. DOMAIN Doomed = 1..6
  BY DEF Doomed
<1>4. /\ Doomed[1] = "service" /\ Doomed[2] = "timer" /\ Doomed[3] = "script"
      /\ Doomed[4] = "host" /\ Doomed[5] = "dump" /\ Doomed[6] = "work"
  BY DEF Doomed
<1> QED BY <1>1, <1>2, <1>3, <1>4 DEF Among, Files, Units

-----------------------------------------------------------------------------
(* The invariant is kept. *)

LEMMA Initially == Init => Inv
<1> SUFFICES ASSUME Init  PROVE  Inv
  OBVIOUS
<1>1. TypeOK
  BY DEF Init, TypeOK, Absent
<1> QED BY <1>1 DEF Init, Inv, UnitsInstalled, StaysStopped, WrittenSoFar, DeletedSoFar

LEMMA InstallKeeps ==
  ASSUME Inv, NEW v \in Versions, Install(v)  PROVE  Inv'
BY WholeList DEF Inv, TypeOK, UnitsInstalled, StaysStopped, WrittenSoFar, DeletedSoFar,
       Install, WriteLeft, systemdVars, serviceVars, Exists, Put

\* A file that is right exists.
LEMMA PutExists ==
  ASSUME TypeOK, NEW f  PROVE  Put(f) # Absent
BY InstallAssumption DEF TypeOK, Put, Absent

LEMMA PutFileKeeps == ASSUME Inv, PutFile  PROVE  Inv'
<1> USE DEF Inv, PutFile, systemdVars, serviceVars, argVars
<1>1. todo \in WriteLeft /\ todo # <<>>
  BY DEF WrittenSoFar
<1>2. /\ Tail(todo) \in WriteLeft /\ Head(todo) \in Files
      /\ Among(todo) \subseteq Among(Tail(todo)) \cup {Head(todo)}
  BY <1>1, TailOf
<1>3. \A f \in Files : disk'[f] = IF f = Head(todo) THEN Put(f) ELSE disk[f]
  BY <1>2 DEF TypeOK, Put
<1>4. TypeOK'
  BY <1>2 DEF TypeOK, Put
<1>5. UnitsInstalled'
  BY <1>3, PutExists DEF UnitsInstalled, Exists
<1>6. StaysStopped' /\ DeletedSoFar'
  BY DEF StaysStopped, DeletedSoFar
<1>7. WrittenSoFar'
  BY <1>2, <1>3 DEF WrittenSoFar, Put
<1> QED BY <1>4, <1>5, <1>6, <1>7

LEMMA CheckKeeps == ASSUME Inv, Check  PROVE  Inv'
BY EmptyList DEF Inv, TypeOK, UnitsInstalled, StaysStopped, WrittenSoFar, DeletedSoFar,
       Check, AllWritten, Finish, systemdVars, serviceVars, argVars, Exists, Put

LEMMA ReloadKeeps == ASSUME Inv, Reload  PROVE  Inv'
<1> USE DEF Inv, Reload, AllWritten, Reloads, Finish, systemdVars, serviceVars, argVars
<1>1. TypeOK' /\ StaysStopped' /\ DeletedSoFar'
  BY DEF TypeOK, StaysStopped, DeletedSoFar
<1>2. UnitsInstalled'
  BY DEF UnitsInstalled, Exists
<1>3. todo = <<>> /\ \A f \in Files : disk[f] = Put(f)
  BY EmptyList DEF WrittenSoFar
<1>4. WrittenSoFar'
  BY <1>3 DEF WrittenSoFar, Put
<1> QED BY <1>1, <1>2, <1>4

LEMMA EnableKeeps == ASSUME Inv, Enable  PROVE  Inv'
<1> USE DEF Inv, Enable, Enables, Finish, systemdVars, serviceVars, argVars
<1>1. systemd \in BOOLEAN /\ \A f \in Files : Exists(f)
  BY EmptyList, PutExists DEF WrittenSoFar, Exists, TypeOK
<1>2. TypeOK'
  BY DEF TypeOK
<1>3. UnitsInstalled'
  BY <1>1 DEF UnitsInstalled, Exists
<1>4. StaysStopped' /\ WrittenSoFar' /\ DeletedSoFar'
  BY DEF StaysStopped, WrittenSoFar, DeletedSoFar
<1> QED BY <1>2, <1>3, <1>4

LEMMA UninstallKeeps == ASSUME Inv, Uninstall  PROVE  Inv'
BY DEF Inv, TypeOK, UnitsInstalled, StaysStopped, WrittenSoFar, DeletedSoFar,
       Uninstall, systemdVars, serviceVars, argVars, Exists

\* While the timer cannot be disabled it is not yet stopped, and without its file
\* it was neither enabled nor active.
LEMMA DisableKeeps == ASSUME Inv, Disable  PROVE  Inv'
<1> USE DEF Inv, Disable, AfterDisable, StartsDeleting, Refuses, Finish,
            systemdVars, serviceVars, argVars
<1>1. Doomed \in DoomedLeft
  BY DEF DoomedLeft
<1>2. TypeOK'
  BY DEF TypeOK
<1>0. /\ pc' \in {"idle", "stop", "unlink"}
      /\ active' => active
      /\ enabled' => enabled
  <2>1. pc' \in {"idle", "stop", "unlink"}
    OBVIOUS
  <2>2. (active' = active \/ active' = FALSE) /\ (enabled' = enabled \/ enabled' = FALSE)
    BY Zenon
  <2> QED BY <2>1, <2>2
<1>3. UnitsInstalled'
  BY <1>0 DEF UnitsInstalled, Exists
<1>4. StaysStopped'
  <2>1. CASE ~ systemd /\ StartsDeleting /\ UNCHANGED systemdVars
    BY <2>1 DEF StaysStopped, UnitsInstalled
  <2>2. CASE enabled' = FALSE /\ active' = FALSE /\ AfterDisable
    BY <2>2 DEF StaysStopped
  <2>3. CASE Refuses("timer")
    BY <2>3 DEF StaysStopped
  <2>4. CASE ~ Exists("timer") /\ AfterDisable /\ enabled' \in {enabled, FALSE}
             /\ UNCHANGED active
    <3>1. ~ enabled /\ ~ active
      BY <2>4 DEF UnitsInstalled, Files, Units
    <3> QED BY <1>0, <2>4, <3>1 DEF StaysStopped
  <2> QED BY <2>1, <2>2, <2>3, <2>4
<1>5. WrittenSoFar'
  BY DEF WrittenSoFar
<1>6. DeletedSoFar'
  BY <1>1, WholeList, Zenon DEF DeletedSoFar
<1> QED BY <1>2, <1>3, <1>4, <1>5, <1>6

LEMMA StopKeeps == ASSUME Inv, Stop  PROVE  Inv'
<1> USE DEF Inv, Stop, Killed, StartsDeleting, Refuses, Finish,
            systemdVars, serviceVars, argVars
<1>1. Doomed \in DoomedLeft
  BY DEF DoomedLeft
<1>2. TypeOK'
  BY DEF TypeOK
<1>3. UnitsInstalled'
  BY DEF UnitsInstalled, Exists
<1>4. StaysStopped'
  BY DEF StaysStopped, UnitsInstalled, Files, Units
<1>5. WrittenSoFar'
  BY DEF WrittenSoFar
<1>6. DeletedSoFar'
  <2>1. pc' = "unlink" => todo' = Doomed
    OBVIOUS
  <2> QED BY <1>1, <2>1, WholeList DEF DeletedSoFar
<1> QED BY <1>2, <1>3, <1>4, <1>5, <1>6

LEMMA UnlinkKeeps == ASSUME Inv, Unlink  PROVE  Inv'
<1> USE DEF Inv, Unlink, systemdVars, serviceVars, argVars
<1>1. todo \in DoomedLeft /\ todo # <<>>
  BY DEF DeletedSoFar
<1>2. Tail(todo) \in DoomedLeft /\ Among(todo) \subseteq Among(Tail(todo)) \cup {Head(todo)}
  BY <1>1, TailOf
<1>3. \A f \in Files : disk'[f] = IF f = Head(todo) THEN Absent ELSE disk[f]
  OBVIOUS
<1>4. TypeOK'
  BY DEF TypeOK, Absent
<1>5. UnitsInstalled' /\ StaysStopped' /\ WrittenSoFar'
  BY DEF UnitsInstalled, StaysStopped, WrittenSoFar
<1>6. \A f \in Files \ Among(todo') : ~ Exists(f)'
  BY <1>2, <1>3 DEF DeletedSoFar, Exists
<1>7. litter' \cap ({"host", "dump", "work"} \ Among(todo')) = {}
  BY <1>2 DEF DeletedSoFar
<1> QED BY <1>2, <1>4, <1>5, <1>6, <1>7 DEF DeletedSoFar

LEMMA ReportKeeps == ASSUME Inv, Report  PROVE  Inv'
<1> USE DEF Inv, Report, Reloads, Finish, systemdVars, serviceVars, argVars
<1>1. pc' = "idle" /\ UNCHANGED <<systemd, version, disk, enabled, active, svc, litter>>
  OBVIOUS
<1>2. TypeOK'
  BY <1>1 DEF TypeOK
<1> QED BY <1>1, <1>2 DEF UnitsInstalled, StaysStopped, WrittenSoFar, DeletedSoFar, Exists

LEMMA InterruptKeeps == ASSUME Inv, Interrupt  PROVE  Inv'
BY DEF Inv, TypeOK, UnitsInstalled, StaysStopped, WrittenSoFar, DeletedSoFar,
       Interrupt, Finish, systemdVars, serviceVars, argVars, Exists

\* Only an active timer starts the service, so what it runs is installed; and while
\* files are deleted it does not run, so nothing new is put into /run.
LEMMA ServiceKeeps == ASSUME Inv, Service  PROVE  Inv'
<1> USE DEF Inv, Service, systemdVars, argVars
<1>1. /\ svc' \in {"off", "helper", "copying", "collect", "writing"}
      /\ svc = "off" => active
  BY DEF Fire, HelperCopies, HelperMoves, Writes, Replaces, Killed
<1>2. TypeOK'
  BY <1>1 DEF TypeOK
<1>3. UnitsInstalled'
  BY <1>1 DEF UnitsInstalled, Exists
<1>4. pc # "unlink"
  BY <1>1 DEF StaysStopped
<1>5. StaysStopped' /\ WrittenSoFar' /\ DeletedSoFar'
  BY <1>4 DEF StaysStopped, WrittenSoFar, DeletedSoFar, Put
<1> QED BY <1>2, <1>3, <1>5

LEMMA MeddleKeeps == ASSUME Inv, Meddle  PROVE  Inv'
<1> USE DEF Inv, Meddle, systemdVars, serviceVars, argVars
<1>1. StaysStopped' /\ WrittenSoFar' /\ DeletedSoFar'
  BY DEF StaysStopped, WrittenSoFar, DeletedSoFar
<1>2. ASSUME UNCHANGED disk  PROVE  Inv'
  <2>1. (active' = active \/ active' = FALSE) /\ (enabled' = enabled \/ enabled' = FALSE)
    BY Zenon
  <2>2. TypeOK'
    BY <1>2 DEF TypeOK
  <2> QED BY <1>1, <1>2, <2>1, <2>2 DEF UnitsInstalled, Exists
<1>3. ASSUME NEW f \in Files, Exists(f), disk' = [disk EXCEPT ![f].right = FALSE],
             UNCHANGED systemdVars
      PROVE  Inv'
  <2>1. /\ disk[f] \in [text : Versions, right : BOOLEAN]
        /\ disk'[f] = [text |-> disk[f].text, right |-> FALSE]
        /\ \A g \in Files \ {f} : disk'[g] = disk[g]
    BY <1>3 DEF TypeOK, Exists
  <2>2. disk'[f] \in [text : Versions, right : BOOLEAN] /\ disk'[f] # Absent
    BY <2>1, InstallAssumption DEF Absent
  <2>3. disk' \in [Files -> [text : Versions, right : BOOLEAN] \cup {Absent}]
    BY <1>3, <2>1, <2>2 DEF TypeOK
  <2>4. TypeOK'
    BY <1>3, <2>3 DEF TypeOK
  <2>5. \A g \in Files : Exists(g) => Exists(g)'
    BY <2>1, <2>2 DEF Exists
  <2> QED BY <1>1, <1>3, <2>4, <2>5 DEF UnitsInstalled
<1> QED BY <1>2, <1>3

LEMMA RebootKeeps == ASSUME Inv, Reboot  PROVE  Inv'
BY DEF Inv, TypeOK, UnitsInstalled, StaysStopped, WrittenSoFar, DeletedSoFar,
       Reboot, Finish, argVars, Exists

LEMMA StutterKeeps == ASSUME Inv, UNCHANGED vars  PROVE  Inv'
BY DEF Inv, TypeOK, UnitsInstalled, StaysStopped, WrittenSoFar, DeletedSoFar,
       vars, argVars, systemdVars, serviceVars, Exists, Put

LEMMA NextKeeps == Inv /\ [Next]_vars => Inv'
BY InstallKeeps, PutFileKeeps, CheckKeeps, ReloadKeeps, EnableKeeps, UninstallKeeps,
   DisableKeeps, StopKeeps, UnlinkKeeps, ReportKeeps, InterruptKeeps, ServiceKeeps,
   MeddleKeeps, RebootKeeps, StutterKeeps DEF Next, Installer

\* Each step of the installer, of systemd and of whoever meddles keeps what is known of
\* the unit files and of what runs, for any versions, failures and interruptions.
THEOREM Invariance == Spec => []Inv
<1>1. Init => Inv
  BY Initially
<1> QED BY <1>1, NextKeeps, PTL DEF Spec

-----------------------------------------------------------------------------
(* A report is only made by the step that ends the work. *)

Silent == pc # "idle" => result = "none"

LEMMA SilentKeeps == Silent /\ [Next]_vars => Silent'
<1> SUFFICES ASSUME Silent, [Next]_vars  PROVE  Silent'
  OBVIOUS
<1> USE DEF Silent
<1>1. CASE Installer
  <2>1. CASE (\E v \in Versions : Install(v)) \/ PutFile \/ Check \/ Uninstall
    BY <2>1 DEF Install, PutFile, Check, AllWritten, Uninstall, Finish
  <2>2. CASE Reload \/ Enable
    BY <2>2 DEF Reload, Enable, Finish, AllWritten
  <2>3. CASE Disable
    BY <2>3 DEF Disable, Finish, AfterDisable, StartsDeleting, Refuses
  <2>4. CASE Stop
    BY <2>4 DEF Stop, Finish, StartsDeleting, Refuses
  <2>5. CASE Unlink \/ Report \/ Interrupt
    BY <2>5 DEF Unlink, Report, Interrupt, Finish
  <2> QED BY <1>1, <2>1, <2>2, <2>3, <2>4, <2>5 DEF Installer
<1>2. CASE Service \/ UNCHANGED vars
  BY <1>2 DEF Service, vars
<1>3. CASE Meddle \/ Reboot
  BY <1>3 DEF Meddle, Reboot, Finish
<1> QED BY <1>1, <1>2, <1>3 DEF Next

LEMMA SilentWhileWorking == Spec => []Silent
<1>1. Init => Silent
  BY DEF Init, Silent
<1> QED BY <1>1, SilentKeeps, PTL DEF Spec

Successes == {"removed", "nothing to remove", "written", "activated", "unchanged"}

\* Only three steps report a success.
LEMMA WhoReports ==
  ASSUME Silent, [Next]_vars, Reports(Successes)
  PROVE  \/ Check /\ TimerRunning /\ Finish("unchanged")
         \/ Enable /\ Enables /\ Finish(IF changed THEN "written" ELSE "activated")
         \/ Report /\ (Finish("nothing to remove") \/ Finish("removed"))
<1> USE DEF Silent, Reports, Successes
<1>1. CASE Service \/ UNCHANGED vars \/ Meddle \/ Reboot
  BY <1>1 DEF Service, vars, Meddle, Reboot, Finish
<1>2. CASE (\E v \in Versions : Install(v)) \/ PutFile \/ Reload \/ Uninstall \/ Interrupt
  BY <1>2 DEF Install, PutFile, Reload, Uninstall, Interrupt, Finish
<1>3. CASE Disable \/ Stop \/ Unlink
  BY <1>3 DEF Disable, Stop, Unlink, Finish, AfterDisable, StartsDeleting, Refuses
<1>4. CASE Check
  BY <1>4 DEF Check
<1>5. CASE Enable
  BY <1>5 DEF Enable, Finish
<1>6. CASE Report
  BY <1>6 DEF Report, Finish
<1> QED BY <1>1, <1>2, <1>3, <1>4, <1>5, <1>6 DEF Next, Installer

-----------------------------------------------------------------------------
(* The theorems. *)

\* Files are only taken away by Unlink.
LEMMA DeletesWhenStopped ==
  ASSUME Inv, [Next]_vars, Deletes  PROVE  svc = "off"
<1>1. CASE pc = "unlink"
  BY <1>1 DEF Inv, StaysStopped
<1>2. CASE pc # "unlink"
  <2>1. PICK f \in Files : Exists(f) /\ disk'[f] = Absent
    BY <1>2 DEF Deletes
  <2>2. disk' # disk
    BY <2>1 DEF Exists
  <2>3. PutFile \/ Meddle
    BY <1>2, <2>2 DEF Next, Installer, Install, PutFile, Check, Reload, Enable, Uninstall,
       Disable, Stop, Unlink, Report, Interrupt, Service, Meddle, Reboot, vars
  <2>4. CASE PutFile
    <3>1. \A g \in Files : disk'[g] = Put(g) \/ disk'[g] = disk[g]
      BY <2>4 DEF PutFile, Inv, TypeOK, Put
    <3> QED BY <2>1, <3>1, PutExists DEF Exists, Inv
  <2>5. CASE Meddle
    <3>1. PICK g \in Files : Exists(g) /\ disk' = [disk EXCEPT ![g].right = FALSE]
      BY <2>2, <2>5 DEF Meddle
    <3>2. disk'[g] = [text |-> disk[g].text, right |-> FALSE] /\ disk[g].text \in Versions
      BY <3>1 DEF Inv, TypeOK, Exists
    <3>3. disk'[g] # Absent
      BY <3>2, InstallAssumption DEF Absent
    <3> QED BY <2>1, <3>1, <3>3 DEF Exists, Inv, TypeOK
  <2> QED BY <2>3, <2>4, <2>5
<1> QED BY <1>1, <1>2

\* Nothing is deleted under a running collector or dump helper: _stop_units comes
\* before the first unlink whatever was interrupted or failed before, and the timer
\* it stops is the only thing that could start another run.
THEOREM NeverDeletedUnderCollector == Spec => NothingDeletedUnderCollector
<1>1. Inv /\ [Next]_vars => [Deletes => svc = "off"]_vars
  BY DeletesWhenStopped
<1> QED BY <1>1, Invariance, PTL DEF Spec, NothingDeletedUnderCollector

LEMMA ReportIsTrue ==
  ASSUME Inv, Silent, [Next]_vars, Reports({"removed", "nothing to remove"})
  PROVE  /\ \A f \in Files : ~ Exists(f)
         /\ litter \cap {"host", "dump", "work"} = {}
         /\ ~ active /\ svc = "off"
<1>1. Reports(Successes)
  BY DEF Reports, Successes
<1>2. Report
  BY <1>1, WhoReports DEF Finish, Reports
<1>3. pc = "unlink" /\ todo = <<>>
  BY <1>2 DEF Report
<1> QED BY <1>3, EmptyList DEF Inv, StaysStopped, DeletedSoFar

\* What _remove_collector reports as removed is gone, with the timer that would make
\* it again, whatever earlier attempts left behind.
THEOREM RemovedIsGone == Spec => RemovedLeavesNoCopy
<1>1. Inv /\ Silent /\ [Next]_vars =>
        [Reports({"removed", "nothing to remove"}) =>
           /\ \A f \in Files : ~ Exists(f)
           /\ litter \cap {"host", "dump", "work"} = {}
           /\ ~ active /\ svc = "off"]_vars
  BY ReportIsTrue
<1> QED BY <1>1, Invariance, SilentWhileWorking, PTL DEF Spec, RemovedLeavesNoCopy

LEMMA SuccessIsTrue ==
  ASSUME Inv, Silent, [Next]_vars, Succeeds
  PROVE  /\ \A f \in Files : disk[f] = [text |-> version, right |-> TRUE]
         /\ enabled' /\ active'
<1>1. Reports(Successes)
  BY DEF Succeeds, Reports, Successes
<1>2. ~ Finish("removed") /\ ~ Finish("nothing to remove")
  BY DEF Succeeds, Reports, Finish
<1>3. \/ Check /\ TimerRunning
      \/ Enable /\ Enables
  BY <1>1, <1>2, WhoReports
<1>4. pc \in {"write", "enable"} /\ todo = <<>>
  BY <1>3 DEF Check, AllWritten, Enable, Inv, WrittenSoFar
<1>5. \A f \in Files : disk[f] = [text |-> version, right |-> TRUE]
  BY <1>4, EmptyList DEF Inv, WrittenSoFar, Put
<1>6. enabled' /\ active'
  BY <1>3 DEF Check, TimerRunning, Enables, systemdVars
<1> QED BY <1>5, <1>6

\* What apply_collector reports as installed is there as this version has it, and
\* the timer runs now and after a reboot, however earlier attempts ended.
THEOREM InstalledIsRunning == Spec => SuccessMeansRunning
<1>1. Inv /\ Silent /\ [Next]_vars =>
        [Succeeds =>
           /\ \A f \in Files : disk[f] = [text |-> version, right |-> TRUE]
           /\ enabled' /\ active']_vars
  BY SuccessIsTrue
<1> QED BY <1>1, Invariance, SilentWhileWorking, PTL DEF Spec, SuccessMeansRunning
=============================================================================
