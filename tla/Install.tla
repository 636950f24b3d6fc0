------------------------------ MODULE Install -------------------------------
(***************************************************************************)
(* `install-panel --collector` (install.py: apply_collector) next to a     *)
(* systemd that may be running the collector meanwhile.                    *)
(*                                                                         *)
(* The installer writes three files, each in one step, and makes two       *)
(* systemctl calls; uninstalling stops the units, deletes what they and    *)
(* the installer left, and reloads systemd.  Any systemctl call may fail   *)
(* and the installer may be interrupted before any step; it is then run    *)
(* again, for this or another version of the package.                      *)
(*                                                                         *)
(* systemd holds on to the units it has read while the timer is active     *)
(* (`loaded`); a unit nothing refers to is read again when it is needed.   *)
(* A run of the service is a few steps that put files into /run; being     *)
(* killed leaves some of them there.                                       *)
(***************************************************************************)
EXTENDS Sequences

CONSTANTS
    Versions,   \* versions of the package; each has its own text of each file
    None        \* no such file

ASSUME InstallAssumption == None \notin Versions

Units == {"service", "timer"}
Files == Units \cup {"script"}

VARIABLES
    systemd,    \* whether there is a systemctl
    disk,       \* each installed file: its text and whether its mode is right
    loaded,     \* the text of each unit systemd works with
    enabled,    \* the timer is enabled
    active,     \* the timer is active
    svc,        \* where the service's run is
    litter,     \* what is in the runtime directory and in left-over work directories
    pc,         \* where the installer is
    version,    \* what it installs
    todo,       \* the files it still has to look at
    changed,    \* its `changed`, or `removed`
    result      \* what it reported

systemdVars == <<loaded, enabled, active>>
serviceVars == <<svc, litter>>
argVars     == <<systemd, version>>
vars == <<argVars, disk, systemdVars, serviceVars, pc, todo, changed, result>>

Absent   == [text |-> None, right |-> FALSE]
Exists(f) == disk[f] # Absent
OnDisk   == [u \in Units |-> disk[u].text]
Unloaded == [u \in Units |-> None]

Init ==
    /\ systemd \in BOOLEAN
    /\ disk = [f \in Files |-> Absent]
    /\ loaded = Unloaded
    /\ enabled = FALSE
    /\ active = FALSE
    /\ svc = "off"
    /\ litter = {}
    /\ pc = "idle"
    /\ version \in Versions
    /\ todo = <<>>
    /\ changed = FALSE
    /\ result = "none"

-----------------------------------------------------------------------------
(* apply_collector: install. *)

Finish(what) ==
    /\ pc' = "idle"
    /\ result' = what
    /\ todo' = <<>>
    /\ changed' = FALSE

WriteOrder == <<"script", "service", "timer">>

Install(v) ==
    /\ pc = "idle"
    /\ pc' = "write"
    /\ version' = v
    /\ todo' = WriteOrder
    /\ result' = "none"
    /\ UNCHANGED <<systemd, disk, systemdVars, serviceVars, changed>>

Put(f) == [text |-> version, right |-> TRUE]

\* A file that is as it should be is left alone; one with another mode, another
\* text, or none at all is put right in one step (_write_atomically replaces it).
PutFile ==
    /\ pc = "write"
    /\ todo # <<>>
    /\ disk' = [disk EXCEPT ![Head(todo)] = Put(Head(todo))]
    /\ changed' = (changed \/ disk' # disk)
    /\ todo' = Tail(todo)
    /\ UNCHANGED <<argVars, systemdVars, serviceVars, pc, result>>

AllWritten == pc = "write" /\ todo = <<>>

\* mutant: an enabled timer counts as running.
TimerRunning_Enabled == systemd /\ enabled

\* is-enabled and is-active, both exit 0.
TimerRunning == systemd /\ enabled /\ active

\* Either of the two questions may fail for other reasons, too.
Check ==
    /\ AllWritten
    /\ ~ changed
    /\ \/ TimerRunning /\ Finish("unchanged")
       \/ pc' = "reload" /\ UNCHANGED <<todo, changed, result>>
    /\ UNCHANGED <<argVars, disk, systemdVars, serviceVars>>

\* systemctl daemon-reload, when it works.
Reloads ==
    /\ systemd
    /\ loaded' = IF active THEN OnDisk ELSE Unloaded
    /\ UNCHANGED <<enabled, active>>

\* systemctl enable --now, when it works.
Enables ==
    /\ systemd
    /\ loaded' = IF active THEN loaded ELSE OnDisk
    /\ enabled' = TRUE
    /\ active' = TRUE

\* _activate, its first call.
Reload ==
    /\ pc = "reload" \/ (AllWritten /\ changed)
    /\ \/ Reloads /\ pc' = "enable" /\ UNCHANGED <<todo, changed, result>>
       \/ UNCHANGED systemdVars /\ Finish("failed")
    /\ UNCHANGED <<argVars, disk, serviceVars>>

\* Its second call; one that fails may have enabled the timer all the same.
Enable ==
    /\ pc = "enable"
    /\ \/ Enables /\ Finish(IF changed THEN "written" ELSE "activated")
       \/ /\ enabled' \in {enabled, TRUE}
          /\ UNCHANGED <<loaded, active>>
          /\ Finish("failed")
    /\ UNCHANGED <<argVars, disk, serviceVars>>

-----------------------------------------------------------------------------
(* _remove_collector. *)

Uninstall ==
    /\ pc = "idle"
    /\ pc' = "disable"
    /\ result' = "none"
    /\ UNCHANGED <<argVars, disk, systemdVars, serviceVars, todo, changed>>

\* mutant: left-over work directories are not looked for.
Doomed_NoWork == <<"service", "timer", "script", "host", "dump">>

Doomed == <<"service", "timer", "script", "host", "dump", "work">>

StartsDeleting == pc' = "unlink" /\ todo' = Doomed /\ UNCHANGED <<changed, result>>

\* mutant: stopping the timer is taken to stop what it started.
AfterDisable_Delete == StartsDeleting

AfterDisable == pc' = "stop" /\ UNCHANGED <<todo, changed, result>>

\* The call failed: that is an error only while the unit is installed.
Refuses(unit) == Exists(unit) /\ Finish("failed")

\* systemctl disable --now <timer>: it needs the unit file, and one that fails may
\* have disabled it.
Disable ==
    /\ pc = "disable"
    /\ \/ ~ systemd /\ StartsDeleting /\ UNCHANGED systemdVars
       \/ /\ systemd /\ Exists("timer")
          /\ enabled' = FALSE /\ active' = FALSE /\ loaded' = Unloaded
          /\ AfterDisable
       \/ /\ systemd
          /\ enabled' \in {enabled, FALSE} /\ UNCHANGED <<loaded, active>>
          /\ Refuses("timer") \/ (~ Exists("timer") /\ AfterDisable)
    /\ UNCHANGED <<argVars, disk, serviceVars>>

\* What the end of a run by a signal leaves behind: a work directory with a copy
\* of the dump, or write_state's temporary file.  ExecStopPost deletes the copy in
\* the runtime directory; that may fail.
Killed ==
    /\ svc # "off"
    /\ svc' = "off"
    /\ LET left == litter \cup (IF svc = "copying" THEN {"work"} ELSE {})
                          \cup (IF svc = "writing" THEN {"tmp"} ELSE {})
       IN  litter' \in {left, left \ {"dump"}}

\* systemctl stop <service>: returns once it has stopped.
Stop ==
    /\ pc = "stop"
    /\ \/ Killed /\ StartsDeleting
       \/ svc = "off" /\ Exists("service") /\ StartsDeleting /\ UNCHANGED serviceVars
       \/ /\ UNCHANGED serviceVars
          /\ Refuses("service") \/ (~ Exists("service") /\ StartsDeleting)
    /\ UNCHANGED <<argVars, disk, systemdVars>>

\* The next path of `doomed` is unlinked if it exists.
Unlink ==
    /\ pc = "unlink"
    /\ todo # <<>>
    /\ disk' = [f \in Files |-> IF f = Head(todo) THEN Absent ELSE disk[f]]
    /\ litter' = litter \ {Head(todo)}
    /\ changed' = (changed \/ disk' # disk \/ litter' # litter)
    /\ todo' = Tail(todo)
    /\ UNCHANGED <<argVars, systemdVars, svc, pc, result>>

\* Directories that are empty are removed; then systemd is reloaded if anything
\* was deleted.
Report ==
    /\ pc = "unlink"
    /\ todo = <<>>
    /\ \/ ~ changed /\ Finish("nothing to remove") /\ UNCHANGED systemdVars
       \/ changed /\ Reloads /\ Finish("removed")
       \/ changed /\ ~ systemd /\ Finish("removed") /\ UNCHANGED systemdVars
       \/ changed /\ systemd /\ Finish("failed") /\ UNCHANGED systemdVars
    /\ UNCHANGED <<argVars, disk, serviceVars>>

\* A signal, or an exception of the file system.
Interrupt ==
    /\ pc # "idle"
    /\ Finish("interrupted")
    /\ UNCHANGED <<argVars, disk, systemdVars, serviceVars>>

Installer ==
    \/ \E v \in Versions : Install(v)
    \/ PutFile \/ Check \/ Reload \/ Enable
    \/ Uninstall \/ Disable \/ Stop \/ Unlink \/ Report
    \/ Interrupt

-----------------------------------------------------------------------------
(* systemd and the service it runs. *)

Fire ==
    /\ active
    /\ loaded["service"] # None
    /\ svc = "off"
    /\ svc' = "helper"
    /\ UNCHANGED litter

\* The helper copies the dump in a directory of its own, or has nothing to copy.
HelperCopies ==
    /\ svc = "helper"
    /\ svc' \in {"copying", "collect"}
    /\ UNCHANGED litter

\* The finished copy is moved into the runtime directory.
HelperMoves ==
    /\ svc = "copying"
    /\ svc' = "collect"
    /\ litter' = litter \cup {"dump"}

\* status-collect deletes the copy and opens a temporary file next to host.json,
Writes ==
    /\ svc = "collect"
    /\ svc' = "writing"
    /\ litter' = litter \ {"dump"}

\* which replaces host.json.
Replaces ==
    /\ svc = "writing"
    /\ svc' = "off"
    /\ litter' = litter \cup {"host"}

Service ==
    /\ Fire \/ HelperCopies \/ HelperMoves \/ Writes \/ Replaces \/ Killed
    /\ UNCHANGED <<argVars, disk, systemdVars, pc, todo, changed, result>>

\* Somebody stops or disables the timer, or changes a file's mode.
Meddle ==
    /\ pc = "idle"
    /\ result' = "none"
    /\ \/ /\ systemd
          /\ active' = FALSE /\ loaded' = Unloaded
          /\ enabled' \in {enabled, FALSE}
          /\ UNCHANGED disk
       \/ /\ \E f \in Files : Exists(f) /\ disk' = [disk EXCEPT ![f].right = FALSE]
          /\ UNCHANGED systemdVars
    /\ UNCHANGED <<argVars, serviceVars, pc, todo, changed>>

\* /run is empty again, and the timer runs if it was enabled.
Reboot ==
    /\ systemd
    /\ active' = (enabled /\ Exists("timer"))
    /\ loaded' = IF active' THEN OnDisk ELSE Unloaded
    /\ svc' = "off"
    /\ litter' = {}
    /\ Finish("none")
    /\ UNCHANGED <<argVars, disk, enabled>>

Next == Installer \/ Service \/ Meddle \/ Reboot

Spec == Init /\ [][Next]_vars

-----------------------------------------------------------------------------
(* Properties. *)

\* _stop_units' docstring: nothing is deleted under a running collector or dump
\* helper, whatever earlier attempts left undone.
Deletes == \/ \E f \in Files : Exists(f) /\ disk'[f] = Absent
           \/ pc = "unlink" /\ litter' # litter
NothingDeletedUnderCollector == [][Deletes => svc = "off"]_vars

\* An uninstall that reports success leaves no unit, no helper, no state file and
\* no copy of the keepalived dump, also not one that an earlier kill left behind,
\* and no timer that would make new ones.
Reports(words) == pc # "idle" /\ result' \in words
RemovedLeavesNoCopy ==
    [][Reports({"removed", "nothing to remove"}) =>
         /\ \A f \in Files : ~ Exists(f)
         /\ litter \cap {"host", "dump", "work"} = {}
         /\ ~ active /\ svc = "off"]_vars

\* An install that reports success leaves exactly this version's files, with the
\* right modes, and a timer that runs now and after a reboot, however earlier
\* attempts ended.
Succeeds == Reports({"written", "activated", "unchanged"})
SuccessMeansRunning ==
    [][Succeeds =>
         /\ \A f \in Files : disk[f] = [text |-> version, right |-> TRUE]
         /\ enabled' /\ active']_vars

\* docs: after `failed`, running it again retries the activation even though the
\* files are already in place: a success means systemd works with these units.
SuccessMeansLoaded == [][Succeeds => loaded' = OnDisk]_vars

=============================================================================
