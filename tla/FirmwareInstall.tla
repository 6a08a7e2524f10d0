--------------------------- MODULE FirmwareInstall ---------------------------
(***************************************************************************)
(* The hub's installer: one durable transaction on the flash of the        *)
(* Captain, run by a worker thread that has the USB device to itself.      *)
(* Every step may fail, the disk may refuse a write or keep one it         *)
(* reported as failed, and the process may be gone after any step, which   *)
(* leaves the journal, the saved images and the flash as they were.        *)
(*                                                                         *)
(* Loading the flash is two steps, with the mixture between them.          *)
(***************************************************************************)
EXTENDS Naturals

CONSTANTS Jobs,        \* the update jobs, also the firmware each one installs
          Installed,   \* the firmware the Captain had at first
          DiskFaults   \* what a failed write may leave: "lost" nothing, "kept" the write

ASSUME InstallAssumption ==
  /\ Installed \notin Jobs \cup {"mixed"}
  /\ "mixed" \notin Jobs
  /\ DiskFaults \subseteq {"lost", "kept"}

VARIABLES
  worker,    \* the transaction and the step it is at, or its result
  journal,   \* what journal.json of each job says on disk
  before,    \* configuration-before.json: the firmware and configuration found
  backup,    \* full-flash-before.bin
  flash,     \* what the flash holds
  mode       \* whether the Captain runs its firmware or its bootloader

installVars == <<worker, journal, before, backup, flash, mode>>

(***************************************************************************)
(* An image is a firmware and a configuration.  A firmware that is neither *)
(* the old nor the new one does not start.                                 *)
(***************************************************************************)
Images  == [fw : Jobs \cup {Installed, "mixed"}, cfg : {"kept", "altered"}]
NoImage == [fw |-> "none", cfg |-> "none"]

(***************************************************************************)
(* The journal: no directory, a directory, then a journal without and with *)
(* the source version, and at last the one that says the flash may be      *)
(* modified.                                                               *)
(***************************************************************************)
Journals == {"none", "empty", "clean", "identified", "armed"}

BeforeBoot  == {"preflight", "reading"}
BeforeWrite == {"entering", "backing up"}
Writing     == {"arming", "loading", "writing", "checking", "rebooting", "comparing"}
Restoring   == {"rolling back", "restoring", "rewriting", "restarting"}
Results     == {"complete", "failed", "rolled_back", "manual_recovery", "raised"}
Steps == {"idle", "giving up", "resuming"}
           \cup BeforeBoot \cup BeforeWrite \cup Writing \cup Restoring \cup Results

job     == worker.job
Idle(j) == [job |-> j, at |-> "idle"]
GoTo(s) == worker' = [worker EXCEPT !.at = s]

InstallInit ==
  /\ \E j \in Jobs : worker = Idle(j)
  /\ journal = [j \in Jobs |-> "none"]
  /\ before = [j \in Jobs |-> NoImage]
  /\ backup = [j \in Jobs |-> NoImage]
  /\ flash = [fw |-> Installed, cfg |-> "kept"]
  /\ mode = "running"

(* The firmware answers on the data port. *)
Answers == mode = "running" /\ flash.fw # "mixed"

(* A journal that reached the disk, one whose write raised, and one whose *)
(* failure is not allowed to stop the worker.                             *)
Reported(level) == journal' = [journal EXCEPT ![job] = level]
ReportRaised(level) == \/ "lost" \in DiskFaults /\ UNCHANGED journal
                       \/ "kept" \in DiskFaults /\ Reported(level)
ReportedIfPossible(level) == Reported(level) \/ ReportRaised(level)

(* A step fails: before the bootloader was asked for there is nothing to   *)
(* undo, after it the Captain is restarted, and once writing has begun the *)
(* backup is put back.                                                     *)
Fail == GoTo(CASE worker.at \in BeforeBoot  -> "giving up"
               [] worker.at \in BeforeWrite -> "resuming"
               [] OTHER                     -> "rolling back")

(***************************************************************************)
(* The transaction.                                                        *)
(***************************************************************************)
Run(j) ==
  /\ journal[j] = "none"
  /\ worker' = [job |-> j, at |-> "preflight"]
  /\ journal' = [journal EXCEPT ![j] = "empty"]
  /\ UNCHANGED <<before, backup, flash, mode>>

\* The directory of the job cannot be made.
RunRaises(j) ==
  /\ worker' = [job |-> j, at |-> "raised"]
  /\ UNCHANGED <<journal, before, backup, flash, mode>>

\* The first report is outside the installer's own handler.
Preflight ==
  /\ worker.at = "preflight"
  /\ \/ Reported("clean") /\ GoTo("reading")
     \/ ReportRaised("clean") /\ GoTo("raised")
  /\ UNCHANGED <<before, backup, flash, mode>>

Read ==
  /\ worker.at = "reading"
  /\ Answers
  /\ before' = [before EXCEPT ![job] = flash]
  /\ \/ Reported("identified") /\ GoTo("entering")
     \/ (UNCHANGED journal \/ ReportRaised("identified")) /\ Fail
  /\ UNCHANGED <<backup, flash, mode>>

Enter ==
  /\ worker.at = "entering"
  /\ Answers
  /\ mode' = "bootsel"
  /\ GoTo("backing up") \/ Fail
  /\ UNCHANGED <<journal, before, backup, flash>>

\* Mutant: writing begins although the backup is missing.
BackUpNotChecked ==
  /\ worker.at = "backing up"
  /\ mode = "bootsel"
  /\ GoTo("arming")
  /\ UNCHANGED <<journal, before, backup, flash, mode>>

\* Read, synced, and compared with the flash before it counts as a backup.
BackUp ==
  /\ worker.at = "backing up"
  /\ mode = "bootsel"
  /\ backup' = [backup EXCEPT ![job] = flash]
  /\ GoTo("arming") \/ Fail
  /\ UNCHANGED <<journal, before, flash, mode>>

\* writes_started is set before the journal is written.
Arm ==
  /\ worker.at = "arming"
  /\ \/ Reported("armed") /\ GoTo("loading")
     \/ ReportRaised("armed") /\ Fail
  /\ UNCHANGED <<before, backup, flash, mode>>

StartLoad ==
  /\ worker.at = "loading"
  /\ mode = "bootsel"
  /\ flash' = [flash EXCEPT !.fw = "mixed"]
  /\ GoTo("writing")
  /\ UNCHANGED <<journal, before, backup, mode>>

\* Only the firmware is written; that nothing else was is checked below.
EndLoad ==
  /\ worker.at = "writing"
  /\ mode = "bootsel"
  /\ \E c \in {flash.cfg, "altered"} : flash' = [fw |-> job, cfg |-> c]
  /\ GoTo("checking")
  /\ UNCHANGED <<journal, before, backup, mode>>

CheckFlash ==
  /\ worker.at = "checking"
  /\ mode = "bootsel"
  /\ flash = [fw |-> job, cfg |-> backup[job].cfg]
  /\ GoTo("rebooting")
  /\ UNCHANGED <<journal, before, backup, flash, mode>>

\* The new firmware starts, and may rewrite the configuration it finds.
Reboot ==
  /\ worker.at = "rebooting"
  /\ mode = "bootsel"
  /\ mode' = "running"
  /\ \E c \in {flash.cfg, "altered"} : flash' = [flash EXCEPT !.cfg = c]
  /\ GoTo("comparing") \/ Fail
  /\ UNCHANGED <<journal, before, backup>>

\* Mutant: only the version is compared after the restart.
CompareVersion ==
  /\ worker.at = "comparing"
  /\ Answers
  /\ flash.fw = job
  /\ Reported("armed") /\ GoTo("complete")
  /\ UNCHANGED <<before, backup, flash, mode>>

Compare ==
  /\ worker.at = "comparing"
  /\ Answers
  /\ flash = [fw |-> job, cfg |-> before[job].cfg]
  /\ \/ Reported("armed") /\ GoTo("complete")
     \/ ReportRaised("armed") /\ Fail
  /\ UNCHANGED <<before, backup, flash, mode>>

\* A step that does nothing to the device before it raises.
StepFails ==
  /\ worker.at \in (BeforeBoot \ {"preflight"}) \cup BeforeWrite \cup (Writing \ {"arming"})
  /\ Fail
  /\ UNCHANGED <<journal, before, backup, flash, mode>>

(***************************************************************************)
(* Putting the backup back.  No report may stop this.                      *)
(***************************************************************************)
RollBack ==
  /\ worker.at = "rolling back"
  /\ mode = "bootsel" \/ Answers
  /\ mode' = "bootsel"
  /\ ReportedIfPossible("armed")
  /\ GoTo("restoring")
  /\ UNCHANGED <<before, backup, flash>>

StartRestore ==
  /\ worker.at = "restoring"
  /\ mode = "bootsel"
  /\ flash' = [fw |-> "mixed", cfg |-> "altered"]
  /\ GoTo("rewriting")
  /\ UNCHANGED <<journal, before, backup, mode>>

EndRestore ==
  /\ worker.at = "rewriting"
  /\ mode = "bootsel"
  /\ flash' = backup[job]
  /\ ReportedIfPossible("armed")
  /\ GoTo("restarting")
  /\ UNCHANGED <<before, backup, mode>>

Restart ==
  /\ worker.at = "restarting"
  /\ mode = "bootsel"
  /\ mode' = "running"
  /\ flash = before[job]
  /\ ReportedIfPossible("armed")
  /\ GoTo("rolled_back") \/ GoTo("manual_recovery")
  /\ UNCHANGED <<before, backup, flash>>

RestoreFails ==
  /\ worker.at \in Restoring
  /\ ReportedIfPossible("armed")
  /\ GoTo("manual_recovery")
  /\ UNCHANGED <<before, backup, flash, mode>>

(***************************************************************************)
(* Nothing was written: restart the Captain if it may be in its bootloader.*)
(***************************************************************************)
Resume ==
  /\ worker.at = "resuming"
  /\ \/ /\ mode = "bootsel" \/ Answers
        /\ mode' = "running"
        /\ GoTo("failed")
     \/ /\ UNCHANGED mode
        /\ GoTo("manual_recovery")
  /\ UNCHANGED <<journal, before, backup, flash>>

GiveUp ==
  /\ worker.at = "giving up"
  /\ GoTo("failed")
  /\ \E level \in {journal[job]} \cup {l \in {"identified"} : before[job] # NoImage} :
        ReportedIfPossible(level)
  /\ UNCHANGED <<before, backup, flash, mode>>

WorkerStep ==
  \/ Preflight \/ Read \/ Enter \/ BackUp \/ Arm \/ StartLoad \/ EndLoad \/ CheckFlash
  \/ Reboot \/ Compare \/ StepFails \/ RollBack \/ StartRestore \/ EndRestore \/ Restart
  \/ RestoreFails \/ Resume \/ GiveUp

\* The player unplugs the Captain, or starts it in its bootloader.
Replug ==
  /\ mode' \in {"running", "bootsel"}
  /\ UNCHANGED <<worker, journal, before, backup, flash>>

InstallTypeOK ==
  /\ worker \in [job : Jobs, at : Steps]
  /\ journal \in [Jobs -> Journals]
  /\ before \in [Jobs -> Images \cup {NoImage}]
  /\ backup \in [Jobs -> Images \cup {NoImage}]
  /\ flash \in Images
  /\ mode \in {"running", "bootsel"}
=============================================================================
