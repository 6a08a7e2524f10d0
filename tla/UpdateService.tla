---------------------------- MODULE UpdateService ----------------------------
(***************************************************************************)
(* The update jobs of the hub: a package is uploaded in chunks, committed, *)
(* and installed by FirmwareInstall's worker while the hub forwards        *)
(* nothing to the Captain.  The state of each job is a file; everything    *)
(* else is memory, lost when the hub stops or dies.  What a request finds  *)
(* in a file that says the job is at work, although no task of this        *)
(* process owns it, is an interrupted job: it requires recovery, and no    *)
(* other update is accepted until the original firmware was found intact.  *)
(*                                                                         *)
(* A request runs in one step of the event loop; between two awaits of a   *)
(* task the other requests run.  One Captain is attached: a wrong one is   *)
(* one of the failures of a step.                                          *)
(***************************************************************************)
EXTENDS FirmwareInstall

CONSTANTS NoJob,      \* no update job
          Size        \* the chunks of a package

ASSUME ServiceAssumption == /\ NoJob \notin Jobs
                            /\ Size \in Nat \ {0}

VARIABLES
  hub,          \* the process: "up", "stopping" or "off"
  status,       \* the phase in the status.json of each job
  received,     \* the chunks it says were received
  active,       \* the job that owns the device
  task,         \* the task that installs or checks a job
  maintenance,  \* "closed" while the hub forwards nothing to the Captain
  volatile,     \* the phase of a job that could not be saved
  unresolved,   \* the jobs known to require recovery
  scanned,      \* whether the directories were looked at for them
  link,         \* the thread that owns the Captain's port
  base          \* history: what the flash held when a job was committed

serviceVars == <<hub, status, received, active, task, maintenance, volatile, unresolved,
                 scanned, link, base>>
vars == <<installVars, serviceVars>>

(***************************************************************************)
(* "none" is no directory and "unsaved" one without a status.json; the     *)
(* phases of an installation and of a recovery check count as one each.    *)
(***************************************************************************)
Terminal == {"done", "error", "rolled-back", "recovery-required", "aborted"}
AtWork   == {"working", "checking"}
Phases   == {"none", "unsaved", "uploading"} \cup AtWork \cup Terminal

NoTask   == [kind |-> "none", job |-> NoJob, at |-> "ended", port |-> "held", verdict |-> "none"]
NoResult == [job |-> NoJob, phase |-> "none"]

TaskSteps == {"accepted", "draining", "closing", "at work", "concluding", "reconnecting", "saving"}

Init ==
  /\ InstallInit
  /\ hub = "up"
  /\ status = [j \in Jobs |-> "none"]
  /\ received = [j \in Jobs |-> 0]
  /\ active = NoJob
  /\ task = NoTask
  /\ maintenance = "open"
  /\ volatile = NoResult
  /\ unresolved = {}
  /\ scanned = "no"
  /\ link = "down"
  /\ base = [j \in Jobs |-> flash]

(***************************************************************************)
(* Files and what is read from them.                                       *)
(***************************************************************************)
Existing   == {j \in Jobs : status[j] # "none"}
connected  == link \in {"up", "stuck"}

\* The file holds the phase p of j: the save succeeded, or raised and was kept.
SavedAs(j, p) == [status EXCEPT ![j] = p]
SaveRaises(j, p) == \/ "lost" \in DiskFaults /\ status' = status
                    \/ "kept" \in DiskFaults /\ status' = SavedAs(j, p)

Interrupted(j) == /\ volatile.job # j
                  /\ status[j] \in AtWork
                  /\ active # j

\* What a request is told of j.
Loaded(j) == IF volatile.job = j THEN volatile.phase
             ELSE IF status[j] = "unsaved"
                  THEN IF journal[j] = "none" THEN "aborted" ELSE "recovery-required"
             ELSE IF Interrupted(j) THEN "recovery-required"
             ELSE status[j]

Remembered(j, p) == IF p = "recovery-required" THEN unresolved \cup {j} ELSE unresolved \ {j}

\* Reading the jobs S saves the interrupted ones, and remembers which are unresolved.
StatusRead(S) == [j \in Jobs |-> IF j \in S /\ Interrupted(j) THEN "recovery-required" ELSE status[j]]
UnresolvedIn(S) == {j \in S : Loaded(j) = "recovery-required"}
Noticed(S) == (unresolved \ S) \cup UnresolvedIn(S)

Request(j) == hub = "up" /\ j \in Existing

(***************************************************************************)
(* Requests.  All of them read the job first, and these do no more: STATUS *)
(* of one job, and what is refused after reading some.                     *)
(***************************************************************************)
Look(S) ==
  /\ hub = "up"
  /\ S # {}
  /\ status' = StatusRead(S)
  /\ unresolved' = Noticed(S)
  /\ UNCHANGED <<installVars, hub, received, active, task, maintenance, volatile, scanned, link, base>>

\* An interrupted job cannot be saved as such.
LookRaises(j) ==
  /\ Request(j)
  /\ Interrupted(j)
  /\ SaveRaises(j, "recovery-required")
  /\ unresolved' = unresolved \cup {j}
  /\ UNCHANGED <<installVars, hub, received, active, task, maintenance, volatile, scanned, link, base>>

\* A PING looks at every job once, whatever it finds there.
Scan ==
  /\ hub = "up"
  /\ maintenance = "open"
  /\ scanned = "no"
  /\ scanned' = "yes"
  /\ status' = StatusRead(Existing) \/ ("lost" \in DiskFaults /\ status' = status)
  /\ unresolved' = Noticed(Existing)
  /\ UNCHANGED <<installVars, hub, received, active, task, maintenance, volatile, link, base>>

\* An upload left alone is given up by the next BEGIN, which may still be refused.
Expired == [j \in Jobs |-> IF Loaded(j) = "uploading" THEN "aborted" ELSE status[j]]

\* BEGIN wants a serial port to update through.
supported == link \in {"up", "down", "stuck"}

\* Mutant: BEGIN does not ask whether an update is in progress.
MayBeginAnyTime == /\ hub = "up"
                   /\ supported
                   /\ \A k \in Existing : Loaded(k) # "recovery-required"

MayBegin == /\ hub = "up"
            /\ supported
            /\ \A k \in Jobs : active = k => Loaded(k) \in Terminal
            /\ \A k \in Existing : Loaded(k) # "recovery-required"

Begin(j) ==
  /\ MayBegin
  /\ status[j] = "none"
  /\ status' = [Expired EXCEPT ![j] = "uploading"]
  /\ active' = j
  /\ unresolved' = Noticed(Existing)
  /\ UNCHANGED <<installVars, hub, received, task, maintenance, volatile, scanned, link, base>>

BeginRaises(j) ==
  /\ MayBegin
  /\ status[j] = "none"
  /\ \/ status' = Expired
     \/ "lost" \in DiskFaults /\ status' = [Expired EXCEPT ![j] = "unsaved"]
     \/ "kept" \in DiskFaults /\ status' = [Expired EXCEPT ![j] = "uploading"]
  /\ unresolved' = Noticed(Existing)
  /\ UNCHANGED <<installVars, hub, received, active, task, maintenance, volatile, scanned, link, base>>

Uploads(j) == Request(j) /\ Loaded(j) = "uploading"

Owns(j) == active \in {NoJob, j}

\* Mutant: a chunk past the end is taken.
ChunkPastTheEnd(j) ==
  /\ Uploads(j)
  /\ Owns(j)
  /\ received' = [received EXCEPT ![j] = @ + 1]
  /\ active' = j
  /\ unresolved' = unresolved \ {j}
  /\ UNCHANGED <<installVars, hub, status, task, maintenance, volatile, scanned, link, base>>

\* A chunk, or one that was received before and whose answer was lost.
Chunk(j) ==
  /\ Uploads(j)
  /\ Owns(j)
  /\ \E n \in {received[j], received[j] + 1} \cap 1 .. Size : received' = [received EXCEPT ![j] = n]
  /\ active' = j
  /\ unresolved' = unresolved \ {j}
  /\ UNCHANGED <<installVars, hub, status, task, maintenance, volatile, scanned, link, base>>

ChunkRaises(j) ==
  /\ Uploads(j)
  /\ Owns(j)
  /\ "kept" \in DiskFaults
  /\ received[j] < Size
  /\ received' = [received EXCEPT ![j] = @ + 1]
  /\ unresolved' = unresolved \ {j}
  /\ UNCHANGED <<installVars, hub, status, active, task, maintenance, volatile, scanned, link, base>>

Abort(j) ==
  /\ Uploads(j)
  /\ \/ /\ status' = SavedAs(j, "aborted")
        /\ active' = IF active = j THEN NoJob ELSE active
     \/ /\ SaveRaises(j, "aborted")
        /\ UNCHANGED active
  /\ unresolved' = unresolved \ {j}
  /\ UNCHANGED <<installVars, hub, received, task, maintenance, volatile, scanned, link, base>>

MayCommit(j) == /\ Uploads(j)
                /\ Owns(j)
                /\ \A k \in Existing \ {j} : Loaded(k) # "recovery-required"
                /\ received[j] = Size
                /\ connected

Commit(j) ==
  /\ MayCommit(j)
  /\ status' = SavedAs(j, "working")
  /\ active' = j
  /\ task' = [kind |-> "update", job |-> j, at |-> "accepted", port |-> "held", verdict |-> "none"]
  /\ unresolved' = Noticed(Existing)
  /\ base' = [base EXCEPT ![j] = flash]
  /\ UNCHANGED <<installVars, hub, received, maintenance, volatile, scanned, link>>

CommitRaises(j) ==
  /\ MayCommit(j)
  /\ SaveRaises(j, "working")
  /\ unresolved' = Noticed(Existing)
  /\ base' = IF status' = status THEN base ELSE [base EXCEPT ![j] = flash]
  /\ UNCHANGED <<installVars, hub, received, active, task, maintenance, volatile, scanned, link>>

(***************************************************************************)
(* A check that the original firmware and configuration are still there,   *)
(* for a job whose journal says that nothing was written.                  *)
(***************************************************************************)
\* The journal and the first snapshot say so.
HasEvidence(j) == journal[j] = "identified"

MayRecover(j) == /\ Request(j)
                 /\ Loaded(j) = "recovery-required"
                 /\ active = NoJob
                 /\ task = NoTask
                 /\ connected
                 /\ HasEvidence(j)

Recover(j) ==
  /\ MayRecover(j)
  /\ status' = SavedAs(j, "checking")
  /\ volatile' = IF volatile.job = j THEN NoResult ELSE volatile
  /\ active' = j
  /\ maintenance' = "closed"
  /\ task' = [kind |-> "recovery", job |-> j, at |-> "draining", port |-> "held", verdict |-> "none"]
  /\ unresolved' = unresolved \ {j}
  /\ UNCHANGED <<installVars, hub, received, scanned, link, base>>

RecoverRaises(j) ==
  /\ MayRecover(j)
  /\ SaveRaises(j, "checking")
  /\ unresolved' = unresolved \cup {j}
  /\ UNCHANGED <<installVars, hub, received, active, task, maintenance, volatile, scanned, link, base>>

(***************************************************************************)
(* The task.  It takes the port once what was accepted has been answered,  *)
(* and gives it back before it saves what it found.                        *)
(***************************************************************************)
At(s) == task.kind # "none" /\ task.at = s

\* What a failure makes of the job.
Failure == IF task.kind = "recovery" \/ journal[task.job] = "armed"
           THEN "recovery-required" ELSE "error"

Found(v)  == task' = [task EXCEPT !.at = "concluding", !.verdict = v]
Step(s)   == task' = [task EXCEPT !.at = s]

Validate ==
  /\ At("accepted")
  /\ \/ Step("draining") /\ maintenance' = "closed"
     \/ Found(Failure) /\ UNCHANGED maintenance
  /\ UNCHANGED <<installVars, hub, status, received, active, volatile, unresolved, scanned, link, base>>

Drain ==
  /\ At("draining")
  /\ Step("closing") \/ Found(Failure)
  /\ UNCHANGED <<installVars, hub, status, received, active, maintenance, volatile, unresolved,
                 scanned, link, base>>

Released(s) == task' = [task EXCEPT !.at = s, !.port = "released"]

TakePort ==
  /\ At("closing")
  /\ link' = "stopped"
  /\ Released("at work")
  /\ \/ task.kind = "update" /\ (Run(task.job) \/ RunRaises(task.job))
     \/ task.kind = "recovery" /\ UNCHANGED installVars
  /\ UNCHANGED <<hub, status, received, active, maintenance, volatile, unresolved, scanned, base>>

\* The thread did not end in time: the port is not taken, nor opened again.
PortStuck ==
  /\ At("closing")
  /\ link' \in {"stuck", "dead"}
  /\ task' = [task EXCEPT !.at = "concluding", !.port = "released", !.verdict = Failure]
  /\ UNCHANGED <<installVars, hub, status, received, active, maintenance, volatile, unresolved,
                 scanned, base>>

\* Progress that could not be saved is kept in memory.
ProgressLost ==
  /\ At("at work")
  /\ task.kind = "update"
  /\ DiskFaults # {}
  /\ volatile' = [job |-> task.job, phase |-> "working"]
  /\ UNCHANGED <<installVars, hub, status, received, active, task, maintenance, unresolved,
                 scanned, link, base>>

Verdict == [complete |-> "done", failed |-> "error", rolled_back |-> "rolled-back",
            manual_recovery |-> "recovery-required", raised |-> Failure]

WorkerEnds ==
  /\ At("at work")
  /\ task.kind = "update"
  /\ worker.at \in Results
  /\ Found(Verdict[worker.at])
  /\ GoTo("idle")
  /\ UNCHANGED <<journal, before, backup, flash, mode, hub, status, received, active, maintenance,
                 volatile, unresolved, scanned, link, base>>

\* The check reads the configuration again, and compares.
Verified(j) == Answers /\ flash = before[j]

CheckEnds ==
  /\ At("at work")
  /\ task.kind = "recovery"
  /\ \/ Verified(task.job) /\ Found("error")
     \/ Found("recovery-required")
  /\ UNCHANGED <<installVars, hub, status, received, active, maintenance, volatile, unresolved,
                 scanned, link, base>>

GivePortBack ==
  /\ At("concluding")
  /\ \/ /\ task.port = "released" /\ link = "stopped" /\ hub = "up"
        /\ link' = "down"
        /\ Step("reconnecting")
     \/ /\ ~(task.port = "released" /\ link = "stopped" /\ hub = "up")
        /\ UNCHANGED link
        /\ Step("saving")
  /\ UNCHANGED <<installVars, hub, status, received, active, maintenance, volatile, unresolved,
                 scanned, base>>

\* The Captain is back, or the wait is over; a check counts only with the same Captain.
Reconnected ==
  /\ At("reconnecting")
  /\ \/ connected /\ Step("saving")
     \/ task.kind = "update" /\ Step("saving")
     \/ task.kind = "recovery" /\ task' = [task EXCEPT !.at = "saving", !.verdict = "recovery-required"]
  /\ UNCHANGED <<installVars, hub, status, received, active, maintenance, volatile, unresolved,
                 scanned, link, base>>

TaskOver == task' = NoTask /\ maintenance' = "open" /\ active' = NoJob

Save ==
  /\ At("saving")
  /\ status' = SavedAs(task.job, task.verdict)
  /\ volatile' = NoResult
  /\ unresolved' = Remembered(task.job, task.verdict)
  /\ TaskOver
  /\ UNCHANGED <<installVars, hub, received, scanned, link, base>>

\* Mutant: a result that could not be saved is not remembered as unresolved.
SaveFailsUnnoticed ==
  /\ At("saving")
  /\ SaveRaises(task.job, task.verdict)
  /\ volatile' = [job |-> task.job, phase |-> "recovery-required"]
  /\ UNCHANGED unresolved
  /\ TaskOver
  /\ UNCHANGED <<installVars, hub, received, scanned, link, base>>

\* Mutant: the hub stays closed when the result could not be saved.
SaveFailsClosed ==
  /\ At("saving")
  /\ SaveRaises(task.job, task.verdict)
  /\ volatile' = [job |-> task.job, phase |-> "recovery-required"]
  /\ unresolved' = unresolved \cup {task.job}
  /\ task' = NoTask
  /\ active' = NoJob
  /\ UNCHANGED <<installVars, hub, received, maintenance, scanned, link, base>>

SaveFails ==
  /\ At("saving")
  /\ SaveRaises(task.job, task.verdict)
  /\ volatile' = [job |-> task.job, phase |-> "recovery-required"]
  /\ unresolved' = unresolved \cup {task.job}
  /\ TaskOver
  /\ UNCHANGED <<installVars, hub, received, scanned, link, base>>

TaskStep == \/ Validate \/ Drain \/ TakePort \/ PortStuck \/ WorkerEnds \/ CheckEnds
            \/ GivePortBack \/ Reconnected \/ Save \/ SaveFails

(***************************************************************************)
(* The process and the link.  A stop refuses requests and lets the task    *)
(* end; the process may also be gone at any moment.                        *)
(***************************************************************************)
Stop ==
  /\ hub = "up"
  /\ hub' = "stopping"
  /\ UNCHANGED <<installVars, status, received, active, task, maintenance, volatile, unresolved,
                 scanned, link, base>>

Dies ==
  /\ hub # "off"
  /\ hub' = "off"
  /\ GoTo("idle")
  /\ active' = NoJob
  /\ task' = NoTask
  /\ maintenance' = "open"
  /\ volatile' = NoResult
  /\ unresolved' = {}
  /\ scanned' = "no"
  /\ link' = "down"
  /\ UNCHANGED <<journal, before, backup, flash, mode, status, received, base>>

Starts ==
  /\ hub = "off"
  /\ hub' = "up"
  /\ UNCHANGED <<installVars, status, received, active, task, maintenance, volatile, unresolved,
                 scanned, link, base>>

LinkMoves ==
  /\ hub # "off"
  /\ \/ link = "down" /\ Answers /\ link' = "up"
     \/ link = "up" /\ link' = "down"
     \/ link = "stuck" /\ link' = "dead"
  /\ UNCHANGED <<installVars, hub, status, received, active, task, maintenance, volatile, unresolved,
                 scanned, base>>

Install == WorkerStep /\ UNCHANGED serviceVars

Next ==
  \/ \E S \in SUBSET Existing : Look(S)
  \/ \E j \in Jobs : \/ LookRaises(j) \/ Begin(j) \/ BeginRaises(j) \/ Chunk(j) \/ ChunkRaises(j)
                      \/ Abort(j) \/ Commit(j) \/ CommitRaises(j) \/ Recover(j) \/ RecoverRaises(j)
  \/ Scan \/ ProgressLost \/ TaskStep \/ Install \/ Stop \/ Dies \/ Starts \/ LinkMoves
  \/ Replug /\ UNCHANGED serviceVars

\* The loop runs the task, every wait of the worker has a limit, and so has every command.
Fairness == WF_vars(TaskStep) /\ WF_vars(Install)

Spec == Init /\ [][Next]_vars /\ Fairness

-----------------------------------------------------------------------------
(***************************************************************************)
(* Properties.                                                             *)
(***************************************************************************)

Typed ==
  /\ InstallTypeOK
  /\ hub \in {"up", "stopping", "off"}
  /\ status \in [Jobs -> Phases]
  /\ received \in [Jobs -> 0 .. Size]
  /\ active \in Jobs \cup {NoJob}
  /\ \/ task = NoTask
     \/ task \in [kind : {"update", "recovery"}, job : Jobs, at : TaskSteps,
                  port : {"held", "released"}, verdict : Terminal \cup {"none"}]
  /\ maintenance \in {"open", "closed"}
  /\ volatile \in [job : Jobs, phase : {"working", "recovery-required"}] \cup {NoResult}
  /\ unresolved \subseteq Jobs
  /\ scanned \in {"yes", "no"}
  /\ link \in {"up", "down", "stopped", "stuck", "dead"}
  /\ base \in [Jobs -> Images]

\* The types; and while there is a task, the job that owns the device is the one it works for
\* (update_service.py:274-275, 304-306, 442-444).
TypeOK == Typed /\ (task # NoTask => active = task.job)

Unsettled(j) == Loaded(j) \in {"working", "checking", "recovery-required"}

\* While the flash of a job that is not settled differs from what it was, the image
\* that puts it back is on the disk, whatever failed and whenever the hub died.
BackupHeld == \A j \in Jobs : Unsettled(j) /\ flash # base[j] => backup[j] = base[j]

\* A hub that has looked at its jobs acknowledges a PING as long as one that has touched the
\* Captain requires recovery: a desktop can ask for it although the Captain cannot answer.
PingKept ==
  hub = "up" /\ scanned = "yes" /\ (\E j \in Jobs : Loaded(j) = "recovery-required" /\ journal[j] # "none")
    => maintenance = "closed" \/ unresolved # {}

\* A task ends, and the hub forwards requests to the Captain again.
TaskEnds == (task.kind # "none") ~> (task.kind = "none" /\ maintenance = "open")

\* What a job reports of the flash.
Report == [j \in Jobs |->
  CASE Loaded(j) = "working"                           -> "open"
    [] Loaded(j) \in {"checking", "recovery-required"} -> "unresolved"
    [] Loaded(j) = "done"                              -> "done"
    [] Loaded(j) = "rolled-back"                       -> "restored"
    [] Loaded(j) = "error"                             -> "untouched"
    [] OTHER                                           -> "none"]

Promise == INSTANCE SafeUpdate WITH image <- flash, verdict <- Report,
                                    Target <- [j \in Jobs |-> [fw |-> j, cfg |-> "kept"]]

\* The service keeps the promise of SafeUpdate: what a job reports is true of the flash,
\* and no job is accepted while another may still have to write it or was interrupted.
ReportsAreTrue == Promise!Spec

\* The recovery documented for a failure before writing began: the check is possible.
CheckPossible ==
  \A j \in Jobs : Loaded(j) = "recovery-required" /\ journal[j] # "armed" => journal[j] = "identified"
=============================================================================
