------------------------- MODULE UpdateServiceProof -------------------------
(***************************************************************************)
(* What holds of the update jobs for any number of jobs, packages of any   *)
(* size and any of the ways a disk fails: the types, that the backup is on *)
(* the disk whenever the flash is not what it was, that a PING is still    *)
(* acknowledged, and that every report is true of the flash (SafeUpdate).  *)
(*                                                                         *)
(* The argument is that at most one job is held, that is, may have written *)
(* the flash without having said what became of it.  A job is held by its  *)
(* file, by the memory of a result that could not be saved, or by both, so *)
(* what is accepted, interrupted or concluded follows from who is held.    *)
(***************************************************************************)
EXTENDS UpdateService, TLAPS

(***************************************************************************)
(* The inductive invariant.                                                *)
(***************************************************************************)
Unstarted == {"none", "unsaved", "uploading", "aborted"}
Unended == AtWork \cup {"recovery-required"}
NewFlash(j) == [fw |-> j, cfg |-> "kept"]

\* A job that is not settled, by what it is made of.
Held(j) == volatile.job = j \/ status[j] \in Unended

\* No second job is accepted while one is held.
OneHeld == \A j, k \in Jobs : Held(j) /\ Held(k) => j = k

\* The task owns the device, and its file says that it is at work.
TaskInv ==
  task # NoTask =>
    /\ task.kind # "none" /\ task.job \in Jobs /\ task.at # "ended"
    /\ hub # "off"
    /\ active = task.job
    /\ status[task.job] = IF task.kind = "update" THEN "working" ELSE "checking"
    /\ volatile \in {NoResult, [job |-> task.job, phase |-> "working"]}
    /\ task.kind = "recovery" => volatile = NoResult /\ journal[task.job] = "identified"

\* Until the port was taken, nothing was done for the job.
EarlyInv ==
  task.kind = "update" /\ task.at \in {"accepted", "draining", "closing"} =>
     journal[task.job] = "none" /\ flash = base[task.job]

\* What a task is about to save is true of the flash.
VerdictInv ==
  task.at \in {"concluding", "reconnecting", "saving"} =>
     /\ task.verdict \in {"done", "rolled-back", "error", "recovery-required"}
     /\ task.verdict = "done" => flash = NewFlash(task.job)
     /\ task.verdict \in {"rolled-back", "error"} => flash = base[task.job]

\* What is only in memory is of a job that was accepted, and "working" of the task's.
MemoryInv ==
  /\ volatile.job \in Jobs => status[volatile.job] \notin Unstarted
  /\ volatile.phase = "working" => task.kind = "update" /\ task.job = volatile.job
  /\ \A j \in Jobs : active = j /\ status[j] \in AtWork => task.job = j \/ journal[j] = "none"

\* A hub that looked at its jobs remembers the held ones that touched the Captain.
PingInv ==
  /\ hub = "off" => scanned = "no"
  /\ scanned = "yes" => \A j \in Jobs : Held(j) /\ journal[j] # "none" => task.job = j \/ j \in unresolved

\* The files of a job: what they hold is what the flash held when it was committed.
ImagesInv == \A j \in Jobs :
  /\ before[j] \in {NoImage, base[j]}
  /\ backup[j] \in {NoImage, base[j]}
  /\ journal[j] \in {"identified", "armed"} => before[j] = base[j]
  /\ journal[j] = "none" => before[j] = NoImage /\ backup[j] = NoImage
  /\ status[j] \in Unstarted => journal[j] = "none"
  /\ base[j].cfg = "kept"

\* The flash: nobody's, it has its configuration; a held job's, the backup is on the disk,
\* and a result that was saved although the save raised is true.
FlashInv ==
  /\ (\A j \in Jobs : ~Held(j)) => flash.cfg = "kept"
  /\ \A j \in Jobs : Held(j) =>
       /\ flash # base[j] => backup[j] = base[j]
       /\ status[j] = "done" => flash = NewFlash(j)
       /\ status[j] \in {"rolled-back", "error"} => flash = base[j]

\* The steps of the worker at which the flash is as it was found, at which the backup is on
\* the disk, and at which the configuration before is.
Untouched == {"preflight", "reading", "giving up", "raised", "failed", "resuming", "entering", "backing up",
              "arming", "loading"}
BackedUp == Writing \cup Restoring \cup {"complete", "rolled_back"}
Read1 == {"entering", "backing up"} \cup BackedUp

\* The worker works for the task, and is where the files and the flash say.
WorkerInv ==
  worker.at # "idle" =>
    /\ task.kind = "update" /\ task.at = "at work" /\ worker.job = task.job
    /\ worker.at \in Untouched => flash = base[job]
    /\ worker.at \in Read1 => before[job] = base[job]
    /\ worker.at \in BackedUp => backup[job] = base[job]
    /\ worker.at = "preflight" => journal[job] = "empty"
    /\ worker.at = "reading" => journal[job] = "clean"
    /\ worker.at = "raised" => journal[job] # "armed"
    /\ worker.at = "complete" => flash = NewFlash(job)
    /\ worker.at = "rolled_back" => flash = base[job]

IInv == /\ Typed /\ OneHeld /\ TaskInv /\ EarlyInv /\ VerdictInv /\ MemoryInv /\ PingInv
        /\ ImagesInv /\ FlashInv /\ WorkerInv

(***************************************************************************)
(* What a job is told to be, in terms of who is held.                      *)
(***************************************************************************)
LEMMA VolatileType ==
  ASSUME Typed
  PROVE  /\ volatile \in [job : Jobs \cup {NoJob}, phase : {"working", "recovery-required", "none"}]
         /\ volatile.job \in Jobs => volatile.phase \in {"working", "recovery-required"}
         /\ volatile.job \notin Jobs => volatile = NoResult
BY ServiceAssumption DEF Typed, NoResult

LEMMA LoadedIs ==
  ASSUME IInv, NEW j \in Jobs
  PROVE  /\ Held(j) <=> Loaded(j) \in Unended
         /\ Loaded(j) \in AtWork => \/ task.job = j
                                    \/ active = j /\ volatile.job # j /\ status[j] \in AtWork
         /\ Loaded(j) = "uploading" <=> volatile.job # j /\ status[j] = "uploading"
<1>1. status[j] \in Phases
  BY DEF IInv, Typed
<1>2. status[j] = "unsaved" => journal[j] = "none"
  BY DEF IInv, ImagesInv, Unstarted
<1>3. CASE volatile.job = j
  BY <1>1, <1>3, VolatileType DEF IInv, MemoryInv, Loaded, Held, Unended, AtWork
<1>4. CASE volatile.job # j
  BY <1>1, <1>2, <1>4 DEF Loaded, Held, Unended, AtWork, Interrupted, Phases, Terminal
<1> QED BY <1>3, <1>4

LEMMA HeldIs ==
  ASSUME IInv, NEW j \in Jobs
  PROVE  Held(j) <=> Unsettled(j)
BY LoadedIs DEF Unsettled, Unended, AtWork

LEMMA HeldWithoutTask ==
  ASSUME IInv, NEW j \in Jobs, Held(j), journal[j] # "none", task.job # j
  PROVE  Loaded(j) = "recovery-required"
BY LoadedIs DEF IInv, MemoryInv, Unended, AtWork

LEMMA HeldExists ==
  ASSUME IInv, NEW j \in Jobs, Held(j)
  PROVE  j \in Existing
BY DEF IInv, MemoryInv, Held, Unended, AtWork, Existing, Unstarted

LEMMA UploadsIs ==
  ASSUME IInv, NEW j \in Jobs, Uploads(j)
  PROVE  volatile.job # j /\ status[j] = "uploading" /\ ~Held(j) /\ task.job # j
<1>1. volatile.job # j /\ status[j] = "uploading"
  BY LoadedIs DEF Uploads
<1> QED BY <1>1, ServiceAssumption DEF Held, Unended, AtWork, IInv, TaskInv, NoTask

LEMMA NoticedPing ==
  ASSUME IInv, NEW S, scanned = "yes" \/ S = Existing, NEW j \in Jobs,
         Held(j), journal[j] # "none", task.job # j
  PROVE  j \in Noticed(S)
BY HeldWithoutTask, HeldExists DEF IInv, PingInv, Noticed, UnresolvedIn

LEMMA NoticedType ==
  ASSUME IInv, NEW S \in SUBSET Jobs
  PROVE  Noticed(S) \subseteq Jobs
BY DEF IInv, Typed, Noticed, UnresolvedIn

(***************************************************************************)
(* Requests.                                                               *)
(***************************************************************************)
\* A job that is read, given up, or begun to be uploaded.
Harmless(j) ==
  \/ status'[j] = status[j]
  \/ /\ volatile.job # j /\ status[j] \in AtWork /\ active # j
     /\ status'[j] = "recovery-required"
  \/ volatile.job # j /\ status[j] \in Unstarted /\ status'[j] \in Unstarted

\* The owner of the device changes between uploads only.
Answered == /\ UNCHANGED <<installVars, hub, task, volatile, base>>
            /\ \A j \in Jobs : Harmless(j)
            /\ active' # active => /\ task = NoTask
                                   /\ active \in Jobs => status[active] \notin AtWork
                                   /\ active' \in Jobs => status'[active'] \in Unstarted

LEMMA RequestKept ==
  ASSUME IInv, Typed', PingInv', Answered
  PROVE  IInv'
<1>0. /\ UNCHANGED <<installVars, hub, task, volatile, base>>
      /\ \A j \in Jobs : Harmless(j)
      /\ active' # active => task = NoTask /\ (active' \in Jobs => status'[active'] \in Unstarted)
  BY DEF Answered
<1> USE <1>0 DEF Harmless
<1>1. \A j \in Jobs : Held(j)' <=> Held(j)
  BY DEF Held, Unended, Unstarted, AtWork
<1>2. OneHeld'
  BY <1>1 DEF IInv, OneHeld
<1>3. TaskInv'
  BY DEF IInv, TaskInv, installVars, NoTask, AtWork, Unstarted
<1>4. EarlyInv' /\ VerdictInv' /\ WorkerInv'
  BY DEF IInv, EarlyInv, VerdictInv, WorkerInv, installVars, job
<1>5. MemoryInv'
  BY DEF IInv, MemoryInv, Unstarted, AtWork, installVars
<1>6. ImagesInv'
  BY DEF IInv, ImagesInv, installVars, Unstarted, AtWork
<1>7. FlashInv'
  BY <1>1 DEF IInv, FlashInv, installVars, AtWork, Unstarted, Held, Unended
<1> QED BY <1>2, <1>3, <1>4, <1>5, <1>6, <1>7 DEF IInv

LEMMA LookKept ==
  ASSUME IInv, NEW S \in SUBSET Existing, Look(S)
  PROVE  Answered /\ IInv'
<1>1. \A j \in Jobs : Harmless(j)
  BY DEF Look, StatusRead, Interrupted, Harmless
<1>2. Typed'
  <2>1. status' \in [Jobs -> Phases] /\ unresolved' \subseteq Jobs
    BY NoticedType DEF Look, IInv, Typed, StatusRead, Phases, Terminal, Existing
  <2> QED BY <2>1 DEF Look, IInv, Typed, InstallTypeOK, installVars
<1>3. PingInv'
  <2>1. \A j \in Jobs : Held(j)' <=> Held(j)
    BY <1>1 DEF Look, Harmless, Held, Unended, Unstarted, AtWork
  <2> QED BY <2>1, NoticedPing DEF Look, IInv, PingInv, installVars
<1>4. Answered
  BY <1>1 DEF Look, Answered
<1> QED BY <1>2, <1>3, <1>4, RequestKept

LEMMA LookRaisesKept ==
  ASSUME IInv, NEW j \in Jobs, LookRaises(j)
  PROVE  Answered /\ IInv'
<1>1. \A k \in Jobs : Harmless(k)
  BY DEF LookRaises, SaveRaises, SavedAs, Interrupted, Harmless, IInv, Typed
<1>2. Typed'
  <2>1. status' \in [Jobs -> Phases] /\ unresolved' \subseteq Jobs
    BY DEF LookRaises, SaveRaises, SavedAs, IInv, Typed, Phases, Terminal
  <2> QED BY <2>1 DEF LookRaises, IInv, Typed, InstallTypeOK, installVars
<1>3. PingInv'
  <2>1. \A k \in Jobs : Held(k)' <=> Held(k)
    BY <1>1 DEF LookRaises, Harmless, Held, Unended, Unstarted, AtWork
  <2> QED BY <2>1 DEF LookRaises, IInv, PingInv, installVars
<1>4. Answered
  BY <1>1 DEF LookRaises, Answered
<1> QED BY <1>2, <1>3, <1>4, RequestKept

LEMMA ScanKept ==
  ASSUME IInv, Scan
  PROVE  Answered /\ IInv'
<1>1. \A j \in Jobs : Harmless(j)
  BY DEF Scan, StatusRead, Interrupted, Harmless
<1>2. Typed'
  <2>1. status' \in [Jobs -> Phases] /\ unresolved' \subseteq Jobs
    BY NoticedType DEF Scan, IInv, Typed, StatusRead, Phases, Terminal, Existing
  <2> QED BY <2>1 DEF Scan, IInv, Typed, InstallTypeOK, installVars
<1>3. PingInv'
  <2>1. \A j \in Jobs : Held(j)' <=> Held(j)
    BY <1>1 DEF Scan, Harmless, Held, Unended, Unstarted, AtWork
  <2> QED BY <2>1, NoticedPing DEF Scan, IInv, PingInv, installVars
<1>4. Answered
  BY <1>1 DEF Scan, Answered
<1> QED BY <1>2, <1>3, <1>4, RequestKept

LEMMA MayBeginIs ==
  ASSUME IInv, MayBegin
  PROVE  task = NoTask /\ \A k \in Jobs : ~Held(k)
<1>1. \A k \in Jobs : ~Held(k)
  <2> SUFFICES ASSUME NEW k \in Jobs, Held(k) PROVE FALSE
    OBVIOUS
  <2>1. k \in Existing /\ Loaded(k) \in AtWork
    BY HeldExists, LoadedIs DEF MayBegin, Unended
  <2>2. active = k
    BY <2>1, LoadedIs, ServiceAssumption DEF IInv, TaskInv, NoTask
  <2> QED BY <2>1, <2>2 DEF MayBegin, AtWork, Terminal
<1> QED BY <1>1, ServiceAssumption DEF IInv, Typed, TaskInv, Held, Unended, AtWork

LEMMA ExpiredIs ==
  ASSUME IInv
  PROVE  /\ Expired \in [Jobs -> Phases]
         /\ \A j \in Jobs : \/ Expired[j] = status[j]
                            \/ volatile.job # j /\ status[j] = "uploading" /\ Expired[j] = "aborted"
<1>1. Expired \in [Jobs -> Phases]
  BY DEF Expired, IInv, Typed, Phases, Terminal
<1> QED BY <1>1, LoadedIs DEF Expired

LEMMA BeginKept ==
  ASSUME IInv, NEW j \in Jobs, Begin(j) \/ BeginRaises(j)
  PROVE  Answered /\ IInv'
<1>1. /\ status[j] = "none" /\ volatile.job # j
      /\ task = NoTask /\ unresolved' = Noticed(Existing)
      /\ \A k \in Jobs : ~Held(k)
  BY MayBeginIs DEF Begin, BeginRaises, Held
<1>2. /\ status' \in [Jobs -> Phases] /\ \A k \in Jobs : k # j => status'[k] = Expired[k]
      /\ status'[j] \in {"none", "unsaved", "uploading"}
  BY <1>1, ExpiredIs DEF Begin, BeginRaises, Phases
<1>3. \A k \in Jobs : Harmless(k)
  BY <1>1, <1>2, ExpiredIs DEF Harmless, Unstarted
<1>4. active' \in {active, j} /\ (active' = j => status'[j] \in Unstarted)
  BY <1>1, <1>2 DEF Begin, BeginRaises, Unstarted
<1>5. Typed'
  BY <1>2, <1>4, <1>1, NoticedType
  DEF Begin, BeginRaises, IInv, Typed, InstallTypeOK, installVars, Existing
<1>6. PingInv'
  <2>1. \A k \in Jobs : ~Held(k)'
    BY <1>3, <1>1 DEF Begin, BeginRaises, Harmless, Held, Unended, Unstarted, AtWork
  <2> QED BY <2>1 DEF Begin, BeginRaises, IInv, PingInv
<1>7. Answered
  <2>1. active \in Jobs => status[active] \notin AtWork
    BY <1>1 DEF Held, Unended
  <2> QED BY <1>1, <1>3, <1>4, <2>1 DEF Begin, BeginRaises, Answered
<1> QED BY <1>5, <1>6, <1>7, RequestKept

LEMMA UploadKept ==
  ASSUME IInv, NEW j \in Jobs, Uploads(j),
         UNCHANGED <<installVars, hub, task, maintenance, volatile, scanned, link, base>>,
         status' = status \/ status' = [status EXCEPT ![j] = "aborted"],
         received' \in [Jobs -> 0 .. Size],
         unresolved' = unresolved \ {j},
         \/ active' = active
         \/ active \in {NoJob, j} /\ active' = j
         \/ active = j /\ active' = NoJob
  PROVE  Answered /\ IInv'
<1>1. volatile.job # j /\ status[j] = "uploading" /\ ~Held(j) /\ task.job # j
  BY UploadsIs
<1>2. \A k \in Jobs : Harmless(k)
  BY <1>1 DEF Harmless, Unstarted, IInv, Typed
<1>3. active' # active => /\ task = NoTask
                          /\ active \in Jobs => status[active] \notin AtWork
                          /\ active' \in Jobs => status'[active'] \in Unstarted
  BY <1>1, ServiceAssumption DEF IInv, Typed, TaskInv, Unstarted, AtWork
<1>4. Typed'
  <2>1. status' \in [Jobs -> Phases] /\ unresolved' \subseteq Jobs /\ active' \in Jobs \cup {NoJob}
    BY DEF IInv, Typed, Phases, Terminal
  <2> QED BY <2>1 DEF IInv, Typed, InstallTypeOK, installVars
<1>5. PingInv'
  <2>1. \A k \in Jobs : Held(k)' <=> Held(k)
    BY <1>2 DEF Harmless, Held, Unended, Unstarted, AtWork
  <2> QED BY <2>1, <1>1 DEF IInv, PingInv, installVars
<1>6. Answered
  BY <1>2, <1>3 DEF Answered
<1> QED BY <1>4, <1>5, <1>6, RequestKept

LEMMA ChunkKept ==
  ASSUME IInv, NEW j \in Jobs, Chunk(j) \/ ChunkRaises(j)
  PROVE  Answered /\ IInv'
<1>1. received' \in [Jobs -> 0 .. Size]
  BY ServiceAssumption DEF Chunk, ChunkRaises, IInv, Typed
<1> QED BY <1>1, UploadKept DEF Chunk, ChunkRaises, Owns

LEMMA AbortKept ==
  ASSUME IInv, NEW j \in Jobs, Abort(j)
  PROVE  Answered /\ IInv'
<1>1. received' \in [Jobs -> 0 .. Size]
  BY DEF Abort, IInv, Typed
<1>2. active' = active \/ (active = j /\ active' = NoJob)
  <2>1. CASE active = j
    BY <2>1 DEF Abort
  <2>2. CASE active # j
    BY <2>2 DEF Abort
  <2> QED BY <2>1, <2>2
<1> QED BY <1>1, <1>2, UploadKept DEF Abort, SaveRaises, SavedAs

\* A job is accepted only when no other one is held.
LEMMA MayCommitIs ==
  ASSUME IInv, NEW j \in Jobs, MayCommit(j)
  PROVE  /\ status[j] = "uploading" /\ task = NoTask /\ volatile = NoResult
         /\ \A k \in Jobs : ~Held(k)
<1>1. volatile.job # j /\ status[j] = "uploading" /\ ~Held(j) /\ task.job # j
  BY UploadsIs DEF MayCommit
<1>2. task = NoTask
  BY <1>1, ServiceAssumption DEF MayCommit, Owns, IInv, Typed, TaskInv
<1>3. ASSUME NEW k \in Jobs, Held(k), k # j
      PROVE  FALSE
  <2>1. Loaded(k) \in AtWork
    BY <1>3, LoadedIs, HeldExists DEF MayCommit, Unended
  <2> QED BY <2>1, <1>2, <1>3, LoadedIs, ServiceAssumption DEF MayCommit, Owns, NoTask
<1>4. \A k \in Jobs : ~Held(k)
  BY <1>1, <1>3
<1>5. volatile = NoResult
  <2>1. volatile.job \notin Jobs
    BY <1>4 DEF Held
  <2> QED BY <2>1, VolatileType DEF IInv
<1> QED BY <1>1, <1>2, <1>4, <1>5

\* A job whose acceptance is on the disk, with its task or, when the save raised, without.
LEMMA Committed ==
  ASSUME IInv, NEW j \in Jobs, MayCommit(j), Typed',
         UNCHANGED <<installVars, hub, volatile, scanned>>,
         status' = [status EXCEPT ![j] = "working"],
         base' = [base EXCEPT ![j] = flash],
         active' = active \/ active' = j,
         unresolved' = Noticed(Existing),
         \/ task' = task
         \/ /\ task' = [kind |-> "update", job |-> j, at |-> "accepted", port |-> "held",
                        verdict |-> "none"]
            /\ active' = j
  PROVE  IInv'
<1>1. /\ status[j] = "uploading" /\ task = NoTask /\ volatile = NoResult
      /\ \A k \in Jobs : ~Held(k)
  BY MayCommitIs
<1>2. status \in [Jobs -> Phases] /\ base \in [Jobs -> Images]
  BY DEF IInv, Typed
<1>3. \A k \in Jobs : Held(k)' <=> k = j
  BY <1>1, <1>2, ServiceAssumption DEF Held, Unended, AtWork, NoResult
<1>4. journal[j] = "none" /\ before[j] = NoImage /\ backup[j] = NoImage
  BY <1>1 DEF IInv, ImagesInv, Unstarted
<1>5. OneHeld'
  BY <1>3 DEF OneHeld
<1>6. TaskInv'
  <2>1. hub # "off"
    BY DEF MayCommit, Uploads, Request
  <2> QED BY <1>1, <1>2, <2>1 DEF TaskInv, NoTask
<1>7. EarlyInv' /\ VerdictInv' /\ WorkerInv'
  <2>1. EarlyInv'
    BY <1>1, <1>2, <1>4 DEF EarlyInv, installVars, NoTask
  <2>2. VerdictInv'
    BY <1>1 DEF VerdictInv, NoTask
  <2>3. WorkerInv'
    BY <1>1 DEF IInv, WorkerInv, installVars, NoTask
  <2> QED BY <2>1, <2>2, <2>3
<1>8. MemoryInv'
  BY <1>1, <1>2, <1>4, ServiceAssumption
  DEF IInv, MemoryInv, installVars, NoResult, NoTask, Held, Unended
<1>9. PingInv'
  BY <1>3, <1>4 DEF MayCommit, Uploads, Request, PingInv, installVars
<1>10. ImagesInv'
  BY <1>1, <1>2, <1>4 DEF IInv, ImagesInv, FlashInv, installVars, Unstarted
<1>11. FlashInv'
  BY <1>1, <1>2, <1>3 DEF FlashInv, installVars
<1> QED BY <1>5, <1>6, <1>7, <1>8, <1>9, <1>10, <1>11 DEF IInv

LEMMA CommitKept ==
  ASSUME IInv, NEW j \in Jobs, Commit(j)
  PROVE  IInv'
<1>1. Typed'
  <2>1. status' \in [Jobs -> Phases] /\ unresolved' \subseteq Jobs /\ base' \in [Jobs -> Images]
    BY NoticedType DEF Commit, SavedAs, IInv, Typed, InstallTypeOK, Phases, AtWork, Existing
  <2>2. task' \in [kind : {"update", "recovery"}, job : Jobs, at : TaskSteps,
                   port : {"held", "released"}, verdict : Terminal \cup {"none"}]
    BY DEF Commit, TaskSteps
  <2> QED BY <2>1, <2>2 DEF Commit, IInv, Typed, InstallTypeOK, installVars
<1> QED BY <1>1, Committed DEF Commit, SavedAs

LEMMA CommitRaisesKept ==
  ASSUME IInv, NEW j \in Jobs, CommitRaises(j)
  PROVE  IInv'
<1>1. Typed'
  <2>1. status' \in [Jobs -> Phases] /\ unresolved' \subseteq Jobs /\ base' \in [Jobs -> Images]
    BY NoticedType
    DEF CommitRaises, SaveRaises, SavedAs, IInv, Typed, InstallTypeOK, Phases, AtWork, Existing
  <2> QED BY <2>1 DEF CommitRaises, IInv, Typed, InstallTypeOK, installVars
<1>2. CASE status' = status
  <2>1. PingInv'
    <3>1. \A k \in Jobs : ~Held(k)'
      BY <1>2, MayCommitIs DEF CommitRaises, Held
    <3> QED BY <3>1 DEF CommitRaises, MayCommit, Uploads, Request, PingInv
  <2>2. Answered
    BY <1>2 DEF CommitRaises, Answered, Harmless
  <2> QED BY <1>1, <2>1, <2>2, RequestKept
<1>3. CASE status' # status
  BY <1>1, <1>3, Committed DEF CommitRaises, SaveRaises, SavedAs
<1> QED BY <1>2, <1>3

LEMMA RecoverKept ==
  ASSUME IInv, NEW j \in Jobs, Recover(j)
  PROVE  IInv'
<1>1. Held(j) /\ task = NoTask /\ active = NoJob /\ journal[j] = "identified" /\ hub = "up"
  BY LoadedIs DEF Recover, MayRecover, HasEvidence, Request, Unended
<1>2. volatile' = NoResult /\ \A k \in Jobs : Held(k) => k = j
  BY <1>1, VolatileType DEF Recover, IInv, OneHeld, Held
<1>3. status \in [Jobs -> Phases] /\ status' = [status EXCEPT ![j] = "checking"]
  BY DEF Recover, SavedAs, IInv, Typed
<1>4. \A k \in Jobs : Held(k)' <=> k = j
  BY <1>2, <1>3, ServiceAssumption DEF Held, Unended, AtWork, NoResult
<1>5. task' = [kind |-> "recovery", job |-> j, at |-> "draining", port |-> "held", verdict |-> "none"]
  BY DEF Recover
<1>6. UNCHANGED <<installVars, hub, received, scanned, link, base>> /\ active' = j
      /\ unresolved' = unresolved \ {j} /\ maintenance' = "closed"
  BY DEF Recover
<1>7. Typed'
  <2>1. status' \in [Jobs -> Phases]
    BY <1>3 DEF Phases, AtWork
  <2>2. task' \in [kind : {"update", "recovery"}, job : Jobs, at : TaskSteps,
                   port : {"held", "released"}, verdict : Terminal \cup {"none"}]
    BY <1>5 DEF TaskSteps
  <2> QED BY <1>2, <1>6, <2>1, <2>2 DEF IInv, Typed, InstallTypeOK, installVars
<1>8. OneHeld'
  BY <1>4 DEF OneHeld
<1>9. TaskInv'
  BY <1>1, <1>2, <1>3, <1>5, <1>6 DEF TaskInv, installVars
<1>10. EarlyInv' /\ VerdictInv' /\ WorkerInv'
  BY <1>1, <1>5, <1>6 DEF IInv, EarlyInv, VerdictInv, WorkerInv, installVars, job, NoTask
<1>11. MemoryInv'
  BY <1>2, <1>5, <1>6, ServiceAssumption DEF MemoryInv, NoResult
<1>12. PingInv'
  BY <1>1, <1>4, <1>5, <1>6 DEF PingInv
<1>13. ImagesInv'
  BY <1>1, <1>3, <1>6 DEF IInv, ImagesInv, installVars, Unstarted
<1>14. FlashInv'
  BY <1>1, <1>3, <1>4, <1>6 DEF IInv, FlashInv, installVars
<1> QED BY <1>7, <1>8, <1>9, <1>10, <1>11, <1>12, <1>13, <1>14 DEF IInv

LEMMA RecoverRaisesKept ==
  ASSUME IInv, NEW j \in Jobs, RecoverRaises(j)
  PROVE  IInv'
<1>1. Held(j) /\ task = NoTask /\ active = NoJob /\ hub = "up"
  BY LoadedIs DEF RecoverRaises, MayRecover, Request, Unended
<1>2. status \in [Jobs -> Phases] /\ status' \in {status, [status EXCEPT ![j] = "checking"]}
  BY DEF RecoverRaises, SaveRaises, SavedAs, IInv, Typed
<1>3. \A k \in Jobs : Held(k)' <=> Held(k)
  BY <1>1, <1>2 DEF RecoverRaises, Held, Unended, AtWork
<1>4. UNCHANGED <<installVars, hub, received, active, task, maintenance, volatile, scanned, link, base>>
      /\ unresolved' = unresolved \cup {j}
  BY DEF RecoverRaises
<1>5. Typed'
  <2>1. status' \in [Jobs -> Phases]
    BY <1>2 DEF Phases, AtWork
  <2> QED BY <1>4, <2>1 DEF IInv, Typed, InstallTypeOK, installVars
<1>6. OneHeld'
  BY <1>3 DEF IInv, OneHeld
<1>7. TaskInv' /\ EarlyInv' /\ VerdictInv' /\ WorkerInv'
  BY <1>1, <1>4 DEF IInv, TaskInv, EarlyInv, VerdictInv, WorkerInv, installVars, job, NoTask
<1>8. MemoryInv'
  BY <1>1, <1>2, <1>4, ServiceAssumption DEF IInv, MemoryInv, installVars, Unstarted
<1>9. PingInv'
  BY <1>3, <1>4 DEF IInv, PingInv, installVars
<1>10. ImagesInv'
  BY <1>2, <1>4 DEF IInv, ImagesInv, installVars, Unstarted
<1>11. FlashInv'
  BY <1>2, <1>3, <1>4 DEF IInv, FlashInv, installVars
<1> QED BY <1>5, <1>6, <1>7, <1>8, <1>9, <1>10, <1>11 DEF IInv

(***************************************************************************)
(* The task.                                                               *)
(***************************************************************************)
\* The records a task can be, and that it is one.
Tasks == [kind : {"update", "recovery"}, job : Jobs, at : TaskSteps,
          port : {"held", "released"}, verdict : Terminal \cup {"none"}]
TaskType == task \in Tasks

LEMMA TaskWith ==
  ASSUME TaskType, NEW s \in TaskSteps
  PROVE  /\ [task EXCEPT !.at = s] \in Tasks
         /\ [task EXCEPT !.at = s, !.port = "released"] \in Tasks
         /\ \A v \in Terminal : /\ [task EXCEPT !.at = s, !.verdict = v] \in Tasks
                               /\ [task EXCEPT !.at = s, !.port = "released", !.verdict = v] \in Tasks
BY DEF TaskType, Tasks

\* The types, when the task goes on and the files of the hub are left alone.
LEMMA TaskTypeKept ==
  ASSUME IInv, task' \in Tasks, InstallTypeOK',
         UNCHANGED <<hub, status, received, active, volatile, unresolved, scanned, base>>,
         maintenance' \in {"open", "closed"},
         link' \in {"up", "down", "stopped", "stuck", "dead"}
  PROVE  Typed'
BY DEF IInv, Typed, Tasks

LEMMA TaskIs ==
  ASSUME IInv, NEW s \in TaskSteps, At(s)
  PROVE  /\ TaskType /\ task # NoTask /\ task.at = s
         /\ task.job \in Jobs /\ hub # "off" /\ active = task.job /\ Held(task.job)
         /\ status[task.job] \in AtWork
         /\ s # "at work" => worker.at = "idle"
         /\ Failure \in {"error", "recovery-required"}
         /\ s \in {"accepted", "draining", "closing"} /\ Failure = "error" => flash = base[task.job]
<1>1. TaskType /\ task # NoTask /\ task.at = s
  BY DEF IInv, Typed, TaskType, Tasks, At, NoTask
<1> QED BY <1>1 DEF IInv, TaskInv, EarlyInv, WorkerInv, TaskType, Tasks, Held, Unended, AtWork, Failure

\* Where the task is changes, and nothing of the jobs.
LEMMA TaskMoves ==
  ASSUME IInv, Typed', NEW s \in TaskSteps, At(s),
         task'.kind = task.kind, task'.job = task.job, task'.at # "ended",
         UNCHANGED <<journal, before, backup, flash, hub, status, active, volatile, unresolved, scanned, base>>,
         EarlyInv', VerdictInv', WorkerInv'
  PROVE  IInv'
<1>1. \A j \in Jobs : Held(j)' <=> Held(j)
  BY DEF Held
<1>2. OneHeld' /\ PingInv'
  BY <1>1 DEF IInv, OneHeld, PingInv
<1>3. TaskInv'
  BY TaskIs DEF IInv, TaskInv
<1>4. MemoryInv'
  BY DEF IInv, MemoryInv
<1>5. ImagesInv'
  BY DEF IInv, ImagesInv
<1>6. FlashInv'
  BY <1>1 DEF IInv, FlashInv
<1> QED BY <1>2, <1>3, <1>4, <1>5, <1>6 DEF IInv

LEMMA ValidateKept ==
  ASSUME IInv, Validate
  PROVE  IInv'
<1> USE DEF Validate, Step, Found
<1>1. /\ At("accepted") /\ "accepted" \in TaskSteps /\ TaskType /\ worker.at = "idle"
      /\ Failure \in {"error", "recovery-required"} /\ (Failure = "error" => flash = base[task.job])
  BY TaskIs DEF TaskSteps
<1>2. Typed'
  <2>1. task' \in Tasks
    BY <1>1, TaskWith DEF TaskSteps, Terminal
  <2> QED BY <2>1, TaskTypeKept DEF IInv, Typed, InstallTypeOK, installVars
<1>3. EarlyInv'
  BY <1>1 DEF IInv, EarlyInv, At, installVars, TaskType, Tasks
<1>4. VerdictInv'
  BY <1>1 DEF IInv, VerdictInv, At, installVars, TaskType, Tasks
<1>5. WorkerInv'
  BY <1>1 DEF WorkerInv, installVars
<1> QED BY <1>1, <1>2, <1>3, <1>4, <1>5, TaskMoves DEF installVars, TaskType, Tasks

LEMMA DrainKept ==
  ASSUME IInv, Drain
  PROVE  IInv'
<1> USE DEF Drain, Step, Found
<1>1. /\ At("draining") /\ "draining" \in TaskSteps /\ TaskType /\ worker.at = "idle"
      /\ Failure \in {"error", "recovery-required"} /\ (Failure = "error" => flash = base[task.job])
  BY TaskIs DEF TaskSteps
<1>2. Typed'
  <2>1. task' \in Tasks
    BY <1>1, TaskWith DEF TaskSteps, Terminal
  <2> QED BY <2>1, TaskTypeKept DEF IInv, Typed, InstallTypeOK, installVars
<1>3. EarlyInv'
  BY <1>1 DEF IInv, EarlyInv, At, installVars, TaskType, Tasks
<1>4. VerdictInv'
  BY <1>1 DEF IInv, VerdictInv, At, installVars, TaskType, Tasks
<1>5. WorkerInv'
  BY <1>1 DEF WorkerInv, installVars
<1> QED BY <1>1, <1>2, <1>3, <1>4, <1>5, TaskMoves DEF installVars, TaskType, Tasks

LEMMA PortStuckKept ==
  ASSUME IInv, PortStuck
  PROVE  IInv'
<1> USE DEF PortStuck
<1>1. /\ At("closing") /\ "closing" \in TaskSteps /\ TaskType /\ worker.at = "idle"
      /\ Failure \in {"error", "recovery-required"} /\ (Failure = "error" => flash = base[task.job])
  BY TaskIs DEF TaskSteps
<1>2. Typed'
  <2>1. task' \in Tasks
    BY <1>1, TaskWith DEF TaskSteps, Terminal
  <2> QED BY <2>1, TaskTypeKept DEF IInv, Typed, InstallTypeOK, installVars
<1>3. EarlyInv'
  BY <1>1 DEF EarlyInv, TaskType, Tasks
<1>4. VerdictInv'
  BY <1>1 DEF VerdictInv, installVars, TaskType, Tasks
<1>5. WorkerInv'
  BY <1>1 DEF WorkerInv, installVars
<1> QED BY <1>1, <1>2, <1>3, <1>4, <1>5, TaskMoves DEF installVars, TaskType, Tasks

LEMMA GivePortBackKept ==
  ASSUME IInv, GivePortBack
  PROVE  IInv'
<1> USE DEF GivePortBack, Step
<1>1. At("concluding") /\ "concluding" \in TaskSteps /\ TaskType /\ worker.at = "idle"
  BY TaskIs DEF TaskSteps
<1>2. Typed'
  <2>1. task' \in Tasks
    BY <1>1, TaskWith DEF TaskSteps, Terminal
  <2> QED BY <2>1, TaskTypeKept DEF IInv, Typed, InstallTypeOK, installVars
<1>3. EarlyInv'
  BY <1>1 DEF EarlyInv, TaskType, Tasks
<1>4. VerdictInv'
  BY <1>1 DEF IInv, VerdictInv, At, installVars, TaskType, Tasks
<1>5. WorkerInv'
  BY <1>1 DEF WorkerInv, installVars
<1> QED BY <1>1, <1>2, <1>3, <1>4, <1>5, TaskMoves DEF installVars, TaskType, Tasks

LEMMA ReconnectedKept ==
  ASSUME IInv, Reconnected
  PROVE  IInv'
<1> USE DEF Reconnected, Step
<1>1. At("reconnecting") /\ "reconnecting" \in TaskSteps /\ TaskType /\ worker.at = "idle"
  BY TaskIs DEF TaskSteps
<1>2. Typed'
  <2>1. task' \in Tasks
    BY <1>1, TaskWith DEF TaskSteps, Terminal
  <2> QED BY <2>1, TaskTypeKept DEF IInv, Typed, InstallTypeOK, installVars
<1>3. EarlyInv'
  BY <1>1 DEF EarlyInv, TaskType, Tasks
<1>4. VerdictInv'
  BY <1>1 DEF IInv, VerdictInv, At, installVars, TaskType, Tasks
<1>5. WorkerInv'
  BY <1>1 DEF WorkerInv, installVars
<1> QED BY <1>1, <1>2, <1>3, <1>4, <1>5, TaskMoves DEF installVars, TaskType, Tasks

LEMMA CheckEndsKept ==
  ASSUME IInv, CheckEnds
  PROVE  IInv'
<1> USE DEF CheckEnds, Found
<1>1. /\ At("at work") /\ "at work" \in TaskSteps /\ TaskType /\ task.kind = "recovery"
      /\ task.job \in Jobs /\ task # NoTask
  BY TaskIs DEF TaskSteps
<1>2. Typed'
  <2>1. task' \in Tasks
    BY <1>1, TaskWith DEF TaskSteps, Terminal
  <2> QED BY <2>1, TaskTypeKept DEF IInv, Typed, InstallTypeOK, installVars
<1>3. EarlyInv'
  BY <1>1 DEF EarlyInv, TaskType, Tasks
<1>4. VerdictInv'
  <2>1. journal[task.job] = "identified" /\ before[task.job] = base[task.job]
    BY <1>1 DEF IInv, TaskInv, ImagesInv
  <2> QED BY <1>1, <2>1 DEF VerdictInv, installVars, TaskType, Tasks, Verified
<1>5. WorkerInv'
  BY <1>1 DEF IInv, WorkerInv, installVars
<1> QED BY <1>1, <1>2, <1>3, <1>4, <1>5, TaskMoves DEF installVars, TaskType, Tasks

LEMMA WorkerEndsKept ==
  ASSUME IInv, WorkerEnds
  PROVE  IInv'
<1> USE DEF WorkerEnds, Found, GoTo
<1>1. At("at work") /\ "at work" \in TaskSteps /\ TaskType /\ task.kind = "update"
  BY TaskIs DEF TaskSteps
<1>2. /\ worker \in [job : Jobs, at : Steps] /\ worker.job = task.job
      /\ worker.at \in Results
  BY DEF IInv, Typed, InstallTypeOK, WorkerInv, Results
<1>3. /\ Verdict[worker.at] \in {"done", "rolled-back", "error", "recovery-required"}
      /\ Verdict[worker.at] = "done" => flash = NewFlash(task.job)
      /\ Verdict[worker.at] \in {"rolled-back", "error"} => flash = base[task.job]
  <2>1. /\ worker.at = "complete" => flash = NewFlash(task.job)
        /\ worker.at \in {"failed", "rolled_back", "raised"} => flash = base[task.job]
        /\ worker.at = "raised" => Failure = "error"
    BY <1>1, <1>2 DEF IInv, WorkerInv, Untouched, Failure, job, Results
  <2>2. /\ worker.at = "complete" => Verdict[worker.at] = "done"
        /\ worker.at = "failed" => Verdict[worker.at] = "error"
        /\ worker.at = "rolled_back" => Verdict[worker.at] = "rolled-back"
        /\ worker.at = "manual_recovery" => Verdict[worker.at] = "recovery-required"
        /\ worker.at = "raised" => Verdict[worker.at] = Failure
    <3>1. /\ Verdict["complete"] = "done" /\ Verdict["failed"] = "error"
          /\ Verdict["rolled_back"] = "rolled-back" /\ Verdict["raised"] = Failure
          /\ Verdict["manual_recovery"] = "recovery-required"
      BY DEF Verdict
    <3> QED BY <3>1
  <2>3. worker.at \in {"complete", "failed", "rolled_back", "manual_recovery", "raised"}
    BY <1>2 DEF Results
  <2> QED BY <2>1, <2>2, <2>3
<1>4. Typed'
  <2>1. task' \in Tasks
    BY <1>1, <1>3, TaskWith DEF TaskSteps, Terminal
  <2>2. worker' \in [job : Jobs, at : Steps]
    BY <1>2 DEF Steps
  <2> QED BY <2>1, <2>2, TaskTypeKept DEF IInv, Typed, InstallTypeOK
<1>5. EarlyInv'
  BY <1>1 DEF EarlyInv, TaskType, Tasks
<1>6. VerdictInv'
  BY <1>1, <1>3 DEF VerdictInv, TaskType, Tasks
<1>7. WorkerInv'
  BY <1>2 DEF WorkerInv
<1> QED BY <1>1, <1>4, <1>5, <1>6, <1>7, TaskMoves DEF TaskType, Tasks

LEMMA TakePortKept ==
  ASSUME IInv, TakePort
  PROVE  IInv'
<1>1. /\ At("closing") /\ "closing" \in TaskSteps /\ TaskType /\ worker.at = "idle"
      /\ task.job \in Jobs /\ task # NoTask /\ Held(task.job) /\ status[task.job] \in AtWork
  BY TaskIs DEF TaskSteps, TakePort
<1>2. /\ task' = [task EXCEPT !.at = "at work", !.port = "released"]
      /\ UNCHANGED <<hub, status, received, active, maintenance, volatile, unresolved, scanned, base>>
      /\ UNCHANGED <<before, backup, flash, mode>>
      /\ link' = "stopped"
  BY DEF TakePort, Released, Run, RunRaises, installVars
<1>3. CASE task.kind = "update" /\ Run(task.job)
  <2>1. journal' = [journal EXCEPT ![task.job] = "empty"] /\ journal[task.job] = "none"
        /\ worker' = [job |-> task.job, at |-> "preflight"] /\ flash = base[task.job]
    BY <1>1, <1>3 DEF Run, IInv, EarlyInv, At
  <2>2. journal \in [Jobs -> Journals] /\ worker' \in [job : Jobs, at : Steps]
    BY <1>1, <2>1 DEF IInv, Typed, InstallTypeOK, Steps, BeforeBoot
  <2>3. \A j \in Jobs : Held(j)' <=> Held(j)
    BY <1>2 DEF Held
  <2>4. Typed'
    <3>1. journal' \in [Jobs -> Journals]
      BY <2>1, <2>2 DEF Journals
    <3>2. task' \in Tasks
      <4>1. TaskType /\ "at work" \in TaskSteps
        BY <1>1 DEF TaskSteps
      <4>2. [task EXCEPT !.at = "at work", !.port = "released"] \in Tasks
        BY ONLY <4>1, TaskWith, Zenon
      <4> QED BY <1>2, <4>2
    <3>3. InstallTypeOK'
      <4>1. InstallTypeOK
        BY DEF IInv, Typed
      <4>2. UNCHANGED <<before, backup, flash, mode>>
        BY <1>2
      <4> QED BY ONLY <2>2, <3>1, <4>1, <4>2 DEF InstallTypeOK
    <3>4. maintenance' \in {"open", "closed"} /\ link' \in {"up", "down", "stopped", "stuck", "dead"}
      BY <1>2 DEF IInv, Typed
    <3> QED BY <1>2, <3>2, <3>3, <3>4, TaskTypeKept
  <2>5. OneHeld'
    BY <2>3 DEF IInv, OneHeld
  <2>6. TaskInv'
    <3>1. task'.kind = "update" /\ task'.job = task.job /\ task'.at = "at work"
      BY <1>1, <1>2, <1>3 DEF TaskType, Tasks
    <3>2. UNCHANGED <<hub, active, status, volatile>>
      BY <1>2
    <3> QED BY <1>1, <1>3, <3>1, <3>2 DEF IInv, TaskInv
  <2>7. EarlyInv' /\ VerdictInv'
    BY <1>1, <1>2 DEF EarlyInv, VerdictInv, TaskType, Tasks
  <2>8. MemoryInv'
    BY <1>1, <1>2, <2>1, <2>2 DEF IInv, MemoryInv, TaskType, Tasks
  <2>9. PingInv'
    BY <1>1, <1>2, <2>1, <2>2, <2>3 DEF IInv, PingInv, TaskType, Tasks
  <2>10. ImagesInv'
    BY <1>1, <1>2, <2>1, <2>2 DEF IInv, ImagesInv, Unstarted, AtWork
  <2>11. FlashInv'
    BY <1>2, <2>3 DEF IInv, FlashInv
  <2>12. WorkerInv'
    BY <1>1, <1>2, <1>3, <2>1, <2>2
    DEF WorkerInv, TaskType, Tasks, job, Untouched, BackedUp, Read1, Writing, Restoring
  <2> QED BY <2>4, <2>5, <2>6, <2>7, <2>8, <2>9, <2>10, <2>11, <2>12 DEF IInv
<1>4. CASE \/ task.kind = "update" /\ RunRaises(task.job)
           \/ task.kind = "recovery" /\ UNCHANGED installVars
  <2>1. Typed'
    <3>1. task' \in Tasks
      BY <1>1, <1>2, TaskWith, Zenon DEF TaskSteps
    <3>2. worker' \in [job : Jobs, at : Steps] /\ UNCHANGED journal
      <4>1. worker \in [job : Jobs, at : Steps] /\ "raised" \in Steps
        BY DEF IInv, Typed, InstallTypeOK, Steps, Results
      <4> QED BY <1>1, <1>4, <4>1 DEF RunRaises, installVars
    <3> QED BY <1>2, <3>1, <3>2, TaskTypeKept DEF IInv, Typed, InstallTypeOK
  <2>2. EarlyInv' /\ VerdictInv'
    BY <1>1, <1>2 DEF EarlyInv, VerdictInv, TaskType, Tasks
  <2>3. WorkerInv'
    <3>1. CASE task.kind = "update" /\ RunRaises(task.job)
      <4>1. journal[task.job] = "none" /\ flash = base[task.job]
        BY <1>1, <3>1 DEF IInv, EarlyInv, At
      <4>2. worker' = [job |-> task.job, at |-> "raised"] /\ UNCHANGED <<journal, flash, base>>
        BY <1>2, <3>1 DEF RunRaises
      <4> QED BY <1>1, <1>2, <3>1, <4>1, <4>2
          DEF WorkerInv, TaskType, Tasks, job, Untouched, BackedUp, Read1, Writing, Restoring
    <3>2. CASE task.kind = "recovery" /\ UNCHANGED installVars
      BY <1>1, <3>2 DEF WorkerInv, installVars
    <3> QED BY <1>4, <3>1, <3>2
  <2>4. UNCHANGED journal
    BY <1>4 DEF RunRaises, installVars
  <2> QED BY <1>1, <1>2, <2>1, <2>2, <2>3, <2>4, TaskMoves DEF TaskType, Tasks
<1> QED BY <1>1, <1>3, <1>4 DEF TakePort, TaskType, Tasks
LEMMA ProgressLostKept ==
  ASSUME IInv, ProgressLost
  PROVE  IInv'
<1>1. /\ task # NoTask /\ task.kind = "update" /\ task.job \in Jobs /\ active = task.job
      /\ status[task.job] = "working" /\ hub # "off"
  <2>1. "at work" \in TaskSteps /\ At("at work") /\ task.kind = "update"
    BY DEF TaskSteps, ProgressLost
  <2> QED BY <2>1, TaskIs DEF IInv, TaskInv
<1>2. volatile = NoResult \/ volatile = [job |-> task.job, phase |-> "working"]
  BY <1>1 DEF IInv, TaskInv
<1>3. volatile' = [job |-> task.job, phase |-> "working"]
  BY DEF ProgressLost
<1>4. UNCHANGED <<installVars, hub, status, received, active, task, maintenance, unresolved,
                  scanned, link, base>>
  BY DEF ProgressLost
<1>5. \A j \in Jobs : Held(j)' <=> Held(j)
  BY <1>1, <1>2, <1>3, <1>4, ServiceAssumption DEF Held, Unended, AtWork, NoResult
<1>6. Typed'
  BY <1>1, <1>3, <1>4 DEF IInv, Typed, InstallTypeOK, installVars
<1>7. OneHeld' /\ PingInv'
  BY <1>4, <1>5 DEF IInv, OneHeld, PingInv, installVars
<1>8. TaskInv'
  BY <1>1, <1>3, <1>4 DEF IInv, TaskInv, installVars
<1>9. EarlyInv' /\ VerdictInv' /\ WorkerInv'
  BY <1>4 DEF IInv, EarlyInv, VerdictInv, WorkerInv, installVars, job
<1>10. MemoryInv'
  BY <1>1, <1>3, <1>4 DEF IInv, MemoryInv, Unstarted, installVars
<1>11. ImagesInv'
  BY <1>4 DEF IInv, ImagesInv, installVars
<1>12. FlashInv'
  BY <1>4, <1>5 DEF IInv, FlashInv, installVars
<1> QED BY <1>6, <1>7, <1>8, <1>9, <1>10, <1>11, <1>12 DEF IInv

\* What a task that is over leaves behind, its result saved or not.
LEMMA SavingIs ==
  ASSUME IInv, At("saving")
  PROVE  /\ task.job \in Jobs /\ Held(task.job) /\ hub # "off" /\ worker.at = "idle"
         /\ status[task.job] \in AtWork
         /\ \A k \in Jobs : Held(k) => k = task.job
         /\ task.verdict \in {"done", "rolled-back", "error", "recovery-required"}
         /\ task.verdict = "done" => flash = NewFlash(task.job)
         /\ task.verdict \in {"rolled-back", "error"} => flash = base[task.job]
         /\ flash # base[task.job] => backup[task.job] = base[task.job]
<1>1. "saving" \in TaskSteps
  BY DEF TaskSteps
<1>2. /\ task.job \in Jobs /\ Held(task.job) /\ hub # "off" /\ worker.at = "idle"
      /\ status[task.job] \in AtWork /\ task.at = "saving"
  BY <1>1, TaskIs
<1> QED BY <1>2 DEF IInv, OneHeld, VerdictInv, FlashInv

LEMMA SaveKept ==
  ASSUME IInv, Save
  PROVE  IInv'
<1> DEFINE j == task.job
           v == task.verdict
<1>1. /\ j \in Jobs /\ Held(j) /\ hub # "off" /\ worker.at = "idle"
      /\ \A k \in Jobs : Held(k) => k = j
      /\ v \in {"done", "rolled-back", "error", "recovery-required"}
      /\ v = "done" => flash = NewFlash(j)
      /\ v \in {"rolled-back", "error"} => flash = base[j]
      /\ flash # base[j] => backup[j] = base[j]
  BY SavingIs DEF Save
<1>2. /\ status' = [status EXCEPT ![j] = v] /\ volatile' = NoResult /\ task' = NoTask
      /\ maintenance' = "open" /\ active' = NoJob
      /\ unresolved' = IF v = "recovery-required" THEN unresolved \cup {j} ELSE unresolved \ {j}
      /\ UNCHANGED <<installVars, hub, received, scanned, link, base>>
  BY DEF Save, SavedAs, TaskOver, Remembered
<1> HIDE DEF j, v
<1>3. status \in [Jobs -> Phases]
  BY DEF IInv, Typed
<1>4. \A k \in Jobs : Held(k)' <=> k = j /\ v = "recovery-required"
  BY <1>1, <1>2, <1>3, ServiceAssumption DEF Held, Unended, AtWork, NoResult
<1>5. Typed'
  <2>1. status' \in [Jobs -> Phases] /\ unresolved' \subseteq Jobs
    BY <1>1, <1>2, <1>3 DEF Phases, Terminal, IInv, Typed
  <2> QED BY <1>2, <2>1 DEF IInv, Typed, InstallTypeOK, installVars
<1>6. OneHeld'
  BY <1>4 DEF OneHeld
<1>7. TaskInv' /\ EarlyInv' /\ VerdictInv'
  BY <1>2 DEF TaskInv, EarlyInv, VerdictInv, NoTask
<1>8. WorkerInv'
  BY <1>1, <1>2 DEF WorkerInv, installVars
<1>9. MemoryInv'
  BY <1>2, ServiceAssumption DEF MemoryInv, NoResult
<1>10. PingInv'
  BY <1>1, <1>2, <1>4 DEF PingInv
<1>11. ImagesInv'
  BY <1>1, <1>2, <1>3 DEF IInv, ImagesInv, installVars, Unstarted
<1>12. FlashInv'
  <2>1. base[j].cfg = "kept"
    BY <1>1 DEF IInv, ImagesInv
  <2>2. v # "recovery-required" => flash.cfg = "kept"
    BY <1>1, <2>1 DEF NewFlash
  <2> QED BY <1>1, <1>2, <1>3, <1>4, <2>2 DEF FlashInv, installVars
<1> QED BY <1>5, <1>6, <1>7, <1>8, <1>9, <1>10, <1>11, <1>12 DEF IInv

LEMMA SaveFailsKept ==
  ASSUME IInv, SaveFails
  PROVE  IInv'
<1> DEFINE j == task.job
           v == task.verdict
<1>1. /\ j \in Jobs /\ Held(j) /\ hub # "off" /\ worker.at = "idle" /\ status[j] \in AtWork
      /\ \A k \in Jobs : Held(k) => k = j
      /\ v \in {"done", "rolled-back", "error", "recovery-required"}
      /\ v = "done" => flash = NewFlash(j)
      /\ v \in {"rolled-back", "error"} => flash = base[j]
      /\ flash # base[j] => backup[j] = base[j]
  BY SavingIs DEF SaveFails
<1>2. /\ status' \in {status, [status EXCEPT ![j] = v]} /\ task' = NoTask
      /\ volatile' = [job |-> j, phase |-> "recovery-required"]
      /\ maintenance' = "open" /\ active' = NoJob
      /\ unresolved' = unresolved \cup {j}
      /\ UNCHANGED <<installVars, hub, received, scanned, link, base>>
  BY DEF SaveFails, SaveRaises, SavedAs, TaskOver
<1> HIDE DEF j, v
<1>3. status \in [Jobs -> Phases]
  BY DEF IInv, Typed
<1>4. \A k \in Jobs : Held(k)' <=> k = j
  BY <1>1, <1>2, <1>3 DEF Held
<1>5. Typed'
  <2>1. status' \in [Jobs -> Phases] /\ unresolved' \subseteq Jobs
    BY <1>1, <1>2, <1>3 DEF Phases, Terminal, IInv, Typed
  <2> QED BY <1>1, <1>2, <2>1 DEF IInv, Typed, InstallTypeOK, installVars
<1>6. OneHeld'
  BY <1>4 DEF OneHeld
<1>7. TaskInv' /\ EarlyInv' /\ VerdictInv'
  BY <1>2 DEF TaskInv, EarlyInv, VerdictInv, NoTask
<1>8. WorkerInv'
  BY <1>1, <1>2 DEF WorkerInv, installVars
<1>9. MemoryInv'
  BY <1>1, <1>2, <1>3, ServiceAssumption DEF MemoryInv, Unstarted, AtWork
<1>10. PingInv'
  BY <1>1, <1>2, <1>4 DEF PingInv
<1>11. ImagesInv'
  BY <1>1, <1>2, <1>3 DEF IInv, ImagesInv, installVars, Unstarted
<1>12. FlashInv'
  BY <1>1, <1>2, <1>3, <1>4 DEF FlashInv, installVars, AtWork
<1> QED BY <1>5, <1>6, <1>7, <1>8, <1>9, <1>10, <1>11, <1>12 DEF IInv

(***************************************************************************)
(* The process and the link.                                               *)
(***************************************************************************)
LEMMA SurroundingsKept ==
  ASSUME IInv, Stop \/ Starts \/ LinkMoves \/ (Replug /\ UNCHANGED serviceVars)
  PROVE  IInv'
<1>1. /\ UNCHANGED <<worker, journal, before, backup, flash, status, received, active, task, maintenance,
                      volatile, unresolved, scanned, base>>
      /\ hub' \in {"up", "stopping", "off"} /\ mode' \in {"running", "bootsel"}
      /\ link' \in {"up", "down", "stopped", "stuck", "dead"}
      /\ hub' = "off" <=> hub = "off" /\ hub' = "off"
      /\ hub = "off" => scanned = "no" /\ task = NoTask
  BY DEF Stop, Starts, LinkMoves, Replug, installVars, serviceVars, IInv, Typed, InstallTypeOK, PingInv, TaskInv
<1>2. \A j \in Jobs : Held(j)' <=> Held(j)
  BY <1>1 DEF Held
<1>3. Typed'
  BY <1>1 DEF IInv, Typed, InstallTypeOK
<1>4. OneHeld' /\ PingInv'
  BY <1>1, <1>2 DEF IInv, OneHeld, PingInv
<1>5. TaskInv' /\ EarlyInv' /\ VerdictInv' /\ MemoryInv'
  BY <1>1 DEF IInv, TaskInv, EarlyInv, VerdictInv, MemoryInv
<1>6. ImagesInv' /\ WorkerInv'
  BY <1>1 DEF IInv, ImagesInv, WorkerInv, job
<1>7. FlashInv'
  BY <1>1, <1>2 DEF IInv, FlashInv
<1> QED BY <1>3, <1>4, <1>5, <1>6, <1>7 DEF IInv

LEMMA DiesKept ==
  ASSUME IInv, Dies
  PROVE  IInv'
<1>1. /\ hub' = "off" /\ worker' = [worker EXCEPT !.at = "idle"] /\ active' = NoJob /\ task' = NoTask
      /\ maintenance' = "open" /\ volatile' = NoResult /\ unresolved' = {} /\ scanned' = "no"
      /\ link' = "down" /\ UNCHANGED <<journal, before, backup, flash, mode, status, received, base>>
  BY DEF Dies, GoTo
<1>2. \A j \in Jobs : Held(j)' <=> status[j] \in Unended
  BY <1>1, ServiceAssumption DEF Held, NoResult
<1>3. Typed'
  <2>1. worker' \in [job : Jobs, at : Steps]
    BY <1>1 DEF IInv, Typed, InstallTypeOK, Steps
  <2> QED BY <1>1, <2>1 DEF IInv, Typed, InstallTypeOK
<1>4. OneHeld'
  BY <1>2 DEF IInv, OneHeld, Held
<1>5. TaskInv' /\ EarlyInv' /\ VerdictInv'
  BY <1>1 DEF TaskInv, EarlyInv, VerdictInv, NoTask
<1>6. MemoryInv' /\ PingInv'
  BY <1>1, ServiceAssumption DEF MemoryInv, PingInv, NoResult
<1>7. ImagesInv'
  BY <1>1 DEF IInv, ImagesInv
<1>8. WorkerInv'
  <2>1. worker'.at = "idle"
    BY <1>1 DEF IInv, Typed, InstallTypeOK
  <2> QED BY <2>1 DEF WorkerInv
<1>9. FlashInv'
  <2>1. ASSUME \A j \in Jobs : status[j] \notin Unended
        PROVE  flash.cfg = "kept"
    <3>1. CASE \A j \in Jobs : ~Held(j)
      BY <3>1 DEF IInv, FlashInv
    <3>2. CASE \E j \in Jobs : Held(j)
      <4>1. PICK j \in Jobs : Held(j)
        BY <3>2
      <4>2. volatile.job = j
        BY <2>1, <4>1 DEF Held
      <4>3. status[j] \in {"done", "rolled-back", "error"}
        BY <2>1, <4>2 DEF IInv, Typed, MemoryInv, Phases, AtWork, Terminal, Unended, Unstarted
      <4> QED BY <4>1, <4>3 DEF IInv, FlashInv, ImagesInv, NewFlash
    <3> QED BY <3>1, <3>2
  <2> QED BY <1>1, <1>2, <2>1 DEF IInv, FlashInv, Held
<1> QED BY <1>3, <1>4, <1>5, <1>6, <1>7, <1>8, <1>9 DEF IInv

(***************************************************************************)
(* The worker.                                                             *)
(***************************************************************************)
LEMMA WorkerIs ==
  ASSUME IInv, worker.at # "idle"
  PROVE  /\ job \in Jobs /\ job = task.job /\ task.kind = "update" /\ task.at = "at work"
         /\ task # NoTask /\ status[job] = "working" /\ Held(job) /\ active = job
         /\ \A k \in Jobs : Held(k) => k = job
         /\ worker \in [job : Jobs, at : Steps] /\ journal \in [Jobs -> Journals]
         /\ base \in [Jobs -> Images] /\ base[job].cfg = "kept"
<1>1. /\ job \in Jobs /\ job = task.job /\ task.kind = "update" /\ task.at = "at work" /\ task # NoTask
      /\ worker \in [job : Jobs, at : Steps] /\ journal \in [Jobs -> Journals]
      /\ base \in [Jobs -> Images]
  <2>1. /\ worker \in [job : Jobs, at : Steps] /\ journal \in [Jobs -> Journals]
        /\ base \in [Jobs -> Images]
    BY DEF IInv, Typed, InstallTypeOK
  <2>2. worker.job = task.job /\ task.kind = "update" /\ task.at = "at work"
    BY DEF IInv, WorkerInv
  <2>3. NoTask.kind = "none"
    BY DEF NoTask
  <2> QED BY <2>1, <2>2, <2>3 DEF job
<1>2. status[job] = "working" /\ active = job
  BY <1>1 DEF IInv, TaskInv
<1> QED BY <1>1, <1>2 DEF IInv, OneHeld, ImagesInv, Held, Unended, AtWork

\* A step of the worker concerns the files of its own job, and the flash.
LEMMA WorkerMoves ==
  ASSUME IInv, worker.at # "idle", UNCHANGED serviceVars, InstallTypeOK',
         \A k \in Jobs \ {job} : /\ journal'[k] = journal[k] /\ before'[k] = before[k]
                                  /\ backup'[k] = backup[k],
         before'[job] \in {NoImage, base[job]}, backup'[job] \in {NoImage, base[job]},
         journal'[job] \in {"identified", "armed"} => before'[job] = base[job],
         journal'[job] = "none" => before'[job] = NoImage /\ backup'[job] = NoImage,
         flash' # base[job] => backup'[job] = base[job],
         WorkerInv'
  PROVE  IInv'
<1>1. /\ job \in Jobs /\ job = task.job /\ task.kind = "update" /\ task.at = "at work"
      /\ status[job] = "working" /\ Held(job) /\ active = job /\ \A k \in Jobs : Held(k) => k = job
  BY WorkerIs
<1>2. UNCHANGED <<hub, status, received, active, task, maintenance, volatile, unresolved, scanned, link, base>>
  BY DEF serviceVars
<1>3. \A j \in Jobs : Held(j)' <=> Held(j)
  BY <1>2 DEF Held
<1>4. Typed'
  BY <1>2 DEF IInv, Typed
<1>5. OneHeld'
  BY <1>3 DEF IInv, OneHeld
<1>6. TaskInv' /\ EarlyInv' /\ VerdictInv'
  BY <1>1, <1>2 DEF IInv, TaskInv, EarlyInv, VerdictInv
<1>7. MemoryInv' /\ PingInv'
  BY <1>1, <1>2, <1>3 DEF IInv, MemoryInv, PingInv
<1>8. ImagesInv'
  <2> SUFFICES ASSUME NEW j \in Jobs
               PROVE  /\ before'[j] \in {NoImage, base[j]}
                      /\ backup'[j] \in {NoImage, base[j]}
                      /\ journal'[j] \in {"identified", "armed"} => before'[j] = base[j]
                      /\ journal'[j] = "none" => before'[j] = NoImage /\ backup'[j] = NoImage
                      /\ status[j] \in Unstarted => journal'[j] = "none"
                      /\ base[j].cfg = "kept"
    BY <1>2 DEF ImagesInv
  <2>1. CASE j = job
    BY <1>1, <2>1 DEF IInv, ImagesInv, Unstarted
  <2>2. CASE j # job
    BY <2>2 DEF IInv, ImagesInv
  <2> QED BY <2>1, <2>2
<1>9. FlashInv'
  BY <1>1, <1>2, <1>3 DEF FlashInv
<1> QED BY <1>4, <1>5, <1>6, <1>7, <1>8, <1>9 DEF IInv

\* What the journal says after a report that may have failed.
LEMMA ReportIs ==
  ASSUME IInv, worker.at # "idle", NEW level \in Journals,
         Reported(level) \/ ReportRaised(level) \/ ReportedIfPossible(level)
  PROVE  /\ journal' \in [Jobs -> Journals]
         /\ journal'[job] \in {journal[job], level}
         /\ \A k \in Jobs \ {job} : journal'[k] = journal[k]
<1>1. job \in Jobs /\ journal \in [Jobs -> Journals]
  BY WorkerIs
<1>2. journal' = journal \/ journal' = [journal EXCEPT ![job] = level]
  BY DEF Reported, ReportRaised, ReportedIfPossible
<1> QED BY <1>1, <1>2

\* Where a step that moves on, or fails, takes the worker.
LEMMA GoesTo ==
  ASSUME IInv, worker.at # "idle", NEW s \in Steps, GoTo(s)
  PROVE  /\ worker' \in [job : Jobs, at : Steps] /\ worker'.job = task.job /\ worker'.at = s
         /\ job' = job
BY WorkerIs DEF GoTo, job

LEMMA FailsTo ==
  ASSUME IInv, worker.at # "idle", Fail
  PROVE  /\ worker' \in [job : Jobs, at : Steps] /\ worker'.job = task.job /\ job' = job
         /\ worker.at \in BeforeBoot => worker'.at = "giving up"
         /\ worker.at \in BeforeWrite => worker'.at = "resuming"
         /\ worker.at \notin BeforeBoot \cup BeforeWrite => worker'.at = "rolling back"
<1> DEFINE s == CASE worker.at \in BeforeBoot  -> "giving up"
                 [] worker.at \in BeforeWrite -> "resuming"
                 [] OTHER                     -> "rolling back"
<1>1. GoTo(s)
  BY DEF Fail
<1>2. /\ worker.at \in BeforeBoot => s = "giving up"
      /\ worker.at \in BeforeWrite => s = "resuming"
      /\ worker.at \notin BeforeBoot \cup BeforeWrite => s = "rolling back"
  BY DEF BeforeBoot, BeforeWrite
<1>3. s \in Steps
  BY <1>2 DEF Steps, Restoring
<1> HIDE DEF s
<1> QED BY <1>1, <1>2, <1>3, GoesTo

\* Before anything was written.

LEMMA WorkerFiles ==
  ASSUME IInv, worker.at # "idle"
  PROVE  /\ before \in [Jobs -> Images \cup {NoImage}] /\ backup \in [Jobs -> Images \cup {NoImage}]
         /\ flash \in Images /\ mode \in {"running", "bootsel"}
         /\ before[job] \in {NoImage, base[job]} /\ backup[job] \in {NoImage, base[job]}
         /\ journal[job] \in {"identified", "armed"} => before[job] = base[job]
         /\ journal[job] = "none" => before[job] = NoImage /\ backup[job] = NoImage
         /\ flash # base[job] => backup[job] = base[job]
         /\ base[job] # NoImage
<1>1. job \in Jobs /\ Held(job) /\ base \in [Jobs -> Images]
  BY WorkerIs
<1>2. NoImage \notin Images
  BY DEF NoImage, Images
<1> QED BY <1>1, <1>2 DEF IInv, Typed, InstallTypeOK, ImagesInv, FlashInv

LEMMA PreflightKept ==
  ASSUME IInv, Preflight, UNCHANGED serviceVars
  PROVE  IInv'
<1>1. worker.at = "preflight" /\ worker.at # "idle" /\ UNCHANGED <<before, backup, flash, mode>>
  BY DEF Preflight
<1>2. flash = base[job] /\ journal[job] = "empty" /\ UNCHANGED base
  BY <1>1 DEF IInv, WorkerInv, Untouched, serviceVars
<1>3. /\ journal' \in [Jobs -> Journals] /\ journal'[job] \in {"empty", "clean"}
      /\ \A k \in Jobs \ {job} : journal'[k] = journal[k]
  BY <1>1, <1>2, ReportIs DEF Preflight, Journals
<1>4. /\ worker' \in [job : Jobs, at : Steps] /\ worker'.job = task.job /\ job' = job
      /\ worker'.at = "raised" \/ (worker'.at = "reading" /\ journal'[job] = "clean")
  <2>1. CASE Reported("clean") /\ GoTo("reading")
    <3>1. journal'[job] = "clean"
      BY <1>1, <2>1, WorkerIs DEF Reported
    <3> QED BY <1>1, <2>1, <3>1, GoesTo DEF Steps, BeforeBoot
  <2>2. CASE ReportRaised("clean") /\ GoTo("raised")
    BY <1>1, <2>2, GoesTo DEF Steps, Results
  <2> QED BY <2>1, <2>2 DEF Preflight
<1>5. InstallTypeOK'
  BY <1>1, <1>3, <1>4 DEF IInv, Typed, InstallTypeOK
<1>6. WorkerInv'
  <2>1. task.kind = "update" /\ task.at = "at work" /\ UNCHANGED task
    BY <1>1, WorkerIs DEF serviceVars
  <2> QED BY <1>1, <1>2, <1>3, <1>4, <2>1 DEF WorkerInv, Untouched, Read1, BackedUp, Writing, Restoring
<1> QED BY <1>1, <1>2, <1>3, <1>4, <1>5, <1>6, WorkerFiles, WorkerMoves

LEMMA ReadKept ==
  ASSUME IInv, Read, UNCHANGED serviceVars
  PROVE  IInv'
<1>1. /\ worker.at = "reading" /\ worker.at # "idle" /\ UNCHANGED <<backup, flash, mode>>
      /\ before' = [before EXCEPT ![job] = flash]
  BY DEF Read
<1>2. flash = base[job] /\ journal[job] = "clean" /\ UNCHANGED base
  BY <1>1 DEF IInv, WorkerInv, Untouched, serviceVars
<1>3. /\ journal' \in [Jobs -> Journals] /\ journal'[job] \in {"clean", "identified"}
      /\ \A k \in Jobs \ {job} : journal'[k] = journal[k]
  <2>1. CASE Reported("identified") \/ ReportRaised("identified")
    BY <1>1, <1>2, <2>1, ReportIs DEF Journals
  <2>2. CASE UNCHANGED journal
    BY <1>1, <1>2, <2>2, WorkerIs
  <2> QED BY <2>1, <2>2 DEF Read
<1>4. /\ worker' \in [job : Jobs, at : Steps] /\ worker'.job = task.job /\ job' = job
      /\ worker'.at \in {"entering", "giving up"}
  <2>1. CASE GoTo("entering")
    BY <1>1, <2>1, GoesTo DEF Steps, BeforeWrite
  <2>2. CASE Fail
    BY <1>1, <2>2, FailsTo DEF BeforeBoot
  <2> QED BY <2>1, <2>2 DEF Read
<1>5. /\ before' \in [Jobs -> Images \cup {NoImage}] /\ before'[job] = base[job]
      /\ \A k \in Jobs \ {job} : before'[k] = before[k]
  BY <1>1, <1>2, WorkerIs, WorkerFiles
<1>6. InstallTypeOK'
  BY <1>1, <1>3, <1>4, <1>5 DEF IInv, Typed, InstallTypeOK
<1>7. WorkerInv'
  <2>1. task.kind = "update" /\ task.at = "at work" /\ UNCHANGED task
    BY <1>1, WorkerIs DEF serviceVars
  <2> QED BY <1>1, <1>2, <1>3, <1>4, <1>5, <2>1
      DEF WorkerInv, Untouched, Read1, BackedUp, Writing, Restoring
<1> QED BY <1>1, <1>2, <1>3, <1>4, <1>5, <1>6, <1>7, WorkerFiles, WorkerMoves

LEMMA BeforeWriteKept ==
  ASSUME IInv, worker.at \in BeforeWrite, UNCHANGED serviceVars,
         UNCHANGED <<journal, before, flash>>, mode' \in {"running", "bootsel"},
         backup' \in {backup, [backup EXCEPT ![job] = flash]},
         \/ Fail
         \/ worker.at = "entering" /\ GoTo("backing up")
         \/ backup' = [backup EXCEPT ![job] = flash] /\ GoTo("arming")
  PROVE  IInv'
<1>1. worker.at # "idle"
  BY DEF BeforeWrite
<1>2. flash = base[job] /\ before[job] = base[job] /\ UNCHANGED base
  BY <1>1 DEF IInv, WorkerInv, Untouched, Read1, BeforeWrite, serviceVars
<1>3. /\ worker' \in [job : Jobs, at : Steps] /\ worker'.job = task.job /\ job' = job
      /\ \/ worker'.at \in {"backing up", "resuming"}
         \/ worker'.at = "arming" /\ backup' = [backup EXCEPT ![job] = flash]
  <2>1. CASE Fail
    BY <1>1, <2>1, FailsTo
  <2>2. CASE GoTo("backing up")
    BY <1>1, <2>2, GoesTo DEF Steps, BeforeWrite
  <2>3. CASE backup' = [backup EXCEPT ![job] = flash] /\ GoTo("arming")
    BY <1>1, <2>3, GoesTo DEF Steps, Writing
  <2> QED BY <2>1, <2>2, <2>3
<1>4. /\ backup' \in [Jobs -> Images \cup {NoImage}] /\ backup'[job] \in {NoImage, base[job]}
      /\ backup' = [backup EXCEPT ![job] = flash] => backup'[job] = base[job]
      /\ \A k \in Jobs \ {job} : backup'[k] = backup[k]
  BY <1>1, <1>2, WorkerIs, WorkerFiles
<1>5. InstallTypeOK'
  BY <1>3, <1>4 DEF IInv, Typed, InstallTypeOK
<1>6. WorkerInv'
  <2>1. task.kind = "update" /\ task.at = "at work" /\ UNCHANGED task
    BY <1>1, WorkerIs DEF serviceVars
  <2> QED BY <1>1, <1>2, <1>3, <1>4, <2>1 DEF WorkerInv, Untouched, Read1, BackedUp, Writing, Restoring
<1>7. journal[job] # "none"
  BY <1>1, <1>2, WorkerFiles
<1> QED BY <1>1, <1>2, <1>3, <1>4, <1>5, <1>6, <1>7, WorkerFiles, WorkerMoves

\* Nothing was written: only the journal of the job may still change.
LEMMA NothingWrittenKept ==
  ASSUME IInv, worker.at \in {"reading", "giving up", "resuming"}, UNCHANGED serviceVars,
         UNCHANGED <<before, backup, flash>>, mode' \in {"running", "bootsel"},
         journal' \in [Jobs -> Journals],
         \A k \in Jobs \ {job} : journal'[k] = journal[k],
         journal'[job] \in {"identified", journal[job]},
         journal'[job] = "identified" => before[job] = base[job],
         worker' \in [job : Jobs, at : Steps], worker'.job = task.job, job' = job,
         worker'.at \in {"giving up", "failed", "manual_recovery"}
  PROVE  IInv'
<1>1. worker.at # "idle"
  OBVIOUS
<1>2. flash = base[job] /\ UNCHANGED base
  BY DEF IInv, WorkerInv, Untouched, serviceVars
<1>3. InstallTypeOK'
  BY DEF IInv, Typed, InstallTypeOK
<1>4. WorkerInv'
  <2>1. task.kind = "update" /\ task.at = "at work" /\ UNCHANGED task
    BY <1>1, WorkerIs DEF serviceVars
  <2> QED BY <1>2, <2>1 DEF WorkerInv, Untouched, Read1, BackedUp, Writing, Restoring
<1> QED BY <1>1, <1>2, <1>3, <1>4, WorkerFiles, WorkerMoves

LEMMA ResumeKept ==
  ASSUME IInv, Resume, UNCHANGED serviceVars
  PROVE  IInv'
<1>1. /\ worker.at = "resuming" /\ worker.at # "idle" /\ UNCHANGED <<journal, before, backup, flash>>
      /\ mode' \in {"running", "bootsel"}
  BY DEF Resume, IInv, Typed, InstallTypeOK
<1>2. /\ worker' \in [job : Jobs, at : Steps] /\ worker'.job = task.job /\ job' = job
      /\ worker'.at \in {"failed", "manual_recovery"}
  BY <1>1, GoesTo DEF Resume, Steps, Results
<1> QED BY <1>1, <1>2, WorkerIs, WorkerFiles, NothingWrittenKept

LEMMA GiveUpKept ==
  ASSUME IInv, GiveUp, UNCHANGED serviceVars
  PROVE  IInv'
<1>1. /\ worker.at = "giving up" /\ worker.at # "idle" /\ UNCHANGED <<before, backup, flash, mode>>
      /\ GoTo("failed")
  BY DEF GiveUp
<1>2. /\ worker' \in [job : Jobs, at : Steps] /\ worker'.job = task.job /\ job' = job
      /\ worker'.at = "failed"
  BY <1>1, GoesTo DEF Steps, Results
<1>3. PICK level \in {journal[job]} \cup {l \in {"identified"} : before[job] # NoImage} :
        ReportedIfPossible(level)
  BY DEF GiveUp
<1>4. level \in Journals
  BY <1>1, <1>3, WorkerIs DEF Journals
<1>5. /\ journal' \in [Jobs -> Journals] /\ \A k \in Jobs \ {job} : journal'[k] = journal[k]
      /\ journal'[job] \in {journal[job], level}
  BY <1>1, <1>3, <1>4, ReportIs
<1>6. mode' \in {"running", "bootsel"}
  BY <1>1, WorkerFiles
<1> QED BY <1>1, <1>2, <1>3, <1>5, <1>6, WorkerFiles, NothingWrittenKept

\* Once the backup is there.
LEMMA BackedUpKept ==
  ASSUME IInv, worker.at \in BackedUp, UNCHANGED serviceVars, UNCHANGED <<before, backup>>,
         \/ UNCHANGED journal
         \/ Reported("armed") \/ ReportRaised("armed") \/ ReportedIfPossible("armed"),
         flash' \in Images, mode' \in {"running", "bootsel"},
         worker' \in [job : Jobs, at : Steps], worker'.job = task.job, job' = job,
         worker'.at \in BackedUp \cup {"manual_recovery"},
         worker'.at \in {"arming", "loading", "rolled_back"} => flash' = base[job],
         worker'.at = "complete" => flash' = NewFlash(job)
  PROVE  IInv'
<1>1. worker.at # "idle"
  BY DEF BackedUp, Writing, Restoring
<1>2. before[job] = base[job] /\ backup[job] = base[job] /\ UNCHANGED base
  BY <1>1 DEF IInv, WorkerInv, Read1, serviceVars
<1>3. /\ journal' \in [Jobs -> Journals] /\ \A k \in Jobs \ {job} : journal'[k] = journal[k]
      /\ journal'[job] \in {journal[job], "armed"}
  <2>1. CASE UNCHANGED journal
    BY <1>1, <2>1, WorkerIs
  <2>2. CASE Reported("armed") \/ ReportRaised("armed") \/ ReportedIfPossible("armed")
    BY <1>1, <2>2, ReportIs DEF Journals
  <2> QED BY <2>1, <2>2
<1>4. InstallTypeOK'
  BY <1>3 DEF IInv, Typed, InstallTypeOK
<1>5. WorkerInv'
  <2>1. task.kind = "update" /\ task.at = "at work" /\ UNCHANGED task
    BY <1>1, WorkerIs DEF serviceVars
  <2> QED BY <1>2, <2>1 DEF WorkerInv, Untouched, Read1, BackedUp, Writing, Restoring, NewFlash
<1>6. journal[job] # "none"
  BY <1>1, <1>2, WorkerFiles
<1> QED BY <1>1, <1>2, <1>3, <1>4, <1>5, <1>6, WorkerFiles, WorkerMoves

LEMMA InstallKept ==
  ASSUME IInv, Install
  PROVE  IInv'
<1>0. UNCHANGED serviceVars /\ WorkerStep
  BY DEF Install
<1>1. CASE Preflight
  BY <1>0, <1>1, PreflightKept
<1>2. CASE Read
  BY <1>0, <1>2, ReadKept
<1>3. CASE Enter
  BY <1>0, <1>3, BeforeWriteKept DEF Enter, BeforeWrite
<1>4. CASE BackUp
  <2>1. mode \in {"running", "bootsel"} /\ worker.at \in BeforeWrite
    BY <1>4, WorkerFiles DEF BackUp, BeforeWrite
  <2> QED BY <1>0, <1>4, <2>1, BeforeWriteKept DEF BackUp
<1>5. CASE StepFails
  <2>1. worker.at # "idle" /\ Fail /\ UNCHANGED <<journal, before, backup, flash, mode>>
    BY <1>5 DEF StepFails, BeforeBoot, BeforeWrite, Writing
  <2>2. mode' \in {"running", "bootsel"} /\ flash' \in Images /\ journal' \in [Jobs -> Journals]
    BY <2>1, WorkerFiles, WorkerIs
  <2>3. CASE worker.at \in BeforeBoot \ {"preflight"}
    BY <1>0, <2>1, <2>2, <2>3, FailsTo, WorkerFiles, NothingWrittenKept DEF BeforeBoot
  <2>4. CASE worker.at \in BeforeWrite
    BY <1>0, <2>1, <2>2, <2>4, BeforeWriteKept
  <2>5. CASE worker.at \in Writing \ {"arming"}
    BY <1>0, <2>1, <2>2, <2>5, FailsTo, BackedUpKept
    DEF BeforeBoot, BeforeWrite, Writing, BackedUp, Restoring
  <2> QED BY <1>5, <2>3, <2>4, <2>5 DEF StepFails
<1>6. CASE Resume
  BY <1>0, <1>6, ResumeKept
<1>7. CASE GiveUp
  BY <1>0, <1>7, GiveUpKept
<1>8. CASE Arm
  <2>1. /\ worker.at = "arming" /\ worker.at # "idle" /\ UNCHANGED <<before, backup, flash, mode>>
        /\ Reported("armed") \/ ReportRaised("armed")
    BY <1>8 DEF Arm
  <2>2. /\ worker' \in [job : Jobs, at : Steps] /\ worker'.job = task.job /\ job' = job
        /\ worker'.at \in {"loading", "rolling back"}
    BY <1>8, <2>1, GoesTo, FailsTo DEF Arm, Steps, Writing, BeforeBoot, BeforeWrite
  <2>3. flash = base[job] /\ flash \in Images /\ mode \in {"running", "bootsel"}
    BY <2>1, WorkerFiles DEF IInv, WorkerInv, Untouched
  <2> QED BY <1>0, <2>1, <2>2, <2>3, BackedUpKept DEF BackedUp, Writing, Restoring
<1>9. CASE StartLoad
  <2>1. /\ worker.at = "loading" /\ worker.at # "idle" /\ UNCHANGED <<journal, before, backup, mode>>
        /\ GoTo("writing") /\ flash' = [flash EXCEPT !.fw = "mixed"]
    BY <1>9 DEF StartLoad
  <2>2. /\ worker' \in [job : Jobs, at : Steps] /\ worker'.job = task.job /\ job' = job
        /\ worker'.at = "writing"
    BY <2>1, GoesTo DEF Steps, Writing
  <2>3. flash' \in Images /\ mode \in {"running", "bootsel"}
    BY <2>1, WorkerFiles DEF Images
  <2> QED BY <1>0, <2>1, <2>2, <2>3, BackedUpKept DEF BackedUp, Writing, Restoring
<1>10. CASE EndLoad
  <2>1. /\ worker.at = "writing" /\ worker.at # "idle" /\ UNCHANGED <<journal, before, backup, mode>>
        /\ GoTo("checking") /\ \E c \in {flash.cfg, "altered"} : flash' = [fw |-> job, cfg |-> c]
    BY <1>10 DEF EndLoad
  <2>2. /\ worker' \in [job : Jobs, at : Steps] /\ worker'.job = task.job /\ job' = job
        /\ worker'.at = "checking"
    BY <2>1, GoesTo DEF Steps, Writing
  <2>3. flash' \in Images /\ mode \in {"running", "bootsel"}
    <3>1. PICK c \in {flash.cfg, "altered"} : flash' = [fw |-> job, cfg |-> c]
      BY <2>1
    <3>2. job \in Jobs /\ flash \in Images /\ mode \in {"running", "bootsel"}
      BY <2>1, WorkerFiles, WorkerIs
    <3> QED BY <3>1, <3>2 DEF Images
  <2> QED BY <1>0, <2>1, <2>2, <2>3, BackedUpKept DEF BackedUp, Writing, Restoring
<1>11. CASE CheckFlash
  <2>1. /\ worker.at = "checking" /\ worker.at # "idle" /\ UNCHANGED <<journal, before, backup, flash, mode>>
        /\ GoTo("rebooting")
    BY <1>11 DEF CheckFlash
  <2>2. /\ worker' \in [job : Jobs, at : Steps] /\ worker'.job = task.job /\ job' = job
        /\ worker'.at = "rebooting"
    BY <2>1, GoesTo DEF Steps, Writing
  <2> QED BY <1>0, <2>1, <2>2, WorkerFiles, BackedUpKept DEF BackedUp, Writing, Restoring
<1>12. CASE Reboot
  <2>1. /\ worker.at = "rebooting" /\ worker.at # "idle" /\ UNCHANGED <<journal, before, backup>>
        /\ mode' = "running" /\ \E c \in {flash.cfg, "altered"} : flash' = [flash EXCEPT !.cfg = c]
        /\ GoTo("comparing") \/ Fail
    BY <1>12 DEF Reboot
  <2>2. /\ worker' \in [job : Jobs, at : Steps] /\ worker'.job = task.job /\ job' = job
        /\ worker'.at \in {"comparing", "rolling back"}
    BY <2>1, GoesTo, FailsTo DEF Steps, Writing, BeforeBoot, BeforeWrite
  <2>3. flash' \in Images
    BY <2>1, WorkerFiles DEF Images
  <2> QED BY <1>0, <2>1, <2>2, <2>3, BackedUpKept DEF BackedUp, Writing, Restoring
<1>13. CASE Compare
  <2>1. /\ worker.at = "comparing" /\ worker.at # "idle" /\ UNCHANGED <<before, backup, flash, mode>>
        /\ flash = [fw |-> job, cfg |-> before[job].cfg]
        /\ Reported("armed") \/ ReportRaised("armed")
    BY <1>13 DEF Compare
  <2>2. /\ worker' \in [job : Jobs, at : Steps] /\ worker'.job = task.job /\ job' = job
        /\ worker'.at \in {"complete", "rolling back"}
    BY <1>13, <2>1, GoesTo, FailsTo DEF Compare, Steps, Results, BeforeBoot, BeforeWrite
  <2>3. flash = NewFlash(job)
    <3>1. before[job] = base[job]
      BY <2>1 DEF IInv, WorkerInv, Read1, BackedUp, Writing
    <3> QED BY <2>1, <3>1, WorkerIs DEF NewFlash
  <2> QED BY <1>0, <2>1, <2>2, <2>3, WorkerFiles, BackedUpKept DEF BackedUp, Writing, Restoring
<1>14. CASE RollBack
  <2>1. /\ worker.at = "rolling back" /\ worker.at # "idle" /\ UNCHANGED <<before, backup, flash>>
        /\ mode' = "bootsel" /\ ReportedIfPossible("armed") /\ GoTo("restoring")
    BY <1>14 DEF RollBack
  <2>2. /\ worker' \in [job : Jobs, at : Steps] /\ worker'.job = task.job /\ job' = job
        /\ worker'.at = "restoring"
    BY <2>1, GoesTo DEF Steps, Restoring
  <2> QED BY <1>0, <2>1, <2>2, WorkerFiles, BackedUpKept DEF BackedUp, Writing, Restoring
<1>15. CASE StartRestore
  <2>1. /\ worker.at = "restoring" /\ worker.at # "idle" /\ UNCHANGED <<journal, before, backup, mode>>
        /\ GoTo("rewriting") /\ flash' = [fw |-> "mixed", cfg |-> "altered"]
    BY <1>15 DEF StartRestore
  <2>2. /\ worker' \in [job : Jobs, at : Steps] /\ worker'.job = task.job /\ job' = job
        /\ worker'.at = "rewriting"
    BY <2>1, GoesTo DEF Steps, Restoring
  <2>3. flash' \in Images
    BY <2>1 DEF Images
  <2> QED BY <1>0, <2>1, <2>2, <2>3, WorkerFiles, BackedUpKept DEF BackedUp, Writing, Restoring
<1>16. CASE EndRestore
  <2>1. /\ worker.at = "rewriting" /\ worker.at # "idle" /\ UNCHANGED <<before, backup, mode>>
        /\ GoTo("restarting") /\ flash' = backup[job] /\ ReportedIfPossible("armed")
    BY <1>16 DEF EndRestore
  <2>2. /\ worker' \in [job : Jobs, at : Steps] /\ worker'.job = task.job /\ job' = job
        /\ worker'.at = "restarting"
    BY <2>1, GoesTo DEF Steps, Restoring
  <2>3. flash' \in Images
    <3>1. backup[job] = base[job]
      BY <2>1 DEF IInv, WorkerInv, BackedUp, Restoring
    <3> QED BY <2>1, <3>1, WorkerIs
  <2> QED BY <1>0, <2>1, <2>2, <2>3, WorkerFiles, BackedUpKept DEF BackedUp, Writing, Restoring
<1>17. CASE Restart
  <2>1. /\ worker.at = "restarting" /\ worker.at # "idle" /\ UNCHANGED <<before, backup, flash>>
        /\ mode' = "running" /\ flash = before[job] /\ ReportedIfPossible("armed")
        /\ GoTo("rolled_back") \/ GoTo("manual_recovery")
    BY <1>17 DEF Restart
  <2>2. /\ worker' \in [job : Jobs, at : Steps] /\ worker'.job = task.job /\ job' = job
        /\ worker'.at \in {"rolled_back", "manual_recovery"}
    BY <2>1, GoesTo DEF Steps, Results
  <2>3. flash = base[job]
    BY <2>1 DEF IInv, WorkerInv, Read1, BackedUp, Restoring
  <2> QED BY <1>0, <2>1, <2>2, <2>3, WorkerFiles, BackedUpKept DEF BackedUp, Writing, Restoring
<1>18. CASE RestoreFails
  <2>1. /\ worker.at \in Restoring /\ worker.at # "idle" /\ UNCHANGED <<before, backup, flash, mode>>
        /\ ReportedIfPossible("armed") /\ GoTo("manual_recovery")
    BY <1>18 DEF RestoreFails, Restoring
  <2>2. /\ worker' \in [job : Jobs, at : Steps] /\ worker'.job = task.job /\ job' = job
        /\ worker'.at = "manual_recovery"
    BY <2>1, GoesTo DEF Steps, Results
  <2> QED BY <1>0, <2>1, <2>2, WorkerFiles, BackedUpKept DEF BackedUp
<1> QED BY <1>0, <1>1, <1>2, <1>3, <1>4, <1>5, <1>6, <1>7, <1>8, <1>9, <1>10, <1>11, <1>12, <1>13,
           <1>14, <1>15, <1>16, <1>17, <1>18 DEF WorkerStep

(***************************************************************************)
(* The invariant, and what follows from it.                                *)
(***************************************************************************)
LEMMA InitKept ==
  ASSUME Init
  PROVE  IInv
<1>1. /\ status = [j \in Jobs |-> "none"] /\ active = NoJob /\ task = NoTask /\ volatile = NoResult
      /\ worker.at = "idle" /\ journal = [j \in Jobs |-> "none"] /\ scanned = "no"
      /\ before = [j \in Jobs |-> NoImage] /\ backup = [j \in Jobs |-> NoImage]
      /\ flash = [fw |-> Installed, cfg |-> "kept"] /\ base = [j \in Jobs |-> flash]
  BY DEF Init, InstallInit, Idle
<1>2. \A j \in Jobs : ~Held(j)
  BY <1>1, ServiceAssumption DEF Held, NoResult, Unended, AtWork
<1>3. Typed
  <2>1. InstallTypeOK
    BY DEF Init, InstallInit, Idle, InstallTypeOK, Steps, Journals, Images
  <2>2. received \in [Jobs -> 0 .. Size]
    BY ServiceAssumption DEF Init
  <2>3. status \in [Jobs -> Phases] /\ base \in [Jobs -> Images]
    BY <1>1, <2>1 DEF Phases, InstallTypeOK
  <2> QED BY <1>1, <2>1, <2>2, <2>3 DEF Init, Typed
<1>4. OneHeld
  BY <1>2 DEF OneHeld
<1>5. TaskInv /\ EarlyInv /\ VerdictInv /\ WorkerInv
  BY <1>1 DEF TaskInv, EarlyInv, VerdictInv, WorkerInv, NoTask
<1>6. MemoryInv /\ PingInv
  BY <1>1, ServiceAssumption DEF MemoryInv, PingInv, NoResult
<1>7. ImagesInv
  BY <1>1 DEF ImagesInv, Unstarted
<1>8. FlashInv
  BY <1>1, <1>2 DEF FlashInv
<1> QED BY <1>3, <1>4, <1>5, <1>6, <1>7, <1>8 DEF IInv

LEMMA StutterKept ==
  ASSUME IInv, UNCHANGED vars
  PROVE  IInv'
<1> USE DEF vars, serviceVars, installVars
<1>1. \A j \in Jobs : Held(j)' <=> Held(j)
  BY DEF Held
<1>2. Typed'
  BY DEF IInv, Typed, InstallTypeOK
<1>3. OneHeld' /\ PingInv' /\ FlashInv'
  BY <1>1 DEF IInv, OneHeld, PingInv, FlashInv
<1>4. TaskInv' /\ EarlyInv' /\ VerdictInv'
  BY DEF IInv, TaskInv, EarlyInv, VerdictInv
<1>5. MemoryInv' /\ ImagesInv' /\ WorkerInv'
  BY DEF IInv, MemoryInv, ImagesInv, WorkerInv, job
<1> QED BY <1>2, <1>3, <1>4, <1>5 DEF IInv

LEMMA NextKept ==
  ASSUME IInv, [Next]_vars
  PROVE  IInv'
<1>1. CASE \E S \in SUBSET Existing : Look(S)
  BY <1>1, LookKept
<1>2. ASSUME NEW j \in Jobs,
             \/ LookRaises(j) \/ Begin(j) \/ BeginRaises(j) \/ Chunk(j) \/ ChunkRaises(j)
             \/ Abort(j) \/ Commit(j) \/ CommitRaises(j) \/ Recover(j) \/ RecoverRaises(j)
      PROVE  IInv'
  BY <1>2, LookRaisesKept, BeginKept, ChunkKept, AbortKept, CommitKept, CommitRaisesKept, RecoverKept,
     RecoverRaisesKept
<1>3. CASE Scan \/ ProgressLost \/ Install \/ Dies
  BY <1>3, ScanKept, ProgressLostKept, InstallKept, DiesKept
<1>4. CASE TaskStep
  BY <1>4, ValidateKept, DrainKept, TakePortKept, PortStuckKept, WorkerEndsKept, CheckEndsKept,
     GivePortBackKept, ReconnectedKept, SaveKept, SaveFailsKept DEF TaskStep
<1>5. CASE Stop \/ Starts \/ LinkMoves \/ (Replug /\ UNCHANGED serviceVars)
  BY <1>5, SurroundingsKept
<1>6. CASE UNCHANGED vars
  BY <1>6, StutterKept
<1> QED BY <1>1, <1>2, <1>3, <1>4, <1>5, <1>6 DEF Next

\* The service keeps its inductive invariant: one job at most is held, and what the files,
\* the memory, the task and the worker say of it agrees with the flash.
THEOREM Inductive == Spec => []IInv
<1>1. Init => IInv
  BY InitKept
<1>2. IInv /\ [Next]_vars => IInv'
  BY NextKept
<1> QED BY <1>1, <1>2, PTL DEF Spec

\* The types of the files and of the hub's memory, and that the job that owns the device is
\* the one the task works for, for every number of jobs and chunks.
THEOREM TypeCorrect == Spec => []TypeOK
<1>1. IInv => TypeOK
  BY DEF IInv, TaskInv, TypeOK
<1> QED BY <1>1, Inductive, PTL

\* The image that puts the flash of an unsettled job back is on the disk, whatever step
\* failed, whatever write was lost or kept, and whenever the hub died.
THEOREM BackupAlwaysHeld == Spec => []BackupHeld
<1>1. IInv => BackupHeld
  BY HeldIs DEF IInv, FlashInv, BackupHeld
<1> QED BY <1>1, Inductive, PTL

\* A hub that looked at its jobs acknowledges a PING while one that touched the Captain
\* requires recovery: it is remembered as unresolved whatever requests and failures follow.
THEOREM PingAlwaysKept == Spec => []PingKept
<1>1. IInv => PingKept
  <2> SUFFICES ASSUME IInv, hub = "up", scanned = "yes", NEW j \in Jobs,
                      Loaded(j) = "recovery-required", journal[j] # "none"
               PROVE  unresolved # {}
    BY DEF PingKept
  <2>1. Held(j)
    BY LoadedIs DEF Unended
  <2>2. task.job # j
    <3>1. CASE task = NoTask
      BY <3>1, ServiceAssumption DEF NoTask
    <3>2. CASE task # NoTask /\ task.job = j
      <4>1. active = j /\ status[j] \in AtWork /\ (volatile.job = j => volatile.phase = "working")
        BY <3>2, ServiceAssumption DEF IInv, TaskInv, AtWork, NoResult
      <4> QED BY <4>1 DEF Loaded, Interrupted, AtWork
    <3> QED BY <3>1, <3>2
  <2> QED BY <2>1, <2>2 DEF IInv, PingInv
<1> QED BY <1>1, Inductive, PTL

(***************************************************************************)
(* The refinement of SafeUpdate.                                           *)
(***************************************************************************)
\* What a job reports, by what it is made of.
Told(j) == IF volatile.job = j
           THEN IF volatile.phase = "working" THEN "open" ELSE "unresolved"
           ELSE IF status[j] = "working" /\ active = j THEN "open"
           ELSE IF status[j] \in Unended THEN "unresolved"
           ELSE IF status[j] = "done" THEN "done"
           ELSE IF status[j] = "rolled-back" THEN "restored"
           ELSE IF status[j] = "error" THEN "untouched"
           ELSE "none"

LEMMA ReportTold == IInv => Report = [j \in Jobs |-> Told(j)]
<1> SUFFICES ASSUME IInv, NEW j \in Jobs
             PROVE  Report[j] = Told(j)
  BY DEF Report
<1>1. status[j] \in Phases /\ (volatile.job = j => volatile.phase \in {"working", "recovery-required"})
  BY VolatileType DEF IInv, Typed
<1>2. status[j] = "unsaved" => journal[j] = "none"
  BY DEF IInv, ImagesInv, Unstarted
<1>3. /\ Loaded(j) = "working" => Report[j] = "open"
      /\ Loaded(j) \in {"checking", "recovery-required"} => Report[j] = "unresolved"
      /\ Loaded(j) = "done" => Report[j] = "done"
      /\ Loaded(j) = "rolled-back" => Report[j] = "restored"
      /\ Loaded(j) = "error" => Report[j] = "untouched"
      /\ Loaded(j) \in {"none", "aborted", "uploading"} => Report[j] = "none"
  BY DEF Report
<1>4. CASE volatile.job = j
  <2>1. Loaded(j) = volatile.phase
    BY <1>4 DEF Loaded
  <2> QED BY <1>1, <1>3, <1>4, <2>1 DEF Told
<1>5. CASE volatile.job # j
  <2>1. Loaded(j) = IF status[j] = "unsaved" THEN "aborted"
                    ELSE IF status[j] \in AtWork /\ active # j THEN "recovery-required"
                    ELSE status[j]
    BY <1>2, <1>5 DEF Loaded, Interrupted
  <2> QED BY <1>1, <1>3, <1>5, <2>1 DEF Told, Phases, Unended, AtWork, Terminal
<1> QED BY <1>4, <1>5

LEMMA ReportToldNext == IInv' => Report' = [j \in Jobs |-> Told(j)]'
<1>1. (IInv => Report = [j \in Jobs |-> Told(j)])'
  BY ReportTold, PTL
<1> QED BY <1>1

\* A job is open or unresolved exactly while it is held.
LEMMA PendingIs ==
  ASSUME IInv, NEW j \in Jobs
  PROVE  Held(j) <=> Told(j) \in {"open", "unresolved"}
BY DEF Held, Told, Unended, AtWork

\* What no job reports anew is a step that SafeUpdate does not see.
LEMMA SameReport ==
  ASSUME IInv, IInv', UNCHANGED <<flash, base>>, \A j \in Jobs : Told(j)' = Told(j)
  PROVE  UNCHANGED Promise!promised
<1>1. Report' = Report
  BY ReportTold, ReportToldNext
<1> QED BY <1>1 DEF Promise!promised

LEMMA OneReport ==
  ASSUME IInv, IInv', NEW j \in Jobs, \A k \in Jobs \ {j} : Told(k)' = Told(k)
  PROVE  /\ Report' = [Report EXCEPT ![j] = Told(j)']
         /\ Report[j] = Told(j)
BY ReportTold, ReportToldNext

LEMMA Interrupts ==
  ASSUME IInv, IInv', NEW j \in Jobs, UNCHANGED <<flash, base>>,
         \A k \in Jobs \ {j} : Told(k)' = Told(k), Held(j), Told(j)' = "unresolved"
  PROVE  [Promise!Next]_Promise!promised
<1>1. CASE Told(j) = "open"
  BY <1>1, OneReport DEF Promise!Next, Promise!Interrupt
<1>2. CASE Told(j) = "unresolved"
  <2>1. \A k \in Jobs : Told(k)' = Told(k)
    BY <1>2
  <2> QED BY <2>1, SameReport
<1> QED BY <1>1, <1>2, PendingIs

LEMMA Concludes ==
  ASSUME IInv, IInv', NEW j \in Jobs, UNCHANGED <<flash, base>>,
         \A k \in Jobs \ {j} : Told(k)' = Told(k), Held(j),
         \/ Told(j)' = "done" /\ flash = NewFlash(j)
         \/ Told(j)' \in {"restored", "untouched"} /\ flash = base[j]
  PROVE  Promise!Next
<1>1. Report[j] \in {"open", "unresolved"} /\ Report' = [Report EXCEPT ![j] = Told(j)']
  BY OneReport, PendingIs
<1>2. [k \in Jobs |-> [fw |-> k, cfg |-> "kept"]][j] = NewFlash(j)
  BY DEF NewFlash
<1> QED BY <1>1, <1>2 DEF Promise!Next, Promise!Conclude, Promise!Pending

LEMMA AnsweredReport ==
  ASSUME IInv, IInv', Answered
  PROVE  UNCHANGED Promise!promised
<1>1. \A j \in Jobs : Told(j)' = Told(j)
  <2> SUFFICES ASSUME NEW j \in Jobs PROVE Told(j)' = Told(j)
    OBVIOUS
  <2>1. UNCHANGED volatile /\ Harmless(j)
    BY DEF Answered
  <2>2. status[j] \in AtWork /\ status'[j] = status[j] => (active' = j <=> active = j)
    BY ServiceAssumption DEF Answered, Unstarted, AtWork
  <2> QED BY <2>1, <2>2 DEF Told, Harmless, Unended, AtWork, Unstarted
<1> QED BY <1>1, SameReport DEF Answered, installVars

LEMMA Accepts ==
  ASSUME IInv, IInv', NEW j \in Jobs, MayCommit(j), UNCHANGED <<flash, volatile>>,
         status' = [status EXCEPT ![j] = "working"], base' = [base EXCEPT ![j] = flash],
         active' = active \/ active' = j
  PROVE  Promise!Next
<1>1. status[j] = "uploading" /\ volatile = NoResult /\ \A k \in Jobs : ~Held(k)
  BY MayCommitIs
<1>2. status \in [Jobs -> Phases] /\ volatile.job = NoJob
  BY <1>1 DEF IInv, Typed, NoResult
<1>3. Told(j) = "none" /\ Told(j)' \in {"open", "unresolved"}
  BY <1>1, <1>2, ServiceAssumption DEF Told, Unended, AtWork
<1>4. \A k \in Jobs \ {j} : Told(k)' = Told(k)
  <2> SUFFICES ASSUME NEW k \in Jobs \ {j} PROVE Told(k)' = Told(k)
    OBVIOUS
  <2>1. status'[k] = status[k] /\ status[k] \notin Unended
    BY <1>1, <1>2 DEF Held
  <2> QED BY <2>1 DEF Told, Unended, AtWork
<1>5. \A k \in Jobs : Report[k] \notin {"open", "unresolved"}
  <2> SUFFICES ASSUME NEW k \in Jobs PROVE Report[k] \notin {"open", "unresolved"}
    OBVIOUS
  <2>1. Report[k] = Told(k)
    BY ReportTold
  <2> QED BY <1>1, <2>1, PendingIs
<1> QED BY <1>3, <1>4, <1>5, OneReport DEF Promise!Next, Promise!Accept, Promise!Pending

LEMMA RequestReport ==
  ASSUME IInv, IInv', NEW j \in Jobs,
         \/ LookRaises(j) \/ Begin(j) \/ BeginRaises(j) \/ Chunk(j) \/ ChunkRaises(j)
         \/ Abort(j) \/ Commit(j) \/ CommitRaises(j) \/ Recover(j) \/ RecoverRaises(j)
  PROVE  [Promise!Next]_Promise!promised
<1>1. CASE LookRaises(j) \/ Begin(j) \/ BeginRaises(j) \/ Chunk(j) \/ ChunkRaises(j) \/ Abort(j)
  <2>1. Answered
    BY <1>1, LookRaisesKept, BeginKept, ChunkKept, AbortKept
  <2> QED BY <2>1, AnsweredReport
<1>2. CASE Commit(j)
  <2>1. MayCommit(j) /\ UNCHANGED <<flash, volatile>> /\ status' = [status EXCEPT ![j] = "working"]
        /\ base' = [base EXCEPT ![j] = flash] /\ active' = j
    BY <1>2 DEF Commit, SavedAs, installVars
  <2> QED BY <2>1, Accepts
<1>3. CASE CommitRaises(j)
  <2>1. MayCommit(j) /\ UNCHANGED <<flash, volatile, active>>
    BY <1>3 DEF CommitRaises, installVars
  <2>2. CASE status' = status
    <3>1. UNCHANGED base /\ \A k \in Jobs : Told(k)' = Told(k)
      BY <1>3, <2>1, <2>2 DEF CommitRaises, Told
    <3> QED BY <2>1, <3>1, SameReport
  <2>3. CASE status' # status
    BY <1>3, <2>1, <2>3, Accepts DEF CommitRaises, SaveRaises, SavedAs
  <2> QED BY <2>2, <2>3
<1>4. CASE Recover(j) \/ RecoverRaises(j)
  <2>1. /\ Held(j) /\ active = NoJob /\ Loaded(j) = "recovery-required"
        /\ UNCHANGED <<flash, base>> /\ active' \in {NoJob, j}
        /\ status' \in {status, [status EXCEPT ![j] = "checking"]}
        /\ volatile' \in {volatile, NoResult} /\ (volatile.job # j => volatile' = volatile)
        /\ volatile' # volatile => status' = [status EXCEPT ![j] = "checking"]
        /\ active' = j => volatile'.job # j /\ status' = [status EXCEPT ![j] = "checking"]
    BY <1>4, LoadedIs, ServiceAssumption
    DEF Recover, RecoverRaises, MayRecover, SaveRaises, SavedAs, installVars, Unended, NoResult
  <2>2. status \in [Jobs -> Phases] /\ NoResult.job = NoJob
    BY DEF IInv, Typed, NoResult
  <2>3. Told(j) = "unresolved"
    BY <2>1, ServiceAssumption DEF Told, Loaded, Held, Unended, AtWork
  <2>4. Told(j)' = "unresolved"
    BY <2>1, <2>2, ServiceAssumption DEF Told, Loaded, Held, Unended, AtWork
  <2>5. ASSUME NEW k \in Jobs \ {j} PROVE Told(k)' = Told(k)
    <3>1. ~Held(k)
      BY <2>1 DEF IInv, OneHeld
    <3>2. status'[k] = status[k] /\ volatile'.job # k
      BY <2>1, <2>2, <3>1, ServiceAssumption DEF Held
    <3> QED BY <3>1, <3>2 DEF Told, Held, Unended, AtWork
  <2> QED BY <2>1, <2>3, <2>4, <2>5, SameReport
<1> QED BY <1>1, <1>2, <1>3, <1>4

LEMMA TaskReport ==
  ASSUME IInv, IInv', TaskStep
  PROVE  [Promise!Next]_Promise!promised
<1>1. CASE UNCHANGED <<status, active, volatile, flash, base>>
  <2>1. \A k \in Jobs : Told(k)' = Told(k)
    BY <1>1 DEF Told
  <2> QED BY <1>1, <2>1, SameReport
<1>2. CASE Save \/ SaveFails
  <2>0. At("saving") /\ status \in [Jobs -> Phases]
    BY <1>2 DEF Save, SaveFails, IInv, Typed
  <2>1. PICK j \in Jobs, v \in {"done", "rolled-back", "error", "recovery-required"} :
          /\ j = task.job /\ v = task.verdict /\ Held(j) /\ \A k \in Jobs : Held(k) => k = j
          /\ v = "done" => flash = NewFlash(j)
          /\ v \in {"rolled-back", "error"} => flash = base[j]
    BY <2>0, SavingIs
  <2>2. /\ UNCHANGED <<flash, base>> /\ active' = NoJob
        /\ status' \in {status, [status EXCEPT ![j] = v]}
        /\ Save => volatile'.job = NoJob /\ status' = [status EXCEPT ![j] = v]
        /\ SaveFails => volatile' = [job |-> j, phase |-> "recovery-required"]
    BY <1>2, <2>1 DEF Save, SaveFails, SaveRaises, SavedAs, TaskOver, NoResult, installVars
  <2>3. ASSUME NEW k \in Jobs \ {j} PROVE Told(k)' = Told(k)
    <3>1. ~Held(k)
      BY <2>1
    <3>2. status'[k] = status[k] /\ volatile'.job # k
      BY <1>2, <2>0, <2>1, <2>2, ServiceAssumption
    <3> QED BY <3>1, <3>2 DEF Told, Held, Unended, AtWork
  <2>4. CASE SaveFails
    <3>1. Told(j)' = "unresolved"
      BY <2>2, <2>4 DEF Told
    <3> QED BY <2>1, <2>2, <2>3, <3>1, Interrupts
  <2>5. CASE Save
    <3>1. volatile'.job = NoJob /\ status'[j] = v
      BY <2>0, <2>1, <2>2, <2>5
    <3>2. CASE v = "recovery-required"
      <4>1. Told(j)' = "unresolved"
        BY <2>1, <3>1, <3>2, ServiceAssumption DEF Told, Unended
      <4> QED BY <2>1, <2>2, <2>3, <4>1, Interrupts
    <3>3. CASE v # "recovery-required"
      <4>1. /\ v = "done" => Told(j)' = "done"
            /\ v = "rolled-back" => Told(j)' = "restored"
            /\ v = "error" => Told(j)' = "untouched"
        BY <2>1, <3>1, ServiceAssumption DEF Told, Unended, AtWork
      <4> QED BY <2>1, <2>2, <2>3, <3>3, <4>1, Concludes
    <3> QED BY <3>2, <3>3
  <2> QED BY <1>2, <2>4, <2>5
<1>3. TaskStep => Save \/ SaveFails \/ UNCHANGED <<status, active, volatile, flash, base>>
  BY DEF TaskStep, Validate, Drain, TakePort, PortStuck, WorkerEnds, CheckEnds, GivePortBack, Reconnected,
         Run, RunRaises, installVars
<1> QED BY <1>1, <1>2, <1>3

LEMMA DiesReport ==
  ASSUME IInv, IInv', Dies
  PROVE  [Promise!Next]_Promise!promised
<1>1. /\ active' = NoJob /\ volatile'.job = NoJob /\ UNCHANGED <<flash, status, base>>
  BY DEF Dies, NoResult
<1>2. ASSUME NEW k \in Jobs, ~Held(k) PROVE Told(k)' = Told(k)
  BY <1>1, <1>2, ServiceAssumption DEF Told, Held, Unended, AtWork
<1>3. CASE \A j \in Jobs : ~Held(j)
  BY <1>1, <1>2, <1>3, SameReport
<1>4. ASSUME NEW j \in Jobs, Held(j)
      PROVE  [Promise!Next]_Promise!promised
  <2>1. \A k \in Jobs \ {j} : Told(k)' = Told(k)
    BY <1>2, <1>4 DEF IInv, OneHeld
  <2>2. CASE status[j] \in Unended
    <3>1. Told(j)' = "unresolved"
      BY <1>1, <2>2, ServiceAssumption DEF Told
    <3> QED BY <1>1, <1>4, <2>1, <3>1, Interrupts
  <2>3. CASE status[j] \notin Unended
    <3>1. status[j] \in {"done", "rolled-back", "error"}
      BY <1>4, <2>3 DEF IInv, Typed, MemoryInv, Held, Phases, AtWork, Terminal, Unended, Unstarted
    <3>2. /\ status[j] = "done" => flash = NewFlash(j)
          /\ status[j] \in {"rolled-back", "error"} => flash = base[j]
      BY <1>4 DEF IInv, FlashInv
    <3>3. /\ status[j] = "done" => Told(j)' = "done"
          /\ status[j] = "rolled-back" => Told(j)' = "restored"
          /\ status[j] = "error" => Told(j)' = "untouched"
      BY <1>1, <2>3, ServiceAssumption DEF Told, Unended, AtWork
    <3> QED BY <1>1, <1>4, <2>1, <3>1, <3>2, <3>3, Concludes
  <2> QED BY <2>2, <2>3
<1> QED BY <1>3, <1>4

LEMMA InstallReport ==
  ASSUME IInv, IInv', Install
  PROVE  [Promise!Next]_Promise!promised
<1>1. UNCHANGED <<status, active, volatile, base>> /\ WorkerStep /\ worker.at # "idle"
  BY DEF Install, serviceVars, WorkerStep, Preflight, Read, Enter, BackUp, Arm, StartLoad, EndLoad, CheckFlash,
         Reboot, Compare, StepFails, RollBack, StartRestore, EndRestore, Restart, RestoreFails, Resume, GiveUp,
         BeforeBoot, BeforeWrite, Writing, Restoring
<1>2. \A k \in Jobs : Told(k)' = Told(k)
  BY <1>1 DEF Told
<1>3. job \in Jobs /\ Told(job) = "open"
  <2>1. /\ job \in Jobs /\ job = task.job /\ task # NoTask /\ status[job] = "working" /\ active = job
    BY <1>1, WorkerIs
  <2>2. volatile = NoResult \/ volatile = [job |-> task.job, phase |-> "working"]
    BY <2>1 DEF IInv, TaskInv
  <2>3. volatile.job # job \/ volatile.phase = "working"
    BY <2>1, <2>2, ServiceAssumption DEF NoResult
  <2> QED BY <2>1, <2>3 DEF Told
<1>4. flash' \in Images
  BY DEF IInv, Typed, InstallTypeOK
<1>5. Report' = Report /\ Report[job] = "open"
  BY <1>2, <1>3, ReportTold, ReportToldNext
<1> QED BY <1>1, <1>3, <1>4, <1>5 DEF Promise!Next, Promise!Write

LEMMA NextReport ==
  ASSUME IInv, IInv', [Next]_vars
  PROVE  [Promise!Next]_Promise!promised
<1>1. CASE \E S \in SUBSET Existing : Look(S)
  <2>1. Answered
    BY <1>1, LookKept
  <2> QED BY <2>1, AnsweredReport
<1>2. ASSUME NEW j \in Jobs,
             \/ LookRaises(j) \/ Begin(j) \/ BeginRaises(j) \/ Chunk(j) \/ ChunkRaises(j)
             \/ Abort(j) \/ Commit(j) \/ CommitRaises(j) \/ Recover(j) \/ RecoverRaises(j)
      PROVE  [Promise!Next]_Promise!promised
  BY <1>2, RequestReport
<1>3. CASE Scan
  <2>1. Answered
    BY <1>3, ScanKept
  <2> QED BY <2>1, AnsweredReport
<1>4. CASE ProgressLost
  <2>1. "at work" \in TaskSteps /\ At("at work") /\ task.kind = "update"
    BY <1>4 DEF TaskSteps, ProgressLost
  <2>2. /\ task # NoTask /\ task.job \in Jobs /\ active = task.job /\ status[task.job] = "working"
        /\ volatile \in {NoResult, [job |-> task.job, phase |-> "working"]}
    BY <2>1, TaskIs DEF IInv, TaskInv
  <2>3. /\ volatile' = [job |-> task.job, phase |-> "working"]
        /\ UNCHANGED <<status, active, flash, base, task>>
    BY <1>4 DEF ProgressLost, installVars
  <2>4. \A k \in Jobs : Told(k)' = Told(k)
    BY <2>2, <2>3, ServiceAssumption DEF Told, NoResult
  <2> QED BY <2>3, <2>4, SameReport
<1>5. CASE TaskStep
  BY <1>5, TaskReport
<1>6. CASE Install
  BY <1>6, InstallReport
<1>7. CASE Dies
  BY <1>7, DiesReport
<1>8. CASE Stop \/ Starts \/ LinkMoves \/ (Replug /\ UNCHANGED serviceVars) \/ UNCHANGED vars
  <2>1. UNCHANGED <<status, active, volatile, flash, base>>
    BY <1>8 DEF Stop, Starts, LinkMoves, Replug, vars, serviceVars, installVars
  <2>2. \A k \in Jobs : Told(k)' = Told(k)
    BY <2>1 DEF Told
  <2> QED BY <2>1, <2>2, SameReport
<1> QED BY <1>1, <1>2, <1>3, <1>4, <1>5, <1>6, <1>7, <1>8 DEF Next

\* UpdateService implements SafeUpdate: a job is accepted only while no other is open or
\* unresolved, and concludes only with a report that is true of the flash at that moment.
THEOREM ReportsAlwaysTrue == Spec => ReportsAreTrue
<1>1. Init => Promise!Init
  <2> SUFFICES ASSUME Init PROVE Promise!Init
    OBVIOUS
  <2>1. \A j \in Jobs : Told(j) = "none"
    BY ServiceAssumption DEF Init, Told, NoResult, Unended, AtWork
  <2>2. flash \in Images /\ base = [j \in Jobs |-> flash]
    BY DEF Init, InstallInit, Images
  <2>3. Report = [j \in Jobs |-> "none"]
    BY <2>1, InitKept, ReportTold
  <2> QED BY <2>2, <2>3 DEF Promise!Init
<1>2. IInv /\ IInv' /\ [Next]_vars => [Promise!Next]_Promise!promised
  BY NextReport
<1> QED BY <1>1, <1>2, Inductive, PTL DEF Spec, ReportsAreTrue, Promise!Spec

=============================================================================
