--------------------------- MODULE PiServicesProof ----------------------------
(***************************************************************************)
(* The programs around the core of the hub, for every value of their       *)
(* constants; they share no state.                                         *)
(*                                                                         *)
(* InstallIO never lets another unit than the pinned one carry out a       *)
(* command, and never loads what is not the backup of one state, for every *)
(* number of ranges, of units plugged in and of changes to a flash.        *)
(*                                                                         *)
(* HubSessions never hides a gap from a Stage client, for any clients, any *)
(* bound on their queues, and any number of lines and changes of the link. *)
(*                                                                         *)
(* DeviceSnapshot never takes for one list of patches what is parts of two *)
(* lists, for any lists, any page size, and any number of changes of the   *)
(* Captain and of events, answers and snapshots on its line.               *)
(*                                                                         *)
(* HdmiRecovery and MidiConnect keep their types, and with these two all   *)
(* five of them do, composed as MCPiServices composes them.                *)
(***************************************************************************)
EXTENDS MCPiServices, SequenceTheorems, FiniteSetTheorems, WellFoundedInduction, TLAPS
-----------------------------------------------------------------------------
(* The installer's access to the Captain.                                  *)

Uniform(b) == \A i \in 1 .. Len(b) : b[i] = b[1]

\* An operation that is under way is one of the round.
UnderWay == step # "begin" => at <= Len(Rounds[round])

\* A name belongs to one unit, and only to one that runs something.
NumbersDiffer ==
  /\ \A u, v \in Units : number[u] = number[v] /\ number[u] # 0 => u = v
  /\ \A u \in Units : number[u] # 0 => mode[u] # "starting" /\ place[u] # "none"

\* An open port keeps its name, and is the pinned Captain's once it was checked.
PortKept ==
  /\ step \in {"open", "check", "use", "select", "run"} => name # 0
  /\ step \in {"check", "use"} <=> fd # "none"
  /\ fd \in Units => number[fd] = name
  /\ step = "use" => fd # "other"

\* What the round has done to the backup so far.
BackupKept ==
  /\ Op = "save" /\ step # "begin" => Len(backup) < Chunks
  /\ round = "update" /\ at \in 4 .. 8 => Len(backup) = Chunks
  /\ round = "update" /\ at \in 5 .. 8 => Uniform(backup)
  /\ round = "restore" => Len(backup) = Chunks /\ Uniform(backup)

OnlyMine == obeyed \subseteq {"mine"}

IInv == AccessTypeOK /\ UnderWay /\ NumbersDiffer /\ PortKept /\ BackupKept /\ OnlyMine
-----------------------------------------------------------------------------
LEMMA RoundLengths ==
  /\ DOMAIN Rounds = {"update", "restore", "resume"}
  /\ Len(Rounds["update"]) = 8 /\ Len(Rounds["restore"]) = 5 /\ Len(Rounds["resume"]) = 2
  BY DEF Rounds

LEMMA Length ==
  ASSUME NEW r \in DOMAIN Rounds
  PROVE  /\ r \in {"update", "restore", "resume"}
         /\ Len(Rounds[r]) \in {2, 5, 8}
         /\ r = "update" => Len(Rounds[r]) = 8
  <1>1. r \in {"update", "restore", "resume"}
    BY RoundLengths
  <1>2. CASE r = "update"
    BY <1>2, RoundLengths
  <1>3. CASE r = "restore"
    BY <1>3, RoundLengths
  <1>4. CASE r = "resume"
    BY <1>4, RoundLengths
  <1>. QED
    BY <1>1, <1>2, <1>3, <1>4

\* Which operations are a save, a load, and none.
LEMMA OpIs ==
  ASSUME round \in DOMAIN Rounds, at \in 1 .. Len(Rounds[round]) + 1
  PROVE  /\ Op = "save" <=> round = "update" /\ at = 3
         /\ Op = "verify" /\ round = "update" => at \in {4, 6}
         /\ Op = "load" => (round = "update" /\ at = 5) \/ (round = "restore" /\ at = 2)
         /\ Op # "none" <=> at <= Len(Rounds[round])
  <1>1. CASE round = "update"
    <2>1. at \in 1 .. 9
      BY <1>1, RoundLengths
    <2>2. /\ Rounds["update"][1] = "read" /\ Rounds["update"][2] = "enter"
          /\ Rounds["update"][3] = "save" /\ Rounds["update"][4] = "verify"
          /\ Rounds["update"][5] = "load" /\ Rounds["update"][6] = "verify"
          /\ Rounds["update"][7] = "reboot" /\ Rounds["update"][8] = "read"
      BY DEF Rounds
    <2>. QED
      BY <1>1, <2>1, <2>2, RoundLengths DEF Op
  <1>2. CASE round = "restore"
    <2>1. at \in 1 .. 6
      BY <1>2, RoundLengths
    <2>2. /\ Rounds["restore"][1] = "recover" /\ Rounds["restore"][2] = "load"
          /\ Rounds["restore"][3] = "verify" /\ Rounds["restore"][4] = "reboot"
          /\ Rounds["restore"][5] = "read"
      BY DEF Rounds
    <2>. QED
      BY <1>2, <2>1, <2>2, RoundLengths DEF Op
  <1>3. CASE round = "resume"
    <2>1. at \in 1 .. 3
      BY <1>3, RoundLengths
    <2>2. Rounds["resume"][1] = "recover" /\ Rounds["resume"][2] = "reboot"
      BY DEF Rounds
    <2>. QED
      BY <1>3, <2>1, <2>2, RoundLengths DEF Op
  <1>. QED
    BY <1>1, <1>2, <1>3, RoundLengths

-----------------------------------------------------------------------------
LEMMA InitGood == ASSUME AccessInit PROVE IInv
  BY AccessAssumption, RoundLengths, OpIs
  DEF AccessInit, IInv, AccessTypeOK, UnderWay, NumbersDiffer, PortKept, BackupKept,
      OnlyMine, Units, Names, New, Uniform

\* What the units do leaves the round and the backup alone.
LEMMA PlugInGood ==
  ASSUME IInv, NEW u \in Units, PlugIn(u)
  PROVE IInv'
  BY AccessAssumption
  DEF IInv, PlugIn, AccessTypeOK, UnderWay, NumbersDiffer, PortKept, BackupKept, OnlyMine,
      Op, Uniform, planVars, portVars, Units, Names, New

LEMMA UnplugGood ==
  ASSUME IInv, NEW u \in Units, Unplug(u)
  PROVE IInv'
  BY DEF IInv, Unplug, AccessTypeOK, UnderWay, NumbersDiffer, PortKept, BackupKept, OnlyMine,
         Op, Uniform, planVars, portVars, Units, Names, New

LEMMA StartedGood ==
  ASSUME IInv, NEW u \in Units, Started(u)
  PROVE IInv'
  BY DEF IInv, Started, AccessTypeOK, UnderWay, NumbersDiffer, PortKept, BackupKept, OnlyMine,
         Op, Uniform, Free, planVars, portVars, Units, Names, New

LEMMA WritesGood ==
  ASSUME IInv, NEW u \in Units, Writes(u)
  PROVE IInv'
  BY AccessAssumption
  DEF IInv, Writes, AccessTypeOK, UnderWay, NumbersDiffer, PortKept, BackupKept, OnlyMine,
      Op, Uniform, planVars, portVars, Units, Names, New
-----------------------------------------------------------------------------
(***************************************************************************)
(* The steps of the installer.                                             *)
(***************************************************************************)
\* An operation that fails, whatever it was at.
LEMMA FailedGood ==
  ASSUME IInv, at <= Len(Rounds[round]),
         Failed, UNCHANGED <<unitVars, backup, obeyed>>
  PROVE IInv'
  <1>. DEFINE L == Len(Rounds[round])
  <1>1. /\ round \in {"update", "restore", "resume"} /\ L \in {2, 5, 8}
        /\ round = "update" => L = 8
    BY Length DEF IInv, AccessTypeOK
  <1>2. at \in 1 .. L + 1 /\ at <= L
    BY DEF IInv, AccessTypeOK
  <1>3. /\ round' \in DOMAIN Rounds /\ at' \in 1 .. Len(Rounds[round']) + 1
        /\ round' = "update" => at' = 9
        /\ round' = "restore" => round = "restore" \/ (round = "update" /\ at \in 5 .. 8)
    <2>1. CASE Remedy = "none"
      <3>1. round' = round /\ at' = L + 1
        BY <2>1 DEF Failed
      <3>. HIDE DEF L
      <3>2. at' \in 1 .. L + 1 /\ (round = "update" => at' = 9)
        BY <1>1, <3>1
      <3>3. at' \in 1 .. Len(Rounds[round']) + 1
        BY <3>1, <3>2 DEF L
      <3>. QED
        BY <3>1, <3>2, <3>3 DEF IInv, AccessTypeOK
    <2>2. CASE Remedy # "none"
      <3>. HIDE DEF L
      <3>1. /\ round' \in {"restore", "resume"} /\ at' = 1
            /\ round' = "restore" => round = "update" /\ at \in 5 .. 8
        BY <1>1, <1>2, <2>2 DEF Failed, Remedy, Writing
      <3>2. round' \in DOMAIN Rounds /\ at' \in 1 .. Len(Rounds[round']) + 1
        BY <3>1, RoundLengths
      <3>. QED
        BY <3>1, <3>2
    <2>. QED
      BY <2>1, <2>2
  <1>4. AccessTypeOK'
    BY <1>3 DEF Failed, PortClosed, IInv, AccessTypeOK, unitVars
  <1>5. UnderWay' /\ NumbersDiffer' /\ PortKept' /\ OnlyMine'
    BY DEF Failed, PortClosed, IInv, UnderWay, NumbersDiffer, PortKept, OnlyMine, unitVars, Units
  <1>6. BackupKept'
    BY <1>3 DEF Failed, PortClosed, IInv, BackupKept, Uniform
  <1>. QED
    BY <1>4, <1>5, <1>6 DEF IInv

\* A step within an operation, which leaves the backup alone.
LEMMA WithinGood ==
  ASSUME IInv, UNCHANGED <<unitVars, planVars, backup, obeyed>>,
         step # "begin", step' # "begin", PortKept',
         name' \in {0} \cup Names, fd' \in Units \cup {"none", "gone"},
         step' \in {"find", "open", "check", "use", "look", "select", "run"}
  PROVE IInv'
  <1>1. Op' = Op
    BY DEF Op, planVars
  <1>. QED
    BY <1>1
    DEF IInv, AccessTypeOK, UnderWay, NumbersDiffer, BackupKept, OnlyMine, Uniform,
        unitVars, planVars

LEMMA BeginGood ==
  ASSUME IInv, Begin
  PROVE IInv'
  <1>1. Op # "none" /\ Op' = Op
    BY DEF Begin, planVars, Ports, Tool, Op
  <1>2. at <= Len(Rounds[round])
    BY <1>1, OpIs DEF IInv, AccessTypeOK
  <1>3. CASE Op = "save"
    <2>1. backup' = <<>> /\ backup' \in Seq(0 .. New) /\ Len(backup') = 0
      BY <1>3 DEF Begin
    <2>2. round = "update" /\ at = 3
      BY <1>3, OpIs DEF IInv, AccessTypeOK
    <2>. QED
      BY AccessAssumption, <1>1, <1>2, <2>1, <2>2
      DEF IInv, Begin, AccessTypeOK, UnderWay, NumbersDiffer, PortKept, BackupKept, OnlyMine,
          unitVars, planVars, portVars
  <1>4. CASE Op # "save"
    BY <1>1, <1>2, <1>4
    DEF IInv, Begin, AccessTypeOK, UnderWay, NumbersDiffer, PortKept, BackupKept, OnlyMine,
        Uniform, unitVars, planVars, portVars
  <1>. QED
    BY <1>3, <1>4

LEMMA SearchGood ==
  ASSUME IInv,
         FindPort \/ OpenPort \/ OpenAgain \/ Look
  PROVE IInv'
  <1>1. CASE FindPort
    BY <1>1, WithinGood
    DEF FindPort, At, IInv, AccessTypeOK, PortKept, unitVars, planVars, Units, Names
  <1>2. CASE OpenPort
    BY <1>2, WithinGood
    DEF OpenPort, Owners, IInv, AccessTypeOK, PortKept, unitVars, planVars, Units, Names
  <1>3. CASE OpenAgain
    BY <1>3, WithinGood
    DEF OpenAgain, IInv, AccessTypeOK, PortKept, unitVars, planVars, Units, Names
  <1>4. CASE Look
    BY <1>4, WithinGood
    DEF Look, At, IInv, AccessTypeOK, PortKept, unitVars, planVars, Units, Names
  <1>. QED
    BY <1>1, <1>2, <1>3, <1>4

\* The name of a checked port is the pinned Captain's, and so is the port.
LEMMA CheckPortGood ==
  ASSUME IInv, CheckPort
  PROVE IInv'
  <1>1. CASE \E u \in Owners : u = "mine" /\ place[u] = "P"
    <2>1. number["mine"] = name
      BY <1>1 DEF Owners
    <2>2. fd # "other"
      BY <2>1 DEF IInv, PortKept, NumbersDiffer, CheckPort, Units
    <2>. QED
      BY <1>1, <2>2, WithinGood
      DEF CheckPort, IInv, AccessTypeOK, PortKept, unitVars, planVars, portVars, Units, Names
  <1>2. CASE ~ \E u \in Owners : u = "mine" /\ place[u] = "P"
    BY <1>2, FailedGood DEF CheckPort, IInv, UnderWay
  <1>. QED
    BY <1>1, <1>2

\* What a step has to do with the units and the orders given to them.
UnitsGood ==
  /\ place \in [Units -> {"P", "Q", "none"}]
  /\ mode \in [Units -> {"starting", "running", "bootsel"}]
  /\ number \in [Units -> {0} \cup Names]
  /\ flash \in [Units -> 0 .. New] /\ plugs \in 0 .. MaxPlugs
  /\ NumbersDiffer /\ OnlyMine

\* An operation that ends well, if what it adds to the backup is what is due.
LEMMA DoneGood ==
  ASSUME IInv, step # "begin", Done, UnitsGood',
         backup' \in Seq(0 .. New), Len(backup') <= Chunks,
         round = "update" /\ at + 1 \in 4 .. 8 => Len(backup') = Chunks,
         round = "update" /\ at + 1 \in 5 .. 8 => Uniform(backup'),
         round = "restore" => backup' = backup
  PROVE IInv'
  <1>1. round' = round /\ at' = at + 1 /\ step' = "begin" /\ name' = 0 /\ fd' = "none"
    BY DEF Done, PortClosed
  <1>2. at' \in 1 .. Len(Rounds[round']) + 1
    <2>. DEFINE L == Len(Rounds[round])
    <2>1. at \in 1 .. L + 1 /\ at <= L
      BY DEF IInv, AccessTypeOK, UnderWay
    <2>2. L \in Nat
      BY Length DEF IInv, AccessTypeOK
    <2>. HIDE DEF L
    <2>3. at + 1 \in 1 .. L + 1
      BY <2>1, <2>2
    <2>. QED
      BY <1>1, <2>3 DEF L
  <1>3. AccessTypeOK'
    BY <1>1, <1>2 DEF IInv, AccessTypeOK, UnitsGood, OnlyMine, Units
  <1>4. UnderWay' /\ NumbersDiffer' /\ PortKept' /\ OnlyMine'
    BY <1>1 DEF UnderWay, UnitsGood, PortKept, Units
  <1>5. BackupKept'
    BY <1>1 DEF IInv, BackupKept, Uniform
  <1>. QED
    BY <1>3, <1>4, <1>5 DEF IInv

\* The operation under way, and how far the round is with it.
LEMMA Under ==
  ASSUME IInv
  PROVE  /\ Op = "save" <=> round = "update" /\ at = 3
         /\ Op = "verify" /\ round = "update" => at \in {4, 6}
         /\ Op = "load" => (round = "update" /\ at = 5) \/ (round = "restore" /\ at = 2)
         /\ at \in Nat /\ at >= 1
  BY OpIs, Length DEF IInv, AccessTypeOK

\* Operations that leave the backup alone.
LEMMA ReadDoneGood ==
  ASSUME IInv, ReadDone
  PROVE IInv'
  <1>1. ~(round = "update" /\ at = 3) /\ ~(round = "update" /\ at = 4)
    BY OpIs DEF ReadDone, IInv, AccessTypeOK, Op, Rounds
  <1>. QED
    BY <1>1, Under, DoneGood
    DEF ReadDone, IInv, AccessTypeOK, UnitsGood, BackupKept, OnlyMine, NumbersDiffer,
        unitVars, Uniform

LEMMA ConfirmGood ==
  ASSUME IInv, Confirm
  PROVE IInv'
  <1>1. CASE Op \in Tool
    BY <1>1, WithinGood DEF Confirm, IInv, AccessTypeOK, PortKept, unitVars, planVars, portVars
  <1>2. CASE Op \notin Tool
    <2>1. ~(round = "update" /\ at = 3) /\ ~(round = "update" /\ at = 4)
      BY <1>2, OpIs DEF IInv, AccessTypeOK, Op, Rounds, Tool
    <2>. QED
      BY <1>2, <2>1, Under, DoneGood
      DEF Confirm, IInv, AccessTypeOK, UnitsGood, BackupKept, OnlyMine, NumbersDiffer, unitVars,
          Uniform
  <1>. QED
    BY <1>1, <1>2

\* A unit that restarts has a name of its own, or none.
LEMMA RestartsGood ==
  ASSUME IInv, NEW u \in Units, place[u] # "none", NEW m \in {"starting", "bootsel"},
         Restarts(u, m), obeyed' = obeyed \cup {u}, u = "mine", flash' = flash
  PROVE UnitsGood'
  BY DEF IInv, AccessTypeOK, UnitsGood, NumbersDiffer, OnlyMine, Restarts, Units, Names

LEMMA EnterBootloaderGood ==
  ASSUME IInv, EnterBootloader
  PROVE IInv'
  <1>1. UnitsGood'
    <2>1. CASE /\ fd \in Units /\ obeyed' = obeyed \cup {fd}
                  /\ Restarts(fd, "bootsel") /\ UNCHANGED flash
      <3>1. fd = "mine" /\ place[fd] # "none"
        BY <2>1 DEF EnterBootloader, IInv, PortKept, NumbersDiffer, Units
      <3>. QED
        BY <2>1, <3>1, RestartsGood
    <2>2. CASE UNCHANGED <<obeyed, unitVars>>
      BY <2>2 DEF IInv, AccessTypeOK, UnitsGood, NumbersDiffer, OnlyMine, unitVars
    <2>. QED
      BY <2>1, <2>2 DEF EnterBootloader
  <1>2. Op' = Op
    BY DEF EnterBootloader, Op, planVars
  <1>. QED
    BY <1>1, <1>2
    DEF EnterBootloader, IInv, AccessTypeOK, UnderWay, UnitsGood, PortKept, BackupKept, OnlyMine,
        Uniform, planVars, Units

LEMMA RebootGood ==
  ASSUME IInv, Reboot
  PROVE IInv'
  <1>1. UnitsGood'
    <2>1. number["mine"] # 0
      BY DEF Reboot, Selected, IInv, PortKept
    <2>. QED
      BY <2>1, RestartsGood DEF Reboot, Selected, Reached, IInv, NumbersDiffer, Units
  <1>2. ~(round = "update" /\ at = 3) /\ ~(round = "update" /\ at = 4)
    BY OpIs DEF Reboot, IInv, AccessTypeOK, Op, Rounds
  <1>. QED
    BY <1>1, <1>2, Under, DoneGood
    DEF Reboot, IInv, AccessTypeOK, BackupKept, Uniform

LEMMA LoadGood ==
  ASSUME IInv, Load
  PROVE IInv'
  <1>1. /\ round = "update" => at = 5
        /\ Len(backup) = Chunks /\ Uniform(backup)
    BY Under DEF Load, IInv, BackupKept
  <1>2. backup[1] \in 0 .. New /\ New \in 0 .. New
    BY AccessAssumption, <1>1 DEF IInv, AccessTypeOK, New
  <1>3. UnitsGood'
    BY <1>2
    DEF Load, Selected, Reached, IInv, AccessTypeOK, UnitsGood, NumbersDiffer, OnlyMine, Units
  <1>. QED
    BY <1>1, <1>3, Under, DoneGood DEF Load, IInv, AccessTypeOK, Uniform

\* A verification in the update, before the load, shows that the backup is of one
\* state.
LEMMA VerifyGood ==
  ASSUME IInv, Verify
  PROVE IInv'
  <1>1. UnitsGood'
    BY DEF Verify, Selected, Reached, IInv, AccessTypeOK, UnitsGood, NumbersDiffer, OnlyMine,
           unitVars, Units
  <1>2. round = "update" /\ at = 4 => Uniform(backup)
    BY DEF Verify, Selected, Writing, Uniform, IInv, AccessTypeOK
  <1>3. round = "update" => at \in {4, 6}
    BY Under DEF Verify
  <1>. QED
    BY <1>1, <1>2, <1>3, Under, DoneGood
    DEF Verify, IInv, AccessTypeOK, BackupKept, Uniform

\* A backup is longer by one range, and complete when its operation ends.
LEMMA SaveRangeGood ==
  ASSUME IInv, SaveRange
  PROVE IInv'
  <1>1. round = "update" /\ at = 3 /\ Len(backup) < Chunks /\ Op = "save"
    BY Under DEF SaveRange, IInv, BackupKept
  <1>2. /\ backup' \in Seq(0 .. New) /\ Len(backup') = Len(backup) + 1
    BY DEF SaveRange, Selected, IInv, AccessTypeOK
  <1>3. UnitsGood'
    BY DEF SaveRange, Selected, Reached, IInv, AccessTypeOK, UnitsGood, NumbersDiffer, OnlyMine,
           unitVars, Units
  <1>4. CASE Len(backup') = Chunks
    BY AccessAssumption, <1>1, <1>2, <1>3, <1>4, DoneGood DEF SaveRange
  <1>5. CASE Len(backup') # Chunks
    <2>1. Op' = Op /\ Len(backup') < Chunks
      BY AccessAssumption, <1>1, <1>2, <1>5 DEF SaveRange, Op, planVars, IInv, AccessTypeOK
    <2>2. /\ step = "run" /\ step' = "look" /\ name' = 0
          /\ UNCHANGED <<round, at, fd>>
      BY <1>5 DEF SaveRange, planVars
    <2>3. AccessTypeOK'
      BY AccessAssumption, <1>2, <1>3, <2>1, <2>2 DEF IInv, AccessTypeOK, UnitsGood, OnlyMine, Units
    <2>4. UnderWay' /\ NumbersDiffer' /\ PortKept' /\ OnlyMine'
      BY <1>3, <2>2 DEF IInv, UnderWay, UnitsGood, PortKept, Units
    <2>5. BackupKept'
      BY <1>1, <2>1, <2>2 DEF BackupKept
    <2>. QED
      BY <2>3, <2>4, <2>5 DEF IInv
  <1>. QED
    BY <1>4, <1>5
-----------------------------------------------------------------------------
LEMMA StepGood ==
  ASSUME IInv, [AccessNext]_accessVars
  PROVE IInv'
  <1>1. CASE OpFails
    <2>1. at <= Len(Rounds[round])
      BY <1>1, OpIs DEF OpFails, IInv, AccessTypeOK
    <2>. QED
      BY <1>1, <2>1, FailedGood DEF OpFails
  <1>2. CASE PortIsOthers
    BY <1>2, FailedGood DEF PortIsOthers, IInv, UnderWay
  <1>3. CASE \E u \in Units : PlugIn(u) \/ Unplug(u) \/ Started(u) \/ Writes(u)
    BY <1>3, PlugInGood, UnplugGood, StartedGood, WritesGood
  <1>4. CASE UNCHANGED accessVars
    BY <1>4
    DEF IInv, AccessTypeOK, UnderWay, NumbersDiffer, PortKept, BackupKept, OnlyMine, Op, Uniform,
        accessVars, unitVars, planVars, portVars
  <1>. QED
    BY <1>1, <1>2, <1>3, <1>4, BeginGood, SearchGood, CheckPortGood, ReadDoneGood, ConfirmGood,
       EnterBootloaderGood, RebootGood, LoadGood, VerifyGood, SaveRangeGood
    DEF AccessNext

\* Whatever is plugged in where, no other unit carries out a command of the
\* installer, and nothing is loaded, in the update or in a rollback, before every
\* range of the backup is from one state of the flash (firmware_install.py:433-704);
\* for every number of ranges, of units plugged in and of changes to a flash.
THEOREM PinnedAlways == AccessSpec => []PinnedOnly
  <1>1. IInv => PinnedOnly
    BY Under DEF IInv, BackupKept, OnlyMine, PinnedOnly, Uniform
  <1>. QED
    BY <1>1, InitGood, StepGood, PTL DEF AccessSpec

\* Every variable of the installer's access keeps its type: a round never passes its
\* last operation, and a backup never has more than its ranges.
THEOREM AccessTypeCorrect == AccessSpec => []AccessTypeOK
  <1>1. IInv => AccessTypeOK
    BY DEF IInv
  <1>. QED
    BY <1>1, InitGood, StepGood, PTL DEF AccessSpec
-----------------------------------------------------------------------------
(* The clients of the hub: the invariant.                                  *)

\* What is on its way to a client whose pump holds p and whose queue is q.
StreamOf(p, q) == IF p \in Items THEN <<p>> \o q ELSE q

IsLine(x) == x[1] = "line"

\* No line of t is strictly between two places.
Quiet(t, j, i) == \A k \in 1 .. Len(t) : j < k /\ k < i => ~IsLine(t[k])

\* A line follows the one before it, of the stream t or among what the client has seen (s);
\* or the client is told of a lost link and of a new one between them.
FromLine(t, i) ==
  \E j \in 1 .. Len(t) : j < i /\ IsLine(t[j]) /\ t[i][2] = t[j][2] + 1 /\ Quiet(t, j, i)
FromSeen(t, i, s) == Quiet(t, 0, i) /\ t[i][2] = s.last + 1
Parted(t, i) ==
  \E j, k \in 1 .. Len(t) : j < k /\ k < i /\ t[j] = Down /\ t[k] = Up /\ Quiet(t, j, i)
PartedBy(t, i, s) ==
  /\ Quiet(t, 0, i)
  /\ \/ s.told = "both"
     \/ s.told = "down" /\ \E k \in 1 .. Len(t) : k < i /\ t[k] = Up
Follows(t, i, s) == FromLine(t, i) \/ FromSeen(t, i, s) \/ Parted(t, i) \/ PartedBy(t, i, s)
AllFollow(t, s) == \A i \in 1 .. Len(t) : IsLine(t[i]) => Follows(t, i, s)

\* So does every line of the stream, and the line n that would come next.
Coherent(stream, n, s) == AllFollow(Append(stream, Numbered(n)), s)

NumberedStreams ==
  \A c \in Stage : c \notin shut \cup left =>
    Coherent(StreamOf(pump[c], queue[c]), offered[c] + 1, seen[c])

\* Only a session that is read is subscribed, and before it there is no stream.
SubscribersInv ==
  /\ \A c \in subs : handler[c] = "reading"
  /\ \A c \in Clients : handler[c] = "away" => queue[c] = <<>> /\ pump[c] = Ended

\* The link posts nothing while something is posted, and the stop of the hub once more.
PostedInv == run \notin {"waiting", "leaving", "ended"} => Len(posted) <= 1

Told == {"none", "down", "both"}
Holdings == (Items \ {Close}) \cup {Waiting, Ended}

\* The two halves of SessionsTypeOK.
SimplyTyped ==
  /\ run \in Starting \cup {"serving", "draining", "waiting", "leaving", "ended"}
  /\ sockets \subseteq Starting \cup {"closing udp"}
  /\ {working, up} \subseteq BOOLEAN
  /\ posted \in Seq(BOOLEAN) /\ Len(posted) <= 2 /\ moves \in 0 .. MaxMoves
  /\ knows \subseteq Raw
  /\ handler \in [Clients -> {"away", "reading", "closing", "gone"}]
  /\ subs \subseteq Clients /\ {unsent, shut, left} \subseteq SUBSET Clients

StreamsTyped ==
  /\ queue \in [Clients -> Seq(Items)] /\ (\A c \in Clients : Len(queue[c]) <= QueueMax)
  /\ pump \in [Clients -> Holdings]
  /\ offered \in [Clients -> 0 .. MaxLines]
  /\ seen \in [Clients -> [last : 0 .. MaxLines, told : Told]]

SessionsInv == SimplyTyped /\ StreamsTyped /\ SubscribersInv /\ PostedInv /\ NumberedStreams

-----------------------------------------------------------------------------
(* The clients of the hub: streams.                                        *)

Things == Items \cup {Numbered(n) : n \in Nat}
Views == [last : Nat, told : Told]

LEMMA ItemsAre ==
  /\ Up \in Items /\ Down \in Items /\ Close \in Items
  /\ \A n \in 1 .. MaxLines : Numbered(n) \in Items
  /\ Up # Down /\ Up # Close /\ Down # Close /\ ~IsLine(Up) /\ ~IsLine(Down) /\ ~IsLine(Close)
  /\ \A n : IsLine(Numbered(n)) /\ Numbered(n)[2] = n
  /\ \A x \in Items : IsLine(x) \/ x = Up \/ x = Down \/ x = Close
  /\ Waiting \notin Items /\ Ended \notin Items
BY DEF Items, Up, Down, Close, Numbered, IsLine, Waiting, Ended

\* Whether a line follows is up to what is before it.
LEMMA FollowsAlike ==
  ASSUME NEW t \in Seq(Things), NEW u \in Seq(Things), NEW s,
         NEW i \in 1 .. Len(t), i <= Len(u), \A k \in 1 .. i : u[k] = t[k], Follows(t, i, s)
  PROVE  Follows(u, i, s)
<1>1. Len(t) \in Nat /\ Len(u) \in Nat /\ i <= Len(u) /\ (\A k \in 1 .. i : u[k] = t[k])
  BY LenProperties
<1>2. \A j \in 0 .. Len(t) : Quiet(t, j, i) => Quiet(u, j, i)
  BY ONLY <1>1, i \in 1 .. Len(t) DEF Quiet
<1>3. CASE FromLine(t, i)
  <2>1. PICK j \in 1 .. Len(t) : j < i /\ IsLine(t[j]) /\ t[i][2] = t[j][2] + 1 /\ Quiet(t, j, i)
    BY <1>3 DEF FromLine
  <2>2. j \in 1 .. Len(u) /\ j < i /\ IsLine(u[j]) /\ u[i][2] = u[j][2] + 1 /\ Quiet(u, j, i)
    BY <1>1, <1>2, <2>1
  <2>3. QED
    BY ONLY <2>2 DEF FromLine, Follows
<1>4. CASE FromSeen(t, i, s)
  BY <1>1, <1>2, <1>4 DEF FromSeen, Follows
<1>5. CASE Parted(t, i)
  <2>1. PICK j \in 1 .. Len(t), k \in 1 .. Len(t) :
          j < k /\ k < i /\ t[j] = Down /\ t[k] = Up /\ Quiet(t, j, i)
    BY <1>5 DEF Parted
  <2>2. /\ j \in 1 .. Len(u) /\ k \in 1 .. Len(u) /\ j < k /\ k < i
        /\ u[j] = Down /\ u[k] = Up /\ Quiet(u, j, i)
    BY <1>1, <1>2, <2>1
  <2>3. QED
    BY ONLY <2>2 DEF Parted, Follows
<1>6. CASE PartedBy(t, i, s)
  <2>1. Quiet(u, 0, i)
    BY <1>1, <1>2, <1>6 DEF PartedBy
  <2>2. CASE s.told = "both"
    BY <2>1, <2>2 DEF PartedBy, Follows
  <2>3. CASE s.told = "down" /\ \E k \in 1 .. Len(t) : k < i /\ t[k] = Up
    <3>1. PICK k \in 1 .. Len(t) : k < i /\ t[k] = Up
      BY <2>3
    <3>2. k \in 1 .. Len(u) /\ k < i /\ u[k] = Up
      BY <1>1, <3>1
    <3>3. QED
      BY ONLY <2>1, <2>3, <3>2 DEF PartedBy, Follows
  <2>4. QED
    BY <1>6, <2>2, <2>3 DEF PartedBy
<1>7. QED
  BY <1>3, <1>4, <1>5, <1>6 DEF Follows

\* Append, with what matters of it here.
LEMMA Appended ==
  ASSUME NEW t \in Seq(Things), NEW x \in Things
  PROVE  /\ Append(t, x) \in Seq(Things) /\ Len(Append(t, x)) = Len(t) + 1 /\ Len(t) \in Nat
         /\ Append(t, x)[Len(t) + 1] = x
         /\ \A i \in 1 .. Len(t) : Append(t, x)[i] = t[i]
<1>1. Len(t) \in Nat
  BY LenProperties
<1>2. QED
  BY ONLY <1>1, t \in Seq(Things), x \in Things, AppendProperties

\* One more item comes, and if it is a line it follows.
LEMMA OneMore ==
  ASSUME NEW t \in Seq(Things), NEW x \in Things, NEW s, AllFollow(t, s),
         IsLine(x) => Follows(Append(t, x), Len(t) + 1, s)
  PROVE  AllFollow(Append(t, x), s)
<1> DEFINE u == Append(t, x)
<1>1. /\ u \in Seq(Things) /\ Len(u) = Len(t) + 1 /\ Len(t) \in Nat /\ u[Len(t) + 1] = x
      /\ \A i \in 1 .. Len(t) : u[i] = t[i]
  BY Appended
<1>2. IsLine(x) => Follows(u, Len(t) + 1, s)
  OBVIOUS
<1> HIDE DEF u
<1>3. ASSUME NEW i \in 1 .. Len(u), IsLine(u[i]) PROVE Follows(u, i, s)
  <2>1. CASE i = Len(t) + 1
    BY <1>1, <1>2, <1>3, <2>1
  <2>2. CASE i \in 1 .. Len(t)
    <3>1. Follows(t, i, s)
      BY <1>1, <1>3, <2>2 DEF AllFollow
    <3>2. i <= Len(u) /\ \A k \in 1 .. i : u[k] = t[k]
      BY ONLY <1>1, <2>2
    <3>3. QED
      BY <1>1, <2>2, <3>1, <3>2, FollowsAlike
  <2>3. QED
    BY <1>1, <2>1, <2>2
<1>4. QED
  BY <1>3 DEF AllFollow, u

\* What begins a stream follows as well.
LEMMA Beginning ==
  ASSUME NEW t \in Seq(Things), NEW u \in Seq(Things), NEW s, AllFollow(u, s),
         Len(t) <= Len(u), \A k \in 1 .. Len(t) : u[k] = t[k]
  PROVE  AllFollow(t, s)
<1>1. Len(t) \in Nat /\ Len(u) \in Nat
  BY LenProperties
<1>2. ASSUME NEW i \in 1 .. Len(t), IsLine(t[i]) PROVE Follows(t, i, s)
  <2>1. i \in 1 .. Len(u) /\ IsLine(u[i]) /\ \A k \in 1 .. i : t[k] = u[k]
    BY <1>1, <1>2
  <2>2. Follows(u, i, s)
    BY <2>1 DEF AllFollow
  <2>3. i <= Len(t)
    BY <1>1
  <2>4. QED
    BY <2>1, <2>2, <2>3, FollowsAlike
<1>3. QED
  BY <1>2 DEF AllFollow

LEMMA OneLess ==
  ASSUME NEW t \in Seq(Things), NEW x \in Things, NEW s, AllFollow(Append(t, x), s)
  PROVE  AllFollow(t, s)
<1>1. /\ Append(t, x) \in Seq(Things) /\ Len(t) <= Len(Append(t, x))
      /\ \A k \in 1 .. Len(t) : Append(t, x)[k] = t[k]
  BY Appended
<1>2. QED
  BY <1>1, Beginning

\* The line that would come next comes.
LEMMA NextLineComes ==
  ASSUME NEW q \in Seq(Things), NEW n \in Nat, NEW s, Coherent(q, n, s)
  PROVE  Coherent(Append(q, Numbered(n)), n + 1, s)
<1> DEFINE t == Append(q, Numbered(n))
           u == Append(t, Numbered(n + 1))
           m == Len(q) + 1
<1>1. Numbered(n) \in Things /\ Numbered(n + 1) \in Things
  BY DEF Things
<1>2. t \in Seq(Things) /\ Len(t) = m /\ t[m] = Numbered(n) /\ m \in Nat /\ m > 0
  BY <1>1, Appended
<1>3. AllFollow(t, s)
  BY DEF Coherent
<1> HIDE DEF t, m
<1>4. Len(u) = m + 1 /\ u[m + 1] = Numbered(n + 1) /\ u[m] = t[m]
  BY <1>1, <1>2, Appended
<1> HIDE DEF u
<1>5. Follows(u, m + 1, s)
  <2>1. m \in 1 .. Len(u) /\ m < m + 1
    BY <1>2, <1>4
  <2>2. IsLine(u[m]) /\ u[m + 1][2] = u[m][2] + 1
    BY <1>2, <1>4, ItemsAre
  <2>3. Quiet(u, m, m + 1)
    BY <1>2, <1>4 DEF Quiet
  <2>4. QED
    BY ONLY <2>1, <2>2, <2>3 DEF Follows, FromLine
<1>6. AllFollow(u, s)
  BY <1>1, <1>2, <1>3, <1>5, OneMore DEF u
<1>7. QED
  BY <1>6 DEF Coherent, u, t

\* A status or the end comes before it.
LEMMA OtherComes ==
  ASSUME NEW q \in Seq(Things), NEW n \in Nat, NEW s, Coherent(q, n, s),
         NEW x \in Things, ~IsLine(x)
  PROVE  Coherent(Append(q, x), n, s)
<1> DEFINE t == Append(q, Numbered(n))
           v == Append(q, x)
           u == Append(v, Numbered(n))
           m == Len(q) + 1
<1>1. Numbered(n) \in Things /\ IsLine(Numbered(n))
  BY ItemsAre DEF Things
<1>2. /\ t \in Seq(Things) /\ Len(t) = m /\ t[m] = Numbered(n) /\ m \in Nat /\ m > 0
      /\ \A i \in 1 .. Len(q) : t[i] = q[i]
  BY <1>1, Appended
<1>3. v \in Seq(Things) /\ Len(v) = m /\ v[m] = x /\ \A i \in 1 .. Len(q) : v[i] = q[i]
  BY Appended
<1> HIDE DEF v, t
<1>4. /\ u \in Seq(Things) /\ Len(u) = m + 1 /\ u[m + 1] = Numbered(n)
      /\ u[m] = x /\ (\A i \in 1 .. Len(q) : u[i] = v[i])
  BY <1>1, <1>3, Appended
<1>5. \A i \in 1 .. Len(q) : u[i] = t[i]
  BY <1>2, <1>3, <1>4
<1>6. Len(q) \in Nat
  BY LenProperties
<1>7. Follows(t, m, s)
  BY <1>1, <1>2 DEF Coherent, AllFollow, t
<1> HIDE DEF u
<1>8. ASSUME NEW j \in 0 .. Len(q), Quiet(t, j, m) PROVE Quiet(u, j, m + 1)
  BY <1>2, <1>4, <1>5, <1>6, <1>8 DEF Quiet
<1>9. Follows(u, m + 1, s)
  <2>1. CASE FromLine(t, m)
    <3>1. PICK j \in 1 .. Len(t) : j < m /\ IsLine(t[j]) /\ t[m][2] = t[j][2] + 1 /\ Quiet(t, j, m)
      BY <2>1 DEF FromLine
    <3>2. j \in 1 .. Len(q) /\ j \in 0 .. Len(q) /\ j \in 1 .. Len(u) /\ j < m + 1
      BY <1>2, <1>4, <1>6, <3>1
    <3>3. IsLine(u[j]) /\ u[m + 1][2] = u[j][2] + 1 /\ Quiet(u, j, m + 1)
      BY <1>2, <1>4, <1>5, <1>8, <3>1, <3>2
    <3>4. QED
      BY ONLY <3>2, <3>3 DEF FromLine, Follows
  <2>2. CASE FromSeen(t, m, s)
    <3>1. Quiet(u, 0, m + 1)
      BY <1>6, <1>8, <2>2 DEF FromSeen
    <3>2. QED
      BY <1>2, <1>4, <2>2, <3>1 DEF FromSeen, Follows
  <2>3. CASE Parted(t, m)
    <3>1. PICK j \in 1 .. Len(t), k \in 1 .. Len(t) :
            j < k /\ k < m /\ t[j] = Down /\ t[k] = Up /\ Quiet(t, j, m)
      BY <2>3 DEF Parted
    <3>2. /\ j \in 1 .. Len(q) /\ k \in 1 .. Len(q) /\ j \in 0 .. Len(q)
          /\ j \in 1 .. Len(u) /\ k \in 1 .. Len(u) /\ j < k /\ k < m + 1
      BY <1>2, <1>4, <1>6, <3>1
    <3>3. u[j] = Down /\ u[k] = Up /\ Quiet(u, j, m + 1)
      BY <1>5, <1>8, <3>1, <3>2
    <3>4. QED
      BY ONLY <3>2, <3>3 DEF Parted, Follows
  <2>4. CASE PartedBy(t, m, s)
    <3>1. Quiet(u, 0, m + 1)
      BY <1>6, <1>8, <2>4 DEF PartedBy
    <3>2. CASE s.told = "both"
      BY <3>1, <3>2 DEF PartedBy, Follows
    <3>3. CASE s.told = "down" /\ \E k \in 1 .. Len(t) : k < m /\ t[k] = Up
      <4>1. PICK k \in 1 .. Len(t) : k < m /\ t[k] = Up
        BY <3>3
      <4>2. k \in 1 .. Len(u) /\ k < m + 1 /\ u[k] = Up
        BY <1>2, <1>4, <1>5, <1>6, <4>1
      <4>3. QED
        BY ONLY <3>1, <3>3, <4>2 DEF PartedBy, Follows
    <3>4. QED
      BY <2>4, <3>2, <3>3 DEF PartedBy
  <2>5. QED
    BY <1>7, <2>1, <2>2, <2>3, <2>4 DEF Follows
<1>10. AllFollow(q, s)
  BY <1>1, OneLess DEF Coherent
<1>11. AllFollow(v, s)
  BY <1>10, OneMore DEF v
<1>12. AllFollow(u, s)
  BY <1>1, <1>3, <1>9, <1>11, OneMore DEF u
<1>13. QED
  BY <1>12 DEF Coherent, u, v

\* A lost link and a new one come: what comes next may have any number.
LEMMA LinkLostAndBack ==
  ASSUME NEW q \in Seq(Things), NEW n \in Nat, NEW s, AllFollow(q, s)
  PROVE  Coherent(Append(Append(q, Down), Up), n, s)
<1> DEFINE t == Append(q, Down)
           u == Append(t, Up)
           v == Append(u, Numbered(n))
           m == Len(q) + 1
<1>1. /\ Down \in Things /\ Up \in Things /\ Numbered(n) \in Things
      /\ ~IsLine(Down) /\ ~IsLine(Up) /\ IsLine(Numbered(n))
  BY ItemsAre DEF Things
<1>2. t \in Seq(Things) /\ Len(t) = m /\ t[m] = Down /\ m \in Nat /\ m > 0
  BY <1>1, Appended
<1>3. AllFollow(t, s)
  BY <1>1, OneMore
<1> HIDE DEF t, m
<1>4. u \in Seq(Things) /\ Len(u) = m + 1 /\ u[m + 1] = Up /\ u[m] = Down
  BY <1>1, <1>2, Appended
<1>5. AllFollow(u, s)
  BY <1>1, <1>2, <1>3, OneMore
<1> HIDE DEF u
<1>6. Len(v) = m + 2 /\ v[m + 2] = Numbered(n) /\ v[m + 1] = Up /\ v[m] = Down
  BY <1>1, <1>2, <1>4, Appended
<1> HIDE DEF v
<1>7. Follows(v, m + 2, s)
  <2>1. m \in 1 .. Len(v) /\ m + 1 \in 1 .. Len(v) /\ m < m + 1 /\ m + 1 < m + 2
    BY <1>2, <1>6
  <2>2. Quiet(v, m, m + 2)
    BY <1>1, <1>2, <1>6 DEF Quiet
  <2>3. QED
    BY ONLY <1>6, <2>1, <2>2 DEF Follows, Parted
<1>8. AllFollow(v, s)
  BY <1>1, <1>2, <1>4, <1>5, <1>7, OneMore DEF v
<1>9. QED
  BY <1>8 DEF Coherent, v, u, t

\* What the status after the last line becomes.
LEMMA TellsAfter ==
  ASSUME NEW s \in Views, NEW x \in Things, ~IsLine(x)
  PROVE  /\ SeenAfter(s, x) \in Views /\ SeenAfter(s, x).last = s.last
         /\ x = Down => SeenAfter(s, x).told \in {"down", "both"}
         /\ s.told = "both" => SeenAfter(s, x).told = "both"
         /\ s.told = "down" => SeenAfter(s, x).told = IF x = Up THEN "both" ELSE "down"
<1>1. Up # Down
  BY ItemsAre
<1>2. ToldAfter(s.told, x) \in Told
  BY <1>1 DEF ToldAfter, Told, Views
<1>3. SeenAfter(s, x) = [s EXCEPT !.told = ToldAfter(s.told, x)]
  BY DEF SeenAfter, IsLine
<1>4. /\ x = Down => ToldAfter(s.told, x) \in {"down", "both"}
      /\ s.told = "both" => ToldAfter(s.told, x) = "both"
      /\ s.told = "down" => ToldAfter(s.told, x) = IF x = Up THEN "both" ELSE "down"
  BY <1>1 DEF ToldAfter, Told, Views
<1>5. QED
  BY <1>2, <1>3, <1>4 DEF Views

\* The first item goes: it is seen.
LEMMA FirstGoes ==
  ASSUME NEW u \in Seq(Things), Len(u) > 0, NEW s \in Views, AllFollow(u, s)
  PROVE  AllFollow(Tail(u), SeenAfter(s, u[1]))
<1> DEFINE t == Tail(u)
           r == SeenAfter(s, u[1])
<1>1. /\ t \in Seq(Things) /\ Len(t) = Len(u) - 1 /\ Len(u) \in Nat /\ u[1] \in Things
      /\ \A i \in 1 .. Len(t) : t[i] = u[i + 1]
  <2>1. u # <<>> /\ Len(u) \in Nat
    BY LenProperties, EmptySeq
  <2>2. QED
    BY <2>1, HeadTailProperties, ElementOfSeq
<1>2. IsLine(u[1]) => r.last = u[1][2]
  BY DEF SeenAfter, IsLine
<1>3. ~IsLine(u[1]) =>
        /\ r.last = s.last
        /\ u[1] = Down => r.told \in {"down", "both"}
        /\ s.told = "both" => r.told = "both"
        /\ s.told = "down" => r.told = IF u[1] = Up THEN "both" ELSE "down"
  BY <1>1, TellsAfter
<1> HIDE DEF t, r
<1>4. ASSUME NEW i \in 1 .. Len(t), NEW j \in 1 .. Len(u), Quiet(u, j, i + 1)
      PROVE  Quiet(t, j - 1, i)
  <2> SUFFICES ASSUME NEW k \in 1 .. Len(t), j - 1 < k, k < i PROVE ~IsLine(t[k])
    BY DEF Quiet
  <2>1. k + 1 \in 1 .. Len(u) /\ j < k + 1 /\ k + 1 < i + 1 /\ t[k] = u[k + 1]
    BY <1>1
  <2>2. ~IsLine(u[k + 1])
    BY <1>4, <2>1 DEF Quiet
  <2>3. QED
    BY <2>1, <2>2
<1>5. ASSUME NEW i \in 1 .. Len(t), Quiet(u, 0, i + 1)
      PROVE  ~IsLine(u[1]) /\ Quiet(t, 0, i)
  BY <1>1, <1>5 DEF Quiet
<1>6. ASSUME NEW i \in 1 .. Len(t), IsLine(t[i]) PROVE Follows(t, i, r)
  <2>1. i + 1 \in 1 .. Len(u) /\ u[i + 1] = t[i] /\ i \in Nat /\ i > 0
    BY <1>1
  <2>2. Follows(u, i + 1, s)
    BY <1>6, <2>1 DEF AllFollow
  <2>3. CASE FromLine(u, i + 1)
    <3>1. PICK j \in 1 .. Len(u) :
            j < i + 1 /\ IsLine(u[j]) /\ u[i + 1][2] = u[j][2] + 1 /\ Quiet(u, j, i + 1)
      BY <2>3 DEF FromLine
    <3>2. Quiet(t, j - 1, i)
      BY <1>4, <3>1
    <3>3. CASE j = 1
      <4>1. Quiet(t, 0, i) /\ t[i][2] = r.last + 1
        BY <1>2, <2>1, <3>1, <3>2, <3>3
      <4>2. QED
        BY <4>1 DEF Follows, FromSeen
    <3>4. CASE j > 1
      <4>1. j - 1 \in 1 .. Len(t) /\ j - 1 < i /\ t[j - 1] = u[j]
        BY <1>1, <2>1, <3>1, <3>4
      <4>2. QED
        BY <2>1, <3>1, <3>2, <4>1 DEF Follows, FromLine
    <3>5. QED
      BY <3>3, <3>4
  <2>4. CASE FromSeen(u, i + 1, s)
    BY <1>3, <1>5, <2>1, <2>4 DEF Follows, FromSeen
  <2>5. CASE Parted(u, i + 1)
    <3>1. PICK j \in 1 .. Len(u), k \in 1 .. Len(u) :
            j < k /\ k < i + 1 /\ u[j] = Down /\ u[k] = Up /\ Quiet(u, j, i + 1)
      BY <2>5 DEF Parted
    <3>2. k - 1 \in 1 .. Len(t) /\ k - 1 < i /\ t[k - 1] = Up /\ Quiet(t, j - 1, i)
      BY <1>1, <1>4, <2>1, <3>1
    <3>3. CASE j = 1
      <4>1. Quiet(t, 0, i) /\ r.told \in {"down", "both"}
        BY <1>3, <3>1, <3>2, <3>3, ItemsAre
      <4>2. QED
        BY ONLY <3>2, <4>1 DEF Follows, PartedBy
    <3>4. CASE j > 1
      <4>1. j - 1 \in 1 .. Len(t) /\ j - 1 < k - 1 /\ t[j - 1] = Down
        BY <1>1, <2>1, <3>1, <3>4
      <4>2. QED
        BY ONLY <3>2, <4>1 DEF Follows, Parted
    <3>5. QED
      BY <3>3, <3>4
  <2>6. CASE PartedBy(u, i + 1, s)
    <3>1. ~IsLine(u[1]) /\ Quiet(t, 0, i)
      BY <1>5, <2>6 DEF PartedBy
    <3>2. CASE s.told = "both"
      BY <1>3, <3>1, <3>2 DEF Follows, PartedBy
    <3>3. CASE s.told = "down" /\ \E k \in 1 .. Len(u) : k < i + 1 /\ u[k] = Up
      <4>1. PICK k \in 1 .. Len(u) : k < i + 1 /\ u[k] = Up
        BY <3>3
      <4>2. CASE u[1] = Up
        BY <1>3, <3>1, <3>3, <4>2 DEF Follows, PartedBy
      <4>3. CASE u[1] # Up
        <5>1. k - 1 \in 1 .. Len(t) /\ k - 1 < i /\ t[k - 1] = Up /\ r.told = "down"
          BY <1>1, <1>3, <2>1, <3>1, <3>3, <4>1, <4>3
        <5>2. QED
          BY ONLY <3>1, <5>1 DEF Follows, PartedBy
      <4>4. QED
        BY <4>2, <4>3
    <3>4. QED
      BY <2>6, <3>2, <3>3 DEF PartedBy
  <2>7. QED
    BY <2>2, <2>3, <2>4, <2>5, <2>6 DEF Follows
<1>7. QED
  BY <1>6 DEF AllFollow, t, r

LEMMA FirstOfStreamGoes ==
  ASSUME NEW q \in Seq(Things), q # <<>>, NEW n \in Nat, NEW s \in Views, Coherent(q, n, s)
  PROVE  Coherent(Tail(q), n, SeenAfter(s, q[1]))
<1> DEFINE u == Append(q, Numbered(n))
<1>1. Numbered(n) \in Things
  BY DEF Things
<1>2. u \in Seq(Things) /\ Len(u) > 0 /\ u[1] = q[1]
  <2>1. Len(q) \in Nat /\ Len(q) > 0
    BY LenProperties, EmptySeq
  <2>2. QED
    BY <1>1, <2>1, Appended
<1>3. Tail(u) = Append(Tail(q), Numbered(n))
  BY <1>1
<1>4. AllFollow(u, s)
  BY DEF Coherent
<1> HIDE DEF u
<1>5. AllFollow(Tail(u), SeenAfter(s, u[1]))
  BY ONLY <1>2, <1>4, s \in Views, FirstGoes
<1>6. QED
  BY ONLY <1>2, <1>3, <1>5 DEF Coherent

-----------------------------------------------------------------------------
(* The clients of the hub: what is on its way to one of them.              *)

LEMMA StreamIs ==
  ASSUME NEW p, NEW q \in Seq(Things)
  PROVE  /\ StreamOf(p, q) \in Seq(Things)
         /\ \A x \in Things : StreamOf(p, Append(q, x)) = Append(StreamOf(p, q), x)
         /\ p \in Items =>
              StreamOf(p, q) # <<>> /\ StreamOf(p, q)[1] = p /\ Tail(StreamOf(p, q)) = q
         /\ p \notin Items => StreamOf(p, q) = q
<1>1. CASE p \in Items
  <2>1. p \in Things
    BY <1>1 DEF Things
  <2> DEFINE t == <<p>> \o q
  <2>2. t \in Seq(Things) /\ Len(t) = Len(q) + 1 /\ t[1] = p
    BY <2>1
  <2>3. \A x \in Things : <<p>> \o Append(q, x) = Append(t, x)
    BY <2>1
  <2>4. Tail(t) = q
    BY <2>1
  <2>5. t # <<>>
    BY <2>2
  <2>6. StreamOf(p, q) = t /\ \A x \in Things : StreamOf(p, Append(q, x)) = <<p>> \o Append(q, x)
    BY ONLY <1>1, Zenon DEF StreamOf
  <2> HIDE DEF t
  <2>7. \A x \in Things : StreamOf(p, Append(q, x)) = Append(t, x)
    BY ONLY <2>3, <2>6, Zenon
  <2>8. QED
    BY ONLY <1>1, <2>2, <2>4, <2>5, <2>6, <2>7, Zenon
<1>2. CASE p \notin Items
  BY <1>2 DEF StreamOf
<1>3. QED
  BY <1>1, <1>2

\* What the pump holds goes first, so it follows whatever is behind it.
LEMMA HeldFollows ==
  ASSUME NEW p, NEW q \in Seq(Things), NEW s, AllFollow(StreamOf(p, q), s)
  PROVE  AllFollow(StreamOf(p, <<>>), s)
<1>1. <<>> \in Seq(Things)
  OBVIOUS
<1>2. StreamOf(p, <<>>) \in Seq(Things) /\ StreamOf(p, q) \in Seq(Things)
  BY <1>1, StreamIs
<1>3. CASE p \in Items
  <2>1. p \in Things
    BY <1>3 DEF Things
  <2>2. StreamOf(p, <<>>) = <<p>> \o <<>> /\ StreamOf(p, q) = <<p>> \o q
    BY <1>3 DEF StreamOf
  <2>3. Len(StreamOf(p, <<>>)) = 1 /\ StreamOf(p, <<>>)[1] = p
    BY <2>1, <2>2
  <2>4. Len(StreamOf(p, q)) = Len(q) + 1 /\ StreamOf(p, q)[1] = p /\ Len(q) \in Nat
    BY <2>1, <2>2
  <2>5. QED
    BY <1>2, <2>3, <2>4, Beginning
<1>4. CASE p \notin Items
  <2>1. StreamOf(p, <<>>) = <<>>
    BY <1>4 DEF StreamOf
  <2>2. QED
    BY <2>1 DEF AllFollow
<1>5. QED
  BY <1>3, <1>4

\* What the hub offers a Stage client keeps its stream coherent, also when its queue is full.
LEMMA OfferedFollows ==
  ASSUME NEW c \in Stage, queue[c] \in Seq(Things), NEW n \in Nat, NEW s,
         Coherent(StreamOf(pump[c], queue[c]), n, s)
  PROVE  /\ Coherent(StreamOf(pump[c], Offered(c, Numbered(n))), n + 1, s)
         /\ \A x \in Things : ~IsLine(x) => Coherent(StreamOf(pump[c], Offered(c, x)), n, s)
<1> DEFINE t == StreamOf(pump[c], queue[c])
           nil == <<>>
           none == StreamOf(pump[c], nil)
           u == Append(Append(none, Down), Up)
<1>1. Numbered(n) \in Things /\ Down \in Things /\ Up \in Things /\ nil \in Seq(Things)
  BY ItemsAre DEF Things
<1>2. t \in Seq(Things) /\ none \in Seq(Things)
  BY <1>1, StreamIs
<1>3. CASE ~Full(c)
  <2>1. \A x \in Things : StreamOf(pump[c], Offered(c, x)) = Append(t, x)
    BY <1>3, StreamIs DEF Offered
  <2>2. QED
    BY <1>1, <1>2, <2>1, NextLineComes, OtherComes
<1>4. CASE Full(c)
  <2>1. AllFollow(t, s)
    BY <1>1, <1>2, OneLess DEF Coherent
  <2>2. AllFollow(none, s)
    BY <2>1, HeldFollows
  <2> HIDE DEF nil
  <2>3. u \in Seq(Things) /\ Coherent(u, n, s)
    BY <1>1, <1>2, <2>2, LinkLostAndBack
  <2>4. ASSUME NEW x \in Things
        PROVE  StreamOf(pump[c], Offered(c, x)) = Append(u, x)
    <3> DEFINE one == Append(nil, Down)
               two == Append(one, Up)
    <3>1. Offered(c, x) = Append(two, x)
      BY <1>4 DEF Offered, nil
    <3>2. one \in Seq(Things) /\ StreamOf(pump[c], one) = Append(none, Down)
      BY <1>1, StreamIs
    <3> HIDE DEF one
    <3>3. two \in Seq(Things) /\ StreamOf(pump[c], two) = Append(StreamOf(pump[c], one), Up)
      BY <1>1, <3>2, StreamIs
    <3> HIDE DEF two
    <3>4. StreamOf(pump[c], Append(two, x)) = Append(StreamOf(pump[c], two), x)
      BY <3>3, StreamIs
    <3>5. QED
      BY <3>1, <3>2, <3>3, <3>4
  <2>5. QED
    BY <1>1, <2>3, <2>4, NextLineComes, OtherComes
<1>5. QED
  BY <1>3, <1>4

\* The queues keep their bound.
LEMMA QueuesBounded ==
  ASSUME NEW c \in Clients, queue[c] \in Seq(Items), Len(queue[c]) <= QueueMax,
         NEW x \in Items
  PROVE  /\ Offered(c, x) \in Seq(Items) /\ Len(Offered(c, x)) <= QueueMax
         /\ ~Full(c) => Append(queue[c], x) \in Seq(Items) /\ Len(Append(queue[c], x)) <= QueueMax
<1>1. QueueMax \in Nat /\ QueueMax >= 3 /\ Len(queue[c]) \in Nat /\ Down \in Items /\ Up \in Items
  BY LenProperties, ItemsAre, SessionsAssumption
<1>2. Append(queue[c], x) \in Seq(Items) /\ Len(Append(queue[c], x)) = Len(queue[c]) + 1
  OBVIOUS
<1>3. <<Down, Up, x>> \in Seq(Items) /\ Len(<<Down, Up, x>>) = 3
  BY <1>1
<1>4. ~Full(c) => Len(queue[c]) + 1 <= QueueMax
  BY <1>1 DEF Full
<1>5. CASE ~Full(c)
  BY <1>2, <1>4, <1>5 DEF Offered
<1>6. CASE Full(c) /\ c \in Stage
  BY <1>1, <1>3, <1>6 DEF Offered
<1>7. CASE Full(c) /\ c \notin Stage
  <2>1. queue[c] # <<>>
    BY <1>1, <1>7 DEF Full
  <2>2. Tail(queue[c]) \in Seq(Items) /\ Len(Tail(queue[c])) = Len(queue[c]) - 1
    BY <2>1, HeadTailProperties
  <2>3. Append(Tail(queue[c]), x) \in Seq(Items) /\ Len(Append(Tail(queue[c]), x)) = Len(queue[c])
    BY <1>1, <2>2
  <2>4. QED
    BY <1>7, <2>3 DEF Offered
<1>8. QED
  BY <1>5, <1>6, <1>7

-----------------------------------------------------------------------------
(* The clients of the hub: the actions.                                    *)

LEMMA SessionsStart ==
  ASSUME SessionsInit
  PROVE  SessionsInv
<1>1. MaxLines \in Nat /\ MaxMoves \in Nat /\ QueueMax \in Nat
  BY SessionsAssumption
<1>2. PICK v \in Visits :
        /\ handler = [c \in Clients |-> IF c \in DOMAIN v THEN "away" ELSE "gone"]
        /\ offered = [c \in Clients |-> IF c \in DOMAIN v THEN v[c] ELSE 0]
  BY DEF SessionsInit
<1>3. v \in [DOMAIN v -> 0 .. MaxLines]
  BY SessionsAssumption
<1>4. offered \in [Clients -> 0 .. MaxLines]
  BY <1>1, <1>2, <1>3
<1>5. SimplyTyped
  <2>1. run \in Starting /\ {working, up} \subseteq BOOLEAN
    BY DEF SessionsInit, Starting, After
  <2>2. posted \in Seq(BOOLEAN) /\ Len(posted) <= 2 /\ moves \in 0 .. MaxMoves
    BY <1>1 DEF SessionsInit
  <2>3. handler \in [Clients -> {"away", "reading", "closing", "gone"}]
    BY <1>2
  <2>4. sockets = {} /\ knows \subseteq Raw /\ subs = {} /\ unsent = {} /\ shut = {} /\ left = {}
    BY DEF SessionsInit
  <2>5. QED
    BY <2>1, <2>2, <2>3, <2>4 DEF SimplyTyped
<1>6. queue \in [Clients -> Seq(Items)] /\ \A c \in Clients : queue[c] = <<>> /\ pump[c] = Ended
  BY DEF SessionsInit
<1>7. StreamsTyped
  <2>1. \A c \in Clients : Len(queue[c]) <= QueueMax
    BY <1>1, <1>6
  <2>2. pump \in [Clients -> Holdings]
    BY DEF SessionsInit, Holdings
  <2>3. seen \in [Clients -> [last : 0 .. MaxLines, told : Told]]
    BY <1>4 DEF SessionsInit, Told
  <2>4. QED
    BY <1>4, <1>6, <2>1, <2>2, <2>3 DEF StreamsTyped
<1>8. SubscribersInv
  BY <1>6 DEF SessionsInit, SubscribersInv
<1>9. PostedInv
  BY DEF SessionsInit, PostedInv
<1>10. NumberedStreams
  <2>1. ASSUME NEW c \in Stage
        PROVE  Coherent(StreamOf(pump[c], queue[c]), offered[c] + 1, seen[c])
    <3> DEFINE n == offered[c] + 1
               t == Append(<<>>, Numbered(n))
    <3>1. c \in Clients
      BY DEF Clients
    <3>2. StreamOf(pump[c], queue[c]) = <<>>
      BY <1>6, <3>1, ItemsAre DEF StreamOf
    <3>3. seen[c].last = offered[c] /\ offered[c] \in Nat
      BY <1>1, <1>4, <3>1 DEF SessionsInit
    <3>4. Numbered(n) \in Things /\ <<>> \in Seq(Things) /\ Len(<<>>) = 0
      BY <3>3 DEF Things
    <3>5. Len(t) = 1 /\ t[1] = Numbered(n)
      BY <3>4
    <3> HIDE DEF t
    <3>6. Follows(t, 1, seen[c])
      BY <3>3, <3>5, ItemsAre DEF Follows, FromSeen, Quiet
    <3>7. AllFollow(t, seen[c])
      BY <3>5, <3>6 DEF AllFollow
    <3>8. QED
      BY <3>2, <3>7 DEF Coherent, t
  <2>2. QED
    BY <2>1 DEF NumberedStreams
<1>11. QED
  BY <1>5, <1>7, <1>8, <1>9, <1>10 DEF SessionsInv

\* A step that leaves the streams alone.
LEMMA StreamsStay ==
  ASSUME StreamsTyped, NumberedStreams, UNCHANGED <<queue, pump, offered, seen>>,
         shut \subseteq shut', left \subseteq left'
  PROVE  StreamsTyped' /\ NumberedStreams'
BY DEF StreamsTyped, NumberedStreams

\* A step in which the hub offers the clients of S one item each, and starts no pump for a line.
LEMMA StreamsGrow ==
  ASSUME StreamsTyped, NumberedStreams,
         NEW S \in SUBSET Clients, NEW items \in [Clients -> Items],
         queue' = [c \in Clients |-> IF c \in S THEN Offered(c, items[c]) ELSE queue[c]],
         \A c \in S : \/ IsLine(items[c]) /\ items[c] = Numbered(offered[c] + 1)
                         /\ offered'[c] = offered[c] + 1
                      \/ ~IsLine(items[c]) /\ offered'[c] = offered[c],
         \A c \in Clients \ S : offered'[c] = offered[c],
         offered' \in [Clients -> 0 .. MaxLines],
         pump' \in [Clients -> Holdings],
         \A c \in Clients : pump'[c] \in Items \/ pump[c] \in Items => pump'[c] = pump[c],
         UNCHANGED <<seen, shut, left>>
  PROVE  StreamsTyped' /\ NumberedStreams'
<1>1. queue' \in [Clients -> Seq(Items)] /\ \A c \in Clients : Len(queue'[c]) <= QueueMax
  <2>1. ASSUME NEW c \in Clients
        PROVE  queue'[c] \in Seq(Items) /\ Len(queue'[c]) <= QueueMax
    <3>1. queue[c] \in Seq(Items) /\ Len(queue[c]) <= QueueMax /\ items[c] \in Items
      BY DEF StreamsTyped
    <3>2. Offered(c, items[c]) \in Seq(Items) /\ Len(Offered(c, items[c])) <= QueueMax
      BY <3>1, QueuesBounded
    <3>3. queue'[c] = IF c \in S THEN Offered(c, items[c]) ELSE queue[c]
      OBVIOUS
    <3>4. QED
      BY <3>1, <3>2, <3>3
  <2>2. DOMAIN queue' = Clients /\ queue' = [c \in Clients |-> queue'[c]]
    OBVIOUS
  <2>3. QED
    BY <2>1, <2>2
<1>2. StreamsTyped'
  BY <1>1 DEF StreamsTyped
<1>3. ASSUME NEW c \in Stage, c \notin shut' \cup left'
      PROVE  Coherent(StreamOf(pump'[c], queue'[c]), offered'[c] + 1, seen'[c])
  <2> DEFINE n == offered[c] + 1
  <2>1. c \in Clients /\ n \in Nat /\ queue[c] \in Seq(Things)
    <3>1. c \in Clients /\ offered[c] \in 0 .. MaxLines /\ queue[c] \in Seq(Items)
      BY DEF StreamsTyped, Clients
    <3>2. Items \subseteq Things
      BY DEF Things
    <3>3. QED
      BY <3>1, <3>2
  <2>2. Coherent(StreamOf(pump[c], queue[c]), n, seen[c])
    BY <1>3 DEF NumberedStreams
  <2>3. StreamOf(pump'[c], queue'[c]) = StreamOf(pump[c], queue'[c]) /\ seen'[c] = seen[c]
    BY <2>1 DEF StreamOf
  <2>4. CASE c \notin S
    <3>1. queue'[c] = queue[c] /\ offered'[c] = offered[c]
      BY <2>1, <2>4
    <3>2. QED
      BY <2>2, <2>3, <3>1
  <2>5. CASE c \in S
    <3>1. queue'[c] = Offered(c, items[c])
      BY <2>1, <2>5
    <3>2. /\ Coherent(StreamOf(pump[c], Offered(c, Numbered(n))), n + 1, seen[c])
          /\ \A x \in Things : ~IsLine(x) => Coherent(StreamOf(pump[c], Offered(c, x)), n, seen[c])
      BY <2>1, <2>2, OfferedFollows
    <3>3. items[c] \in Things
      BY <2>1 DEF Things
    <3>4. QED
      BY <2>3, <2>5, <3>1, <3>2, <3>3
  <2>6. QED
    BY <2>4, <2>5
<1>4. NumberedStreams'
  BY <1>3 DEF NumberedStreams
<1>5. QED
  BY <1>2, <1>4

LEMMA LineKeeps ==
  ASSUME SessionsInv, Line
  PROVE  SessionsInv'
<1>1. SimplyTyped /\ StreamsTyped /\ SubscribersInv /\ PostedInv /\ NumberedStreams
  BY DEF SessionsInv
<1>2. PICK S \in {subs} \cup {{c} : c \in subs} :
        /\ \A c \in S : offered[c] < MaxLines
        /\ OfferTo(S, LAMBDA c : Numbered(offered[c] + 1))
        /\ offered' = [c \in Clients |-> IF c \in S THEN offered[c] + 1 ELSE offered[c]]
  BY DEF Line
<1>3. UNCHANGED <<hubVars, linkVars, clientVars, subs, pump, unsent, seen>>
  BY DEF Line
<1>4. S \subseteq subs /\ S \in SUBSET Clients /\ MaxLines \in Nat
  <2>1. S \subseteq subs
    BY <1>2
  <2>2. QED
    BY <1>1, <2>1, SessionsAssumption DEF SimplyTyped
<1>5. offered \in [Clients -> 0 .. MaxLines] /\ pump \in [Clients -> Holdings]
  BY <1>1 DEF StreamsTyped
<1>6. \A c \in S : offered[c] + 1 \in 1 .. MaxLines
  BY <1>2, <1>4, <1>5
<1> DEFINE items == [c \in Clients |-> IF c \in S THEN Numbered(offered[c] + 1) ELSE Up]
<1>7. items \in [Clients -> Items] /\ \A c \in S : items[c] = Numbered(offered[c] + 1)
  BY <1>4, <1>6, ItemsAre
<1>8. queue' = [c \in Clients |->
                  IF c \in S THEN Offered(c, Numbered(offered[c] + 1)) ELSE queue[c]]
  BY <1>2 DEF OfferTo
<1> HIDE DEF items
<1>9. queue' = [c \in Clients |-> IF c \in S THEN Offered(c, items[c]) ELSE queue[c]]
  BY <1>7, <1>8
<1>10. \A c \in S : IsLine(items[c]) /\ offered'[c] = offered[c] + 1
  BY <1>2, <1>4, <1>7, ItemsAre
<1>11. offered' \in [Clients -> 0 .. MaxLines] /\ \A c \in Clients \ S : offered'[c] = offered[c]
  BY <1>2, <1>4, <1>5, <1>6
<1>12. UNCHANGED <<seen, shut, left>> /\ pump' = pump
  BY <1>3 DEF clientVars
<1>13. StreamsTyped' /\ NumberedStreams'
  BY <1>1, <1>4, <1>5, <1>7, <1>9, <1>10, <1>11, <1>12, StreamsGrow
<1>14. SimplyTyped' /\ PostedInv'
  BY <1>1, <1>3 DEF SimplyTyped, PostedInv, hubVars, linkVars, clientVars
<1>15. SubscribersInv'
  <2>1. ASSUME NEW c \in Clients, handler[c] = "away" PROVE c \notin S
    BY <1>1, <1>4, <2>1 DEF SubscribersInv
  <2>2. \A c \in Clients : handler[c] = "away" => queue'[c] = queue[c]
    BY <1>8, <2>1
  <2>3. QED
    BY <1>1, <1>3, <2>2 DEF SubscribersInv, clientVars
<1>16. QED
  BY <1>13, <1>14, <1>15 DEF SessionsInv

LEMMA DispatchStatusKeeps ==
  ASSUME SessionsInv, DispatchStatus
  PROVE  SessionsInv'
<1>1. SimplyTyped /\ StreamsTyped /\ SubscribersInv /\ PostedInv /\ NumberedStreams
  BY DEF SessionsInv
<1>2. /\ posted # <<>> /\ posted' = Tail(posted)
      /\ OfferTo(subs \cap Stage, LAMBDA c : Status(Head(posted)))
      /\ UNCHANGED <<hubVars, up, moves, clientVars, subs, pump, unsent, seen, offered>>
  BY DEF DispatchStatus
<1> DEFINE S == subs \cap Stage
           items == [c \in Clients |-> Status(Head(posted))]
<1>3. S \in SUBSET Clients
  BY <1>1 DEF SimplyTyped
<1>4. /\ items \in [Clients -> Items] /\ (\A c \in Clients : ~IsLine(items[c]))
      /\ \A c \in Clients : items[c] = Status(Head(posted))
  BY ItemsAre DEF Status
<1>5. queue' = [c \in Clients |-> IF c \in S THEN Offered(c, Status(Head(posted))) ELSE queue[c]]
  BY <1>2 DEF OfferTo
<1> HIDE DEF items
<1>6. queue' = [c \in Clients |-> IF c \in S THEN Offered(c, items[c]) ELSE queue[c]]
  BY <1>4, <1>5
<1>7. offered' = offered /\ pump' = pump /\ UNCHANGED <<seen, shut, left>>
  BY <1>2 DEF clientVars
<1>8. offered' \in [Clients -> 0 .. MaxLines] /\ pump' \in [Clients -> Holdings]
  BY <1>1, <1>7 DEF StreamsTyped
<1>9. StreamsTyped' /\ NumberedStreams'
  BY <1>1, <1>3, <1>4, <1>6, <1>7, <1>8, StreamsGrow
<1>10. SimplyTyped' /\ PostedInv'
  <2>1. posted' \in Seq(BOOLEAN) /\ Len(posted') = Len(posted) - 1 /\ Len(posted) \in Nat
    <3>1. posted \in Seq(BOOLEAN)
      BY <1>1 DEF SimplyTyped
    <3>2. QED
      BY <1>2, <3>1, HeadTailProperties, LenProperties
  <2>2. posted' \in Seq(BOOLEAN) /\ Len(posted') <= 2
    <3>1. Len(posted) <= 2
      BY <1>1 DEF SimplyTyped
    <3>2. QED
      BY ONLY <2>1, <3>1
  <2>3. UNCHANGED <<run, sockets, working, up, moves, knows, handler, subs, unsent, shut, left>>
    BY <1>2 DEF hubVars, clientVars
  <2>4. SimplyTyped'
    BY <1>1, <2>2, <2>3 DEF SimplyTyped
  <2>5. QED
    BY <1>1, <2>1, <2>3, <2>4 DEF PostedInv
<1>11. SubscribersInv'
  <2>1. ASSUME NEW c \in Clients, handler[c] = "away" PROVE c \notin S
    BY <1>1, <2>1 DEF SubscribersInv
  <2>2. \A c \in Clients : handler[c] = "away" => queue'[c] = queue[c]
    BY <1>5, <2>1
  <2>3. QED
    BY <1>1, <1>2, <2>2 DEF SubscribersInv, clientVars
<1>12. QED
  BY <1>9, <1>10, <1>11 DEF SessionsInv

LEMMA ConnectKeeps ==
  ASSUME SessionsInv, NEW c \in Clients, Connect(c)
  PROVE  SessionsInv'
<1>1. SimplyTyped /\ StreamsTyped /\ SubscribersInv /\ PostedInv /\ NumberedStreams
  BY DEF SessionsInv
<1>2. /\ handler[c] = "away" /\ handler' = [handler EXCEPT ![c] = "reading"]
      /\ subs' = subs \cup {c} /\ OfferTo({c} \cap Stage, LAMBDA d : Status(up))
      /\ pump' = [pump EXCEPT ![c] = Waiting]
      /\ UNCHANGED <<hubVars, linkVars, shut, left, unsent, seen, offered>>
  BY DEF Connect
<1> DEFINE S == {c} \cap Stage
           items == [d \in Clients |-> Status(up)]
<1>3. S \in SUBSET Clients
  OBVIOUS
<1>4. /\ items \in [Clients -> Items] /\ (\A d \in Clients : ~IsLine(items[d]))
      /\ \A d \in Clients : items[d] = Status(up)
  BY ItemsAre DEF Status
<1>5. queue' = [d \in Clients |-> IF d \in S THEN Offered(d, Status(up)) ELSE queue[d]]
  BY <1>2 DEF OfferTo
<1> HIDE DEF items
<1>6. queue' = [d \in Clients |-> IF d \in S THEN Offered(d, items[d]) ELSE queue[d]]
  BY <1>4, <1>5
<1>7. offered' = offered /\ UNCHANGED <<seen, shut, left>>
  BY <1>2
<1>8. pump \in [Clients -> Holdings] /\ offered' \in [Clients -> 0 .. MaxLines]
  BY <1>1, <1>7 DEF StreamsTyped
<1>9. pump' \in [Clients -> Holdings]
  BY <1>2, <1>8 DEF Holdings
<1>10. \A d \in Clients : pump'[d] \in Items \/ pump[d] \in Items => pump'[d] = pump[d]
  <2>1. pump[c] \notin Items /\ pump'[c] \notin Items
    BY <1>1, <1>2, <1>8, ItemsAre DEF SubscribersInv
  <2>2. \A d \in Clients \ {c} : pump'[d] = pump[d]
    BY <1>2, <1>8
  <2>3. QED
    BY <2>1, <2>2
<1>11. StreamsTyped' /\ NumberedStreams'
  BY <1>1, <1>3, <1>4, <1>6, <1>7, <1>8, <1>9, <1>10, StreamsGrow
<1>12. SimplyTyped' /\ PostedInv'
  BY <1>1, <1>2 DEF SimplyTyped, PostedInv, hubVars, linkVars
<1>13. SubscribersInv'
  <2>1. handler \in [Clients -> {"away", "reading", "closing", "gone"}] /\ subs \subseteq Clients
    BY <1>1 DEF SimplyTyped
  <2>2. \A d \in subs' : handler'[d] = "reading"
    BY <1>1, <1>2, <2>1 DEF SubscribersInv
  <2>3. ASSUME NEW d \in Clients, handler'[d] = "away" PROVE queue'[d] = <<>> /\ pump'[d] = Ended
    <3>1. d # c /\ handler[d] = "away"
      BY <1>2, <2>1, <2>3
    <3>2. queue'[d] = queue[d] /\ pump'[d] = pump[d]
      BY <1>2, <1>5, <1>8, <3>1
    <3>3. QED
      BY <1>1, <3>1, <3>2 DEF SubscribersInv
  <2>4. QED
    BY <2>2, <2>3 DEF SubscribersInv
<1>14. QED
  BY <1>11, <1>12, <1>13 DEF SessionsInv

\* A step of the pump or of a session's end that changes the stream of one client.
LEMMA OneStreamChanges ==
  ASSUME StreamsTyped, NumberedStreams, NEW c \in Clients,
         NEW q \in Seq(Items), NEW p \in Holdings, NEW s \in [last : 0 .. MaxLines, told : Told],
         queue' = [queue EXCEPT ![c] = q], Len(q) <= QueueMax,
         pump' = [pump EXCEPT ![c] = p], seen' = [seen EXCEPT ![c] = s],
         offered' = offered, shut \subseteq shut', left \subseteq left',
         c \in Stage /\ c \notin shut' \cup left' => Coherent(StreamOf(p, q), offered[c] + 1, s)
  PROVE  StreamsTyped' /\ NumberedStreams'
<1>1. /\ queue \in [Clients -> Seq(Items)] /\ (\A d \in Clients : Len(queue[d]) <= QueueMax)
      /\ pump \in [Clients -> Holdings] /\ offered \in [Clients -> 0 .. MaxLines]
      /\ seen \in [Clients -> [last : 0 .. MaxLines, told : Told]]
  BY DEF StreamsTyped
<1>2. \A d \in Clients :
        /\ queue'[d] = IF d = c THEN q ELSE queue[d]
        /\ pump'[d] = IF d = c THEN p ELSE pump[d]
        /\ seen'[d] = IF d = c THEN s ELSE seen[d]
  BY <1>1
<1>3. StreamsTyped'
  <2>1. queue' \in [Clients -> Seq(Items)] /\ pump' \in [Clients -> Holdings]
    BY <1>1
  <2>2. seen' \in [Clients -> [last : 0 .. MaxLines, told : Told]]
    BY <1>1
  <2>3. \A d \in Clients : Len(queue'[d]) <= QueueMax
    BY <1>1, <1>2
  <2>4. QED
    BY <1>1, <2>1, <2>2, <2>3 DEF StreamsTyped
<1>4. ASSUME NEW d \in Stage, d \notin shut' \cup left'
      PROVE  Coherent(StreamOf(pump'[d], queue'[d]), offered'[d] + 1, seen'[d])
  <2>1. d \in Clients
    BY DEF Clients
  <2>2. CASE d = c
    BY <1>2, <1>4, <2>1, <2>2
  <2>3. CASE d # c
    BY <1>2, <1>4, <2>1, <2>3 DEF NumberedStreams
  <2>4. QED
    BY <2>2, <2>3
<1>5. QED
  BY <1>3, <1>4 DEF NumberedStreams

LEMMA PumpTakesKeeps ==
  ASSUME SessionsInv, NEW c \in Clients, PumpTakes(c)
  PROVE  SessionsInv'
<1>1. SimplyTyped /\ StreamsTyped /\ SubscribersInv /\ PostedInv /\ NumberedStreams
  BY DEF SessionsInv
<1>2. /\ pump[c] = Waiting /\ queue[c] # <<>> /\ queue' = [queue EXCEPT ![c] = Tail(queue[c])]
      /\ pump' = [pump EXCEPT ![c] = IF Head(queue[c]) = Close THEN Ended ELSE Head(queue[c])]
      /\ UNCHANGED <<hubVars, linkVars, clientVars, subs, unsent, seen, offered>>
  BY DEF PumpTakes
<1>3. /\ queue[c] \in Seq(Items) /\ Len(queue[c]) <= QueueMax
      /\ offered[c] \in Nat /\ seen[c] \in [last : 0 .. MaxLines, told : Told] /\ seen[c] \in Views
      /\ seen = [seen EXCEPT ![c] = seen[c]]
  BY <1>1 DEF StreamsTyped, Views
<1> DEFINE q == Tail(queue[c])
           p == IF Head(queue[c]) = Close THEN Ended ELSE Head(queue[c])
<1>4. /\ q \in Seq(Items) /\ Len(q) <= QueueMax
      /\ Head(queue[c]) \in Items /\ Head(queue[c]) = queue[c][1]
  <2>1. QueueMax \in Nat /\ Len(queue[c]) \in Nat
    BY <1>3, LenProperties, SessionsAssumption
  <2>2. q \in Seq(Items) /\ Len(q) = Len(queue[c]) - 1 /\ Head(queue[c]) \in Items
    BY <1>2, <1>3, HeadTailProperties
  <2>3. QED
    BY <1>3, <2>1, <2>2
<1>5. p \in Holdings
  BY <1>4 DEF Holdings
<1>6. ASSUME c \in Stage, c \notin shut' \cup left'
      PROVE  Coherent(StreamOf(p, q), offered[c] + 1, seen[c])
  <2>1. queue[c] \in Seq(Things) /\ q \in Seq(Things)
    <3>1. Items \subseteq Things
      BY DEF Things
    <3>2. QED
      BY <1>3, <1>4, <3>1
  <2>2. Coherent(StreamOf(pump[c], queue[c]), offered[c] + 1, seen[c])
    BY <1>1, <1>2, <1>6 DEF NumberedStreams, clientVars
  <2>3. Coherent(queue[c], offered[c] + 1, seen[c])
    BY <1>2, <2>2, ItemsAre DEF StreamOf
  <2>4. CASE Head(queue[c]) = Close
    <3>1. StreamOf(p, q) = q
      BY <2>4, ItemsAre DEF StreamOf
    <3>2. Coherent(q, offered[c] + 1, SeenAfter(seen[c], Close))
      <4>1. offered[c] + 1 \in Nat /\ queue[c][1] = Close
        BY <1>3, <1>4, <2>4
      <4>2. Coherent(q, offered[c] + 1, SeenAfter(seen[c], queue[c][1]))
        BY ONLY <1>2, <1>3, <2>1, <2>3, <4>1, FirstOfStreamGoes
      <4>3. QED
        BY <4>1, <4>2
    <3>3. SeenAfter(seen[c], Close) = seen[c]
      <4>1. ToldAfter(seen[c].told, Close) = seen[c].told
        BY ItemsAre DEF ToldAfter
      <4>2. SeenAfter(seen[c], Close) = [seen[c] EXCEPT !.told = seen[c].told]
        BY <4>1 DEF SeenAfter, Close
      <4>3. QED
        BY <1>3, <4>2
    <3>4. QED
      BY <3>1, <3>2, <3>3
  <2>5. CASE Head(queue[c]) # Close
    <3>1. StreamOf(p, q) = <<Head(queue[c])>> \o Tail(queue[c])
      BY <1>4, <2>5 DEF StreamOf
    <3>2. <<Head(queue[c])>> \o Tail(queue[c]) = queue[c]
      BY <1>2, <1>3
    <3>3. QED
      BY <2>3, <3>1, <3>2
  <2>6. QED
    BY <2>4, <2>5
<1> HIDE DEF p, q
<1>7. queue' = [queue EXCEPT ![c] = q] /\ pump' = [pump EXCEPT ![c] = p]
  BY <1>2 DEF p, q
<1>8. StreamsTyped' /\ NumberedStreams'
  <2>1. seen' = [seen EXCEPT ![c] = seen[c]] /\ offered' = offered /\ shut' = shut /\ left' = left
    BY <1>2, <1>3 DEF clientVars
  <2>2. shut \subseteq shut' /\ left \subseteq left'
    BY <2>1
  <2>3. QED
    BY <1>1, <1>3, <1>4, <1>5, <1>6, <1>7, <2>1, <2>2, OneStreamChanges
<1>9. SimplyTyped' /\ PostedInv'
  BY <1>1, <1>2 DEF SimplyTyped, PostedInv, hubVars, linkVars, clientVars
<1>10. SubscribersInv'
  <2>1. handler[c] # "away" /\ queue \in [Clients -> Seq(Items)] /\ pump \in [Clients -> Holdings]
    BY <1>1, <1>2 DEF SubscribersInv, StreamsTyped
  <2>2. \A d \in Clients : handler[d] = "away" => queue'[d] = queue[d] /\ pump'[d] = pump[d]
    BY <1>7, <2>1
  <2>3. QED
    BY <1>1, <1>2, <2>2 DEF SubscribersInv, clientVars
<1>11. QED
  BY <1>8, <1>9, <1>10 DEF SessionsInv

\* What is sent is the first of the stream, and the client has seen it then.
LEMMA PumpSentKeeps ==
  ASSUME SessionsInv, NEW c \in Clients, PumpSent(c)
  PROVE  SessionsInv'
<1>1. SimplyTyped /\ StreamsTyped /\ SubscribersInv /\ PostedInv /\ NumberedStreams
  BY DEF SessionsInv
<1>2. /\ pump[c] \in Items /\ c \notin unsent \cup shut \cup left
      /\ unsent' = unsent \cup {c} /\ pump' = [pump EXCEPT ![c] = Waiting]
      /\ seen' = [seen EXCEPT ![c] = SeenAfter(seen[c], pump[c])]
      /\ UNCHANGED <<hubVars, linkVars, clientVars, subs, queue, offered>>
  BY DEF PumpSent
<1>3. /\ queue \in [Clients -> Seq(Items)] /\ pump \in [Clients -> Holdings]
      /\ queue[c] \in Seq(Items) /\ Len(queue[c]) <= QueueMax
      /\ offered[c] \in Nat /\ seen[c] \in [last : 0 .. MaxLines, told : Told] /\ seen[c] \in Views
      /\ queue' = [queue EXCEPT ![c] = queue[c]]
  BY <1>1, <1>2 DEF StreamsTyped, Views
<1>4. SeenAfter(seen[c], pump[c]) \in [last : 0 .. MaxLines, told : Told]
  <2>1. pump[c] \in Things
    BY <1>2 DEF Things
  <2>2. CASE IsLine(pump[c])
    <3>1. PICK n \in 1 .. MaxLines : pump[c] = Numbered(n)
      BY <1>2, <2>2, ItemsAre DEF Items
    <3>2. SeenAfter(seen[c], pump[c]) = [last |-> n, told |-> "none"]
      BY <3>1 DEF SeenAfter, Numbered
    <3>3. QED
      BY <3>2 DEF Told
  <2>3. CASE ~IsLine(pump[c])
    <3>1. SeenAfter(seen[c], pump[c]) \in Views /\ SeenAfter(seen[c], pump[c]).last = seen[c].last
      BY <1>3, <2>1, <2>3, TellsAfter
    <3>2. SeenAfter(seen[c], pump[c]).told \in Told
      BY <3>1 DEF Views
    <3>3. SeenAfter(seen[c], pump[c]) = [seen[c] EXCEPT !.told = ToldAfter(seen[c].told, pump[c])]
      BY <2>3 DEF SeenAfter, IsLine
    <3>4. QED
      BY <1>3, <3>2, <3>3
  <2>4. QED
    BY <2>2, <2>3
<1>5. ASSUME c \in Stage, c \notin shut' \cup left'
      PROVE  Coherent(StreamOf(Waiting, queue[c]), offered[c] + 1, SeenAfter(seen[c], pump[c]))
  <2>1. queue[c] \in Seq(Things)
    <3>1. Items \subseteq Things
      BY DEF Things
    <3>2. QED
      BY <1>3, <3>1
  <2> DEFINE t == StreamOf(pump[c], queue[c])
  <2>2. t \in Seq(Things) /\ t # <<>> /\ t[1] = pump[c] /\ Tail(t) = queue[c]
    BY <1>2, <2>1, StreamIs
  <2>3. Coherent(t, offered[c] + 1, seen[c])
    BY <1>1, <1>2, <1>5 DEF NumberedStreams, clientVars
  <2> HIDE DEF t
  <2>4. Coherent(queue[c], offered[c] + 1, SeenAfter(seen[c], pump[c]))
    <3>1. offered[c] + 1 \in Nat
      BY <1>3
    <3>2. Coherent(Tail(t), offered[c] + 1, SeenAfter(seen[c], t[1]))
      BY ONLY <1>3, <2>2, <2>3, <3>1, FirstOfStreamGoes
    <3>3. QED
      BY <2>2, <3>2
  <2>5. QED
    BY <2>4, ItemsAre DEF StreamOf
<1>6. StreamsTyped' /\ NumberedStreams'
  <2>1. offered' = offered /\ shut \subseteq shut' /\ left \subseteq left' /\ Waiting \in Holdings
    BY <1>2 DEF clientVars, Holdings
  <2>2. QED
    BY <1>1, <1>2, <1>3, <1>4, <1>5, <2>1, OneStreamChanges
<1>7. SimplyTyped' /\ PostedInv'
  BY <1>1, <1>2 DEF SimplyTyped, PostedInv, hubVars, linkVars, clientVars
<1>8. SubscribersInv'
  <2>1. handler[c] # "away"
    BY <1>1, <1>2, ItemsAre DEF SubscribersInv
  <2>2. \A d \in Clients : handler[d] = "away" => queue'[d] = queue[d] /\ pump'[d] = pump[d]
    BY <1>2, <1>3, <2>1
  <2>3. QED
    BY <1>1, <1>2, <2>2 DEF SubscribersInv, clientVars
<1>9. QED
  BY <1>6, <1>7, <1>8 DEF SessionsInv

LEMMA PumpLosesKeeps ==
  ASSUME SessionsInv, NEW c \in Clients, PumpLoses(c)
  PROVE  SessionsInv'
<1>1. SimplyTyped /\ StreamsTyped /\ SubscribersInv /\ PostedInv /\ NumberedStreams
  BY DEF SessionsInv
<1>2. PICK p \in {Waiting, Ended} : pump' = [pump EXCEPT ![c] = p]
  BY DEF PumpLoses
<1>3. /\ pump[c] \in Items /\ c \in shut \cup left
      /\ UNCHANGED <<hubVars, linkVars, clientVars, subs, queue, unsent, seen, offered>>
  BY DEF PumpLoses
<1>4. /\ queue[c] \in Seq(Items) /\ Len(queue[c]) <= QueueMax
      /\ seen[c] \in [last : 0 .. MaxLines, told : Told]
      /\ seen = [seen EXCEPT ![c] = seen[c]] /\ queue = [queue EXCEPT ![c] = queue[c]]
      /\ pump \in [Clients -> Holdings] /\ queue \in [Clients -> Seq(Items)]
  BY <1>1 DEF StreamsTyped
<1>5. StreamsTyped' /\ NumberedStreams'
  <2>1. /\ seen' = [seen EXCEPT ![c] = seen[c]] /\ queue' = [queue EXCEPT ![c] = queue[c]]
        /\ offered' = offered /\ shut' = shut /\ left' = left /\ p \in Holdings
    BY <1>3, <1>4 DEF clientVars, Holdings
  <2>2. shut \subseteq shut' /\ left \subseteq left' /\ c \in shut' \cup left'
    BY <1>3, <2>1
  <2>3. QED
    BY <1>1, <1>2, <1>4, <2>1, <2>2, OneStreamChanges
<1>6. SimplyTyped' /\ PostedInv'
  BY <1>1, <1>3 DEF SimplyTyped, PostedInv, hubVars, linkVars, clientVars
<1>7. SubscribersInv'
  <2>1. handler[c] # "away"
    BY <1>1, <1>3, ItemsAre DEF SubscribersInv
  <2>2. \A d \in Clients : handler[d] = "away" => pump'[d] = pump[d]
    BY <1>2, <1>4, <2>1
  <2>3. QED
    BY <1>1, <1>3, <2>2 DEF SubscribersInv, clientVars
<1>8. QED
  BY <1>5, <1>6, <1>7 DEF SessionsInv

LEMMA EndSessionKeeps ==
  ASSUME SessionsInv, NEW c \in Clients, EndSession(c)
  PROVE  SessionsInv'
<1>1. SimplyTyped /\ StreamsTyped /\ SubscribersInv /\ PostedInv /\ NumberedStreams
  BY DEF SessionsInv
<1>2. /\ subs' = subs \ {c} /\ queue' = Closed({c}) /\ pump' = [pump EXCEPT ![c] = Ended]
      /\ shut' = shut \cup {c} /\ handler[c] = "reading"
      /\ handler' = [handler EXCEPT ![c] = IF c \in Stage THEN "gone" ELSE "closing"]
      /\ UNCHANGED <<hubVars, linkVars, left, unsent, seen, offered>>
  BY DEF EndSession
<1>3. /\ queue[c] \in Seq(Items) /\ Len(queue[c]) <= QueueMax
      /\ seen[c] \in [last : 0 .. MaxLines, told : Told] /\ seen = [seen EXCEPT ![c] = seen[c]]
      /\ pump \in [Clients -> Holdings] /\ queue \in [Clients -> Seq(Items)]
  BY <1>1 DEF StreamsTyped
<1> DEFINE q == IF Full(c) THEN queue[c] ELSE Append(queue[c], Close)
<1>4. q \in Seq(Items) /\ Len(q) <= QueueMax
  BY <1>3, QueuesBounded, ItemsAre
<1>5. queue' = [queue EXCEPT ![c] = q]
  BY <1>2, <1>3 DEF Closed
<1> HIDE DEF q
<1>6. StreamsTyped' /\ NumberedStreams'
  <2>1. /\ seen' = [seen EXCEPT ![c] = seen[c]] /\ offered' = offered /\ Ended \in Holdings
        /\ shut \subseteq shut' /\ left \subseteq left' /\ c \in shut' \cup left'
    BY <1>2, <1>3 DEF Holdings
  <2>2. QED
    BY <1>1, <1>2, <1>3, <1>4, <1>5, <2>1, OneStreamChanges
<1>7. SimplyTyped' /\ PostedInv'
  BY <1>1, <1>2 DEF SimplyTyped, PostedInv, hubVars, linkVars
<1>8. SubscribersInv'
  <2>1. handler \in [Clients -> {"away", "reading", "closing", "gone"}]
    BY <1>1 DEF SimplyTyped
  <2>2. \A d \in subs' : handler'[d] = "reading"
    BY <1>1, <1>2, <2>1 DEF SubscribersInv
  <2>3. ASSUME NEW d \in Clients, handler'[d] = "away" PROVE queue'[d] = <<>> /\ pump'[d] = Ended
    <3>1. d # c /\ handler[d] = "away"
      BY <1>2, <2>1, <2>3
    <3>2. queue'[d] = queue[d] /\ pump'[d] = pump[d]
      BY <1>2, <1>3, <1>5, <3>1
    <3>3. QED
      BY <1>1, <3>1, <3>2 DEF SubscribersInv
  <2>4. QED
    BY <2>2, <2>3 DEF SubscribersInv
<1>9. QED
  BY <1>6, <1>7, <1>8 DEF SessionsInv

LEMMA DrainedKeeps ==
  ASSUME SessionsInv, Drained
  PROVE  SessionsInv'
<1>1. SimplyTyped /\ StreamsTyped /\ SubscribersInv /\ PostedInv /\ NumberedStreams
  BY DEF SessionsInv
<1>2. /\ run = "draining" /\ run' = "waiting" /\ up' = FALSE
      /\ posted' = IF up THEN Append(posted, FALSE) ELSE posted
      /\ queue' = Closed(subs) /\ subs' = {}
      /\ UNCHANGED <<sockets, working, knows, moves, handler, left, pump, unsent, seen, offered>>
      /\ shut' = shut \cup {c \in Raw : handler[c] \in {"reading", "closing"}}
  BY DEF Drained, StopHub
<1>3. /\ queue \in [Clients -> Seq(Items)] /\ (\A d \in Clients : Len(queue[d]) <= QueueMax)
      /\ pump \in [Clients -> Holdings] /\ offered \in [Clients -> 0 .. MaxLines]
  BY <1>1 DEF StreamsTyped
<1>4. ASSUME NEW c \in Clients
      PROVE  /\ queue'[c] \in Seq(Items) /\ Len(queue'[c]) <= QueueMax
             /\ queue'[c] = queue[c] \/ (c \in subs /\ queue'[c] = Append(queue[c], Close))
  <2>1. ~Full(c) =>
          Append(queue[c], Close) \in Seq(Items) /\ Len(Append(queue[c], Close)) <= QueueMax
    BY <1>3, QueuesBounded, ItemsAre
  <2>2. queue'[c] = IF c \in subs /\ ~Full(c) THEN Append(queue[c], Close) ELSE queue[c]
    BY <1>2 DEF Closed
  <2>3. QED
    BY <1>3, <2>1, <2>2
<1>5. StreamsTyped'
  <2>1. queue' \in [Clients -> Seq(Items)]
    <3>1. queue' = [c \in Clients |-> queue'[c]]
      BY <1>2 DEF Closed
    <3>2. QED
      BY <1>4, <3>1
  <2>2. QED
    BY <1>1, <1>2, <1>4, <2>1 DEF StreamsTyped
<1>6. NumberedStreams'
  <2>1. ASSUME NEW c \in Stage, c \notin shut' \cup left'
        PROVE  Coherent(StreamOf(pump[c], queue'[c]), offered[c] + 1, seen[c])
    <3>1. c \in Clients /\ offered[c] + 1 \in Nat /\ Close \in Things /\ ~IsLine(Close)
      BY <1>3, ItemsAre DEF Clients, Things
    <3>2. Coherent(StreamOf(pump[c], queue[c]), offered[c] + 1, seen[c])
      BY <1>1, <1>2, <2>1 DEF NumberedStreams
    <3>3. queue[c] \in Seq(Things)
      <4>1. Items \subseteq Things
        BY DEF Things
      <4>2. QED
        BY <1>3, <3>1, <4>1
    <3>4. /\ StreamOf(pump[c], queue[c]) \in Seq(Things)
          /\ StreamOf(pump[c], Append(queue[c], Close)) = Append(StreamOf(pump[c], queue[c]), Close)
      BY <3>1, <3>3, StreamIs
    <3>5. Coherent(StreamOf(pump[c], Append(queue[c], Close)), offered[c] + 1, seen[c])
      BY <3>1, <3>2, <3>4, OtherComes
    <3>6. QED
      BY <1>4, <3>1, <3>2, <3>5
  <2>2. QED
    BY <1>2, <2>1 DEF NumberedStreams
<1>7. SimplyTyped'
  <2>1. posted \in Seq(BOOLEAN) /\ Len(posted) <= 1 /\ Len(posted) \in Nat
    <3>1. posted \in Seq(BOOLEAN)
      BY <1>1 DEF SimplyTyped
    <3>2. QED
      BY <1>1, <1>2, <3>1, LenProperties DEF PostedInv
  <2>2. posted' \in Seq(BOOLEAN) /\ Len(posted') <= 2
    <3>1. /\ Append(posted, FALSE) \in Seq(BOOLEAN)
          /\ Len(Append(posted, FALSE)) = Len(posted) + 1
      BY <2>1, AppendProperties
    <3>2. posted' = Append(posted, FALSE) \/ posted' = posted
      BY <1>2
    <3>3. CASE posted' = posted
      BY <2>1, <3>3
    <3>4. CASE posted' = Append(posted, FALSE)
      <4>1. Len(posted') = Len(posted) + 1
        BY <3>1, <3>4
      <4>2. Len(posted') <= 2
        BY ONLY <2>1, <4>1
      <4>3. QED
        BY <3>1, <3>4, <4>2
    <3>5. QED
      BY <3>2, <3>3, <3>4
  <2>3. shut' \subseteq Clients
    BY <1>1, <1>2 DEF SimplyTyped, Clients
  <2>4. QED
    BY <1>1, <1>2, <2>2, <2>3 DEF SimplyTyped
<1>8. PostedInv'
  BY <1>2 DEF PostedInv
<1>9. SubscribersInv'
  BY <1>1, <1>2, <1>4 DEF SubscribersInv
<1>10. QED
  BY <1>5, <1>6, <1>7, <1>8, <1>9 DEF SessionsInv

\* The steps that touch no stream.
StillSteps ==
  \/ LinkMoves \/ Bind \/ BindFails \/ UpdateMoves \/ Cancelled \/ DiscoveryLost \/ CancelledAgain
  \/ Finish
  \/ \E c \in Raw : Discover(c)
  \/ \E c \in Clients : ClientTakes(c) \/ ClientLeaves(c) \/ ConnectionClosed(c)

LEMMA StillStepsKeep ==
  ASSUME SessionsInv, StillSteps
  PROVE  SessionsInv'
<1>1. SimplyTyped /\ StreamsTyped /\ SubscribersInv /\ PostedInv /\ NumberedStreams
  BY DEF SessionsInv
<1> SUFFICES /\ SimplyTyped' /\ PostedInv'
             /\ UNCHANGED <<queue, pump, offered, seen, subs>>
             /\ shut \subseteq shut' /\ left \subseteq left'
             /\ UNCHANGED handler \/ \E c \in Clients : /\ handler[c] = "closing"
                                                        /\ handler' = [handler EXCEPT ![c] = "gone"]
  <2>1. StreamsTyped' /\ NumberedStreams'
    BY <1>1, StreamsStay
  <2>2. SubscribersInv'
    BY <1>1 DEF SubscribersInv, SimplyTyped
  <2>3. QED
    BY <2>1, <2>2 DEF SessionsInv
<1>2. CASE LinkMoves
  <2>1. posted' \in Seq(BOOLEAN) /\ Len(posted') = 1 /\ up' \in BOOLEAN
    BY <1>2 DEF LinkMoves
  <2>2. moves' \in 0 .. MaxMoves
    <3>1. moves \in 0 .. MaxMoves /\ moves < MaxMoves /\ moves' = moves + 1
      BY <1>1, <1>2 DEF LinkMoves, SimplyTyped
    <3>2. MaxMoves \in Nat
      BY SessionsAssumption
    <3>3. QED
      BY ONLY <3>1, <3>2
  <2>3. /\ UNCHANGED <<run, sockets, working, knows, handler, subs, shut, left, unsent>>
        /\ UNCHANGED <<queue, pump, seen, offered>>
    BY <1>2 DEF LinkMoves, hubVars, clientVars, streamVars
  <2>4. SimplyTyped'
    <3>1. {working', up'} \subseteq BOOLEAN
      BY <1>1, <2>1, <2>3 DEF SimplyTyped
    <3>2. Len(posted') <= 2
      BY <2>1
    <3>3. QED
      BY <1>1, <2>1, <2>2, <2>3, <3>1, <3>2 DEF SimplyTyped
  <2>5. QED
    BY <2>1, <2>3, <2>4 DEF PostedInv
<1>3. CASE Bind
  <2>1. After[run] \in Starting \cup {"serving"} /\ run \in Starting
    BY <1>3 DEF Bind, Starting, After
  <2>2. run \notin {"waiting", "leaving", "ended"}
    BY <2>1 DEF Starting, After
  <2>3. sockets' \subseteq sockets \cup Starting
    BY <1>3, <2>1 DEF Bind
  <2>4. QED
    BY <1>1, <1>3, <2>1, <2>2, <2>3
    DEF Bind, SimplyTyped, PostedInv, linkVars, clientVars, streamVars
<1>4. CASE BindFails \/ Cancelled
  <2>1. run \in Starting \cup {"serving"} /\ CloseServers
    BY <1>4 DEF BindFails, Cancelled
  <2>2. run \notin {"waiting", "leaving", "ended"}
    BY <2>1 DEF Starting, After
  <2>3. shut \subseteq shut' /\ shut' \subseteq Clients /\ sockets' \subseteq {"closing udp"}
    BY <1>1, <2>1 DEF CloseServers, SimplyTyped, Clients
  <2>4. QED
    BY <1>1, <2>1, <2>2, <2>3 DEF CloseServers, SimplyTyped, PostedInv, linkVars, streamVars
<1>5. CASE UpdateMoves
  BY <1>1, <1>5 DEF UpdateMoves, SimplyTyped, PostedInv, linkVars, clientVars, streamVars
<1>6. CASE DiscoveryLost
  BY <1>1, <1>6 DEF DiscoveryLost, SimplyTyped, PostedInv, linkVars, clientVars, streamVars
<1>7. CASE CancelledAgain
  BY <1>1, <1>7 DEF CancelledAgain, SimplyTyped, PostedInv, linkVars, clientVars, streamVars
<1>8. CASE Finish
  BY <1>1, <1>8 DEF Finish, SimplyTyped, PostedInv, linkVars, clientVars, streamVars
<1>9. CASE \E c \in Raw : Discover(c)
  BY <1>1, <1>9 DEF Discover, SimplyTyped, PostedInv, linkVars, clientVars, streamVars
<1>10. ASSUME NEW c \in Clients, ClientTakes(c) \/ ClientLeaves(c)
       PROVE  /\ SimplyTyped' /\ PostedInv'
              /\ UNCHANGED <<queue, pump, offered, seen, subs, handler>>
              /\ shut \subseteq shut' /\ left \subseteq left'
  BY <1>1, <1>10
  DEF ClientTakes, ClientLeaves, SimplyTyped, PostedInv, hubVars, linkVars, clientVars
<1>11. ASSUME NEW c \in Clients, ConnectionClosed(c)
       PROVE  /\ SimplyTyped' /\ PostedInv' /\ UNCHANGED <<queue, pump, offered, seen, subs>>
              /\ shut \subseteq shut' /\ left \subseteq left'
              /\ handler[c] = "closing" /\ handler' = [handler EXCEPT ![c] = "gone"]
  BY <1>1, <1>11 DEF ConnectionClosed, SimplyTyped, PostedInv, hubVars, linkVars, streamVars
<1>12. QED
  BY <1>2, <1>3, <1>4, <1>5, <1>6, <1>7, <1>8, <1>9, <1>10, <1>11 DEF StillSteps

LEMMA SessionsStep ==
  ASSUME SessionsInv, [SessionsNext]_sessionVars
  PROVE  SessionsInv'
<1>1. CASE Line
  BY <1>1, LineKeeps
<1>2. CASE DispatchStatus
  BY <1>2, DispatchStatusKeeps
<1>3. CASE Drained
  BY <1>3, DrainedKeeps
<1>4. CASE StillSteps
  BY <1>4, StillStepsKeep
<1>5. ASSUME NEW c \in Clients,
             \/ Connect(c) \/ PumpTakes(c) \/ PumpSent(c) \/ PumpLoses(c)
             \/ ReadEnds(c) \/ LineTooLong(c)
      PROVE  SessionsInv'
  BY <1>5, ConnectKeeps, PumpTakesKeeps, PumpSentKeeps, PumpLosesKeeps, EndSessionKeeps
  DEF ReadEnds, LineTooLong
<1>6. CASE UNCHANGED sessionVars
  <2>1. /\ UNCHANGED <<hubVars, linkVars, clientVars, subs, queue, pump, unsent, seen, offered>>
        /\ SimplyTyped /\ StreamsTyped /\ SubscribersInv /\ PostedInv /\ NumberedStreams
    BY <1>6 DEF sessionVars, streamVars, SessionsInv
  <2>2. StreamsTyped' /\ NumberedStreams'
    BY <2>1, StreamsStay DEF clientVars
  <2>3. SimplyTyped' /\ SubscribersInv' /\ PostedInv'
    BY <2>1 DEF SimplyTyped, SubscribersInv, PostedInv, hubVars, linkVars, clientVars
  <2>4. QED
    BY <2>2, <2>3 DEF SessionsInv
<1>7. QED
  BY <1>1, <1>2, <1>3, <1>4, <1>5, <1>6 DEF SessionsNext, StillSteps

\* What is sent next follows, or the client was told: the invariant for the first line.
LEMMA GapSeenInAStep ==
  ASSUME SessionsInv, [SessionsNext]_sessionVars,
         NEW c \in Stage, seen'[c].last # seen[c].last
  PROVE  seen'[c].last = seen[c].last + 1 \/ seen[c].told = "both"
<1>1. StreamsTyped /\ NumberedStreams /\ c \in Clients
  BY DEF SessionsInv, Clients
<1>2. PICK d \in Clients : PumpSent(d)
  BY DEF SessionsNext, Line, LinkMoves, DispatchStatus, Bind, BindFails, Cancelled, CloseServers,
     UpdateMoves, DiscoveryLost, Drained, StopHub, CancelledAgain, Finish, Discover, Connect,
     PumpTakes, PumpLoses, ClientTakes, ClientLeaves, ReadEnds, LineTooLong, EndSession,
     ConnectionClosed, sessionVars, streamVars
<1>3. /\ pump[d] \in Items /\ d \notin shut \cup left
      /\ seen' = [seen EXCEPT ![d] = SeenAfter(seen[d], pump[d])]
  BY <1>2 DEF PumpSent
<1>4. d = c /\ seen'[c] = SeenAfter(seen[c], pump[c])
  BY <1>1, <1>3 DEF StreamsTyped
<1>5. seen[c] \in Views /\ queue[c] \in Seq(Things) /\ pump[c] \in Things
  <2>1. Items \subseteq Things /\ queue[c] \in Seq(Items) /\ pump[c] \in Items
    BY <1>1, <1>3, <1>4 DEF StreamsTyped, Things
  <2>2. seen[c] \in [last : 0 .. MaxLines, told : Told]
    BY <1>1 DEF StreamsTyped
  <2>3. QED
    BY <2>1, <2>2 DEF Views
<1>6. IsLine(pump[c]) /\ seen'[c].last = pump[c][2]
  <2>1. IsLine(pump[c])
    BY <1>4, <1>5, TellsAfter
  <2>2. QED
    BY <1>4, <2>1 DEF SeenAfter, IsLine
<1> DEFINE t == StreamOf(pump[c], queue[c])
<1>7. t \in Seq(Things) /\ t # <<>> /\ t[1] = pump[c]
  BY <1>3, <1>4, <1>5, StreamIs
<1>8. Coherent(t, offered[c] + 1, seen[c])
  BY <1>1, <1>3, <1>4 DEF NumberedStreams
<1> HIDE DEF t
<1>9. AllFollow(t, seen[c])
  <2>1. Numbered(offered[c] + 1) \in Things
    <3>1. offered[c] \in 0 .. MaxLines /\ MaxLines \in Nat
      BY <1>1, SessionsAssumption DEF StreamsTyped
    <3>2. offered[c] + 1 \in Nat
      BY <3>1
    <3>3. QED
      BY <3>2 DEF Things
  <2>2. QED
    BY <1>7, <1>8, <2>1, OneLess DEF Coherent
<1>10. Follows(t, 1, seen[c]) /\ t[1][2] = seen'[c].last
  BY <1>6, <1>7, <1>9 DEF AllFollow
<1>11. QED
  BY <1>10 DEF Follows, FromLine, FromSeen, Parted, PartedBy

LEMMA SessionsTyped == SessionsInv => SessionsTypeOK
  BY DEF SessionsInv, SimplyTyped, StreamsTyped, SessionsTypeOK, Holdings, Told

\* A Stage client whose stream leaves out lines is told of a lost link and of a new one before the
\* next line (hub.py:105-115), for any clients, any queue of three items or more, and any number of
\* lines and of changes of the link; and the queues keep their bound.
THEOREM GapsAlwaysSeen == SessionsSpec => []SessionsTypeOK /\ GapIsSeen
<1>1. SessionsInit => SessionsInv
  BY SessionsStart
<1>2. SessionsInv /\ [SessionsNext]_sessionVars => SessionsInv'
  BY SessionsStep
<1>3. SessionsInv => SessionsTypeOK
  BY SessionsTyped
<1>4. SessionsInv /\ [SessionsNext]_sessionVars =>
        [\A c \in Stage : seen'[c].last # seen[c].last =>
            seen'[c].last = seen[c].last + 1 \/ seen[c].told = "both"]_seen
  BY GapSeenInAStep
<1>5. QED
  BY <1>1, <1>2, <1>3, <1>4, PTL DEF SessionsSpec, GapIsSeen
-----------------------------------------------------------------------------
(* The installer's reading of the configuration: the invariant.            *)

\* LIST_PATCHES, for the list and the revision of a moment.
PageOf(all, r, offset) ==
  LET end == IF paged /\ offset + PageSize < Len(all) THEN offset + PageSize ELSE Len(all)
  IN [patches |-> SubSeq(all, offset + 1, end), revision |-> r, total |-> Len(all),
      next |-> IF end < Len(all) THEN end ELSE 0]

AskedFor == Nat \X Requests \X Nat \X Nat
Bodies ==
  BOOLEAN \cup Nat \cup {"ok"} \cup (SUBSET Nat)
  \cup [patches : Seq(Nat), revision : Nat, total : Nat, next : Nat]
Pieces == [of : [id : AskedFor \cup {<<>>}, body : Bodies], last : BOOLEAN]

\* What the installer has still to read.
Stream == pending \o wire

\* A stream of whole lines, the first of which may have lost its beginning.
Framed(b) ==
  \A i \in 1 .. Len(b) :
    IF b[i].last THEN i < Len(b) => ~b[i + 1].last
                 ELSE i < Len(b) /\ b[i + 1] = Fragment(b[i].of, TRUE)
Aligned(b) == b # <<>> => ~b[1].last

FramingInv ==
  /\ pending \in Seq(Pieces) /\ wire \in Seq(Pieces)
  /\ Framed(Stream) /\ (request \in Requests \ {"ping"} => Aligned(Stream))
  /\ ~malformed

\* No id is of a later session.
IdsInv ==
  /\ todo \in Seq(AskedFor) /\ \A i \in 1 .. Len(todo) : todo[i][1] <= sessions
  /\ \A i \in 1 .. Len(Stream) : Stream[i].of.id # <<>> => Stream[i].of.id[1] <= sessions

SimpleInv ==
  /\ paged \in BOOLEAN /\ asked \in BOOLEAN /\ dirty \in BOOLEAN
  /\ patches \in Catalogs /\ was \subseteq Catalogs /\ patches \in was
  /\ profiles \in Nat /\ revision \in Nat /\ events \in Nat /\ sessions \in Nat
  /\ request \in Requests \cup Results /\ (asked => request \in Requests)
  /\ read \in Seq(Nat) /\ fetched \in Nat

\* h says what the list of patches was at each revision.  A page that is on its way is one of the
\* list at its revision.
PageTold(m, h) ==
  m.id # <<>> /\ m.id[1] = sessions /\ m.id[2] = "page" =>
    \E r \in 0 .. revision : h[r] \in was /\ m.body = PageOf(h[r], r, m.id[3])

\* What was read is the beginning of one of those lists.
ReadOf(h) ==
  \/ read = <<>>
  \/ \E r \in 0 .. revision :
       /\ page.revision = r /\ h[r] \in was /\ page.total = Len(h[r])
       /\ Len(read) <= Len(h[r]) /\ read = SubSeq(h[r], 1, Len(read))

HistoryInv ==
  \E h \in [0 .. revision -> Catalogs] :
    /\ h[revision] = patches
    /\ \A i \in 1 .. Len(Stream) : PageTold(Stream[i].of, h)
    /\ request = "page" => ReadOf(h)

OnceEach(n) == \A i, j \in 1 .. n : read[i] = read[j] => i = j

ReadInv ==
  /\ request \in {"ping", "info", "dirty", "list", "global"} => read = <<>> /\ fetched = 0
  /\ request = "page" => fetched = 0 /\ (~paged => read = <<>>)
  /\ request = "patch" => read \in was /\ fetched < Len(read) /\ OnceEach(fetched)
  /\ request \in {"list again", "dirty again", "done"} =>
       read \in was /\ fetched = Len(read) /\ OnceEach(Len(read))

SnapshotInv == SimpleInv /\ FramingInv /\ IdsInv /\ HistoryInv /\ ReadInv
-----------------------------------------------------------------------------
(* The installer's reading of the configuration: streams.                  *)

Rest(b, k) == SubSeq(b, k + 1, Len(b))

LEMMA RestIs ==
  ASSUME NEW S, NEW b \in Seq(S), NEW k \in 0 .. Len(b)
  PROVE  /\ Rest(b, k) \in Seq(S) /\ Len(Rest(b, k)) = Len(b) - k /\ Len(b) \in Nat
         /\ \A i \in 1 .. Len(b) - k : Rest(b, k)[i] = b[i + k] /\ i + k \in 1 .. Len(b)
<1>1. Len(b) \in Nat
  BY LenProperties
<1>2. QED
  BY <1>1, SubSeqProperties DEF Rest

LEMMA JoinIs ==
  ASSUME NEW S, NEW b \in Seq(S), NEW c \in Seq(S)
  PROVE  /\ b \o c \in Seq(S) /\ Len(b \o c) = Len(b) + Len(c) /\ Len(b) \in Nat /\ Len(c) \in Nat
         /\ \A i \in 1 .. Len(b) : (b \o c)[i] = b[i]
         /\ \A i \in 1 .. Len(c) : (b \o c)[Len(b) + i] = c[i]
<1>1. Len(b) \in Nat /\ Len(c) \in Nat
  BY LenProperties
<1>2. QED
  BY <1>1, ConcatProperties

\* Two parts that together have the items of a stream are the stream.
LEMMA JoinedIs ==
  ASSUME NEW S, NEW b \in Seq(S), NEW c \in Seq(S), NEW d \in Seq(S),
         Len(d) = Len(b) + Len(c), \A i \in 1 .. Len(b) : d[i] = b[i],
         \A i \in 1 .. Len(c) : d[Len(b) + i] = c[i]
  PROVE  d = b \o c
<1> DEFINE e == b \o c
<1>1. /\ e \in Seq(S) /\ Len(e) = Len(b) + Len(c) /\ Len(b) \in Nat /\ Len(c) \in Nat
      /\ \A i \in 1 .. Len(b) : e[i] = b[i]
      /\ \A i \in 1 .. Len(c) : e[Len(b) + i] = c[i]
  BY JoinIs
<1> HIDE DEF e
<1>2. ASSUME NEW i \in 1 .. Len(d) PROVE d[i] = e[i]
  <2>1. CASE i \in 1 .. Len(b)
    BY <1>1, <2>1
  <2>2. CASE i > Len(b)
    <3> DEFINE j == i - Len(b)
    <3>1. j \in 1 .. Len(c) /\ i = Len(b) + j
      BY <1>1, <2>2
    <3> HIDE DEF j
    <3>2. d[Len(b) + j] = c[j] /\ e[Len(b) + j] = c[j]
      BY <1>1, <3>1
    <3>3. QED
      BY <3>1, <3>2
  <2>3. QED
    BY <1>1, <2>1, <2>2
<1>3. d = e
  BY <1>1, <1>2, SeqEqual
<1>4. QED
  BY <1>3 DEF e

LEMMA RestOfLeft ==
  ASSUME NEW S, NEW b \in Seq(S), NEW c \in Seq(S), NEW k \in 0 .. Len(b)
  PROVE  Rest(b, k) \o c = Rest(b \o c, k)
<1> DEFINE d == b \o c
<1>1. /\ d \in Seq(S) /\ Len(d) = Len(b) + Len(c) /\ Len(b) \in Nat /\ Len(c) \in Nat
      /\ \A i \in 1 .. Len(b) : d[i] = b[i]
      /\ \A i \in 1 .. Len(c) : d[Len(b) + i] = c[i]
  BY JoinIs
<1> HIDE DEF d
<1>2. /\ Rest(b, k) \in Seq(S) /\ Len(Rest(b, k)) = Len(b) - k
      /\ \A i \in 1 .. Len(b) - k : Rest(b, k)[i] = b[i + k] /\ i + k \in 1 .. Len(b)
  BY RestIs
<1>3. k \in 0 .. Len(d)
  BY <1>1
<1>4. /\ Rest(d, k) \in Seq(S) /\ Len(Rest(d, k)) = Len(d) - k
      /\ \A i \in 1 .. Len(d) - k : Rest(d, k)[i] = d[i + k]
  BY <1>1, <1>3, RestIs
<1>5. Len(Rest(d, k)) = Len(Rest(b, k)) + Len(c)
  BY <1>1, <1>2, <1>4
<1>6. \A i \in 1 .. Len(Rest(b, k)) : Rest(d, k)[i] = Rest(b, k)[i]
  BY <1>1, <1>2, <1>4
<1>7. ASSUME NEW i \in 1 .. Len(c) PROVE Rest(d, k)[Len(Rest(b, k)) + i] = c[i]
  <2>1. Len(Rest(b, k)) + i \in 1 .. Len(d) - k /\ (Len(Rest(b, k)) + i) + k = Len(b) + i
    BY <1>1, <1>2
  <2>2. QED
    BY <1>1, <1>4, <2>1
<1>8. Rest(d, k) = Rest(b, k) \o c
  BY <1>2, <1>4, <1>5, <1>6, <1>7, JoinedIs
<1>9. QED
  BY <1>8 DEF d

LEMMA RestOfJoin ==
  ASSUME NEW S, NEW b \in Seq(S), NEW c \in Seq(S)
  PROVE  /\ \A k \in 0 .. Len(c) : Rest(c, k) = Rest(b \o c, Len(b) + k)
         /\ \A k \in 0 .. Len(c) : (b \o SubSeq(c, 1, k)) \o Rest(c, k) = b \o c
<1> DEFINE d == b \o c
<1>1. /\ d \in Seq(S) /\ Len(d) = Len(b) + Len(c) /\ Len(b) \in Nat /\ Len(c) \in Nat
      /\ \A i \in 1 .. Len(b) : d[i] = b[i]
      /\ \A i \in 1 .. Len(c) : d[Len(b) + i] = c[i]
  BY JoinIs
<1> HIDE DEF d
<1>3. ASSUME NEW k \in 0 .. Len(c) PROVE Rest(c, k) = Rest(d, Len(b) + k)
  <2>1. /\ Rest(c, k) \in Seq(S) /\ Len(Rest(c, k)) = Len(c) - k
        /\ \A i \in 1 .. Len(c) - k : Rest(c, k)[i] = c[i + k] /\ i + k \in 1 .. Len(c)
    BY RestIs
  <2> DEFINE n == Len(b) + k
  <2>2. n \in 0 .. Len(d) /\ Len(d) - n = Len(c) - k /\ n = Len(b) + k
    BY <1>1
  <2> HIDE DEF n
  <2>3. /\ Rest(d, n) \in Seq(S) /\ Len(Rest(d, n)) = Len(c) - k
        /\ \A i \in 1 .. Len(c) - k : Rest(d, n)[i] = d[i + n]
    <3>1. /\ Rest(d, n) \in Seq(S) /\ Len(Rest(d, n)) = Len(d) - n
          /\ \A i \in 1 .. Len(d) - n : Rest(d, n)[i] = d[i + n]
      <4>1. d \in Seq(S) /\ n \in 0 .. Len(d)
        BY <1>1, <2>2
      <4>2. QED
        BY ONLY <4>1, RestIs
    <3>2. QED
      BY ONLY <2>2, <3>1
  <2>4. ASSUME NEW i \in 1 .. Len(c) - k PROVE Rest(c, k)[i] = Rest(d, n)[i]
    <3>1. i + k \in 1 .. Len(c) /\ i + n = Len(b) + (i + k)
      BY <1>1, <2>1, <2>2
    <3>2. d[Len(b) + (i + k)] = c[i + k]
      BY <1>1, <3>1
    <3>3. QED
      BY <2>1, <2>3, <3>1, <3>2
  <2>5. Rest(c, k) = Rest(d, n)
    BY <2>1, <2>3, <2>4, SeqEqual
  <2>6. QED
    BY <2>2, <2>5
<1>4. ASSUME NEW k \in 0 .. Len(c) PROVE (b \o SubSeq(c, 1, k)) \o Rest(c, k) = d
  <2>1. /\ SubSeq(c, 1, k) \in Seq(S) /\ Len(SubSeq(c, 1, k)) = k
        /\ \A i \in 1 .. k : SubSeq(c, 1, k)[i] = c[i]
    BY <1>1, SubSeqProperties
  <2>2. /\ Rest(c, k) \in Seq(S) /\ Len(Rest(c, k)) = Len(c) - k
        /\ \A i \in 1 .. Len(c) - k : Rest(c, k)[i] = c[i + k] /\ i + k \in 1 .. Len(c)
    BY RestIs
  <2>3. c = SubSeq(c, 1, k) \o Rest(c, k)
    <3>1. Len(c) = Len(SubSeq(c, 1, k)) + Len(Rest(c, k)) /\ k \in Nat
      BY <1>1, <2>1, <2>2
    <3>2. \A i \in 1 .. Len(Rest(c, k)) : c[Len(SubSeq(c, 1, k)) + i] = Rest(c, k)[i]
      BY <2>1, <2>2
    <3>3. \A i \in 1 .. Len(SubSeq(c, 1, k)) : c[i] = SubSeq(c, 1, k)[i]
      BY <2>1
    <3>4. QED
      BY <2>1, <2>2, <3>1, <3>2, <3>3, JoinedIs
  <2> DEFINE x == SubSeq(c, 1, k)
             y == Rest(c, k)
  <2>x. x \in Seq(S) /\ y \in Seq(S) /\ b \in Seq(S)
    BY <2>1, <2>2
  <2> HIDE DEF x, y
  <2>y. (b \o x) \o y = b \o (x \o y)
    BY ONLY <2>x, ConcatAssociative
  <2>4. (b \o SubSeq(c, 1, k)) \o Rest(c, k) = b \o (SubSeq(c, 1, k) \o Rest(c, k))
    BY <2>y DEF x, y
  <2>5. QED
    BY <2>3, <2>4 DEF d
<1>5. QED
  BY <1>3, <1>4 DEF d

LEMMA RestFramed ==
  ASSUME NEW b \in Seq(Pieces), Framed(b), NEW k \in 0 .. Len(b)
  PROVE  Framed(Rest(b, k))
<1>1. /\ Len(Rest(b, k)) = Len(b) - k /\ Len(b) \in Nat
      /\ \A i \in 1 .. Len(b) - k : Rest(b, k)[i] = b[i + k] /\ i + k \in 1 .. Len(b)
  BY RestIs
<1> DEFINE c == Rest(b, k)
<1> HIDE DEF c
<1>2. ASSUME NEW i \in 1 .. Len(c)
      PROVE  IF c[i].last THEN i < Len(c) => ~c[i + 1].last
             ELSE i < Len(c) /\ c[i + 1] = Fragment(c[i].of, TRUE)
  <2>1. c[i] = b[i + k] /\ i + k \in 1 .. Len(b) /\ (i < Len(c) <=> i + k < Len(b))
    BY <1>1 DEF c
  <2>2. i < Len(c) => c[i + 1] = b[i + k + 1]
    BY <1>1 DEF c
  <2>3. IF b[i + k].last THEN i + k < Len(b) => ~b[i + k + 1].last
        ELSE i + k < Len(b) /\ b[i + k + 1] = Fragment(b[i + k].of, TRUE)
    BY <2>1 DEF Framed
  <2>4. QED
    BY ONLY <2>1, <2>2, <2>3
<1>3. QED
  BY <1>2 DEF Framed, c

Messages == [id : AskedFor \cup {<<>>}, body : Bodies]

LEMMA BytesAre ==
  ASSUME NEW m \in Messages
  PROVE  /\ Bytes(m) \in Seq(Pieces) /\ Len(Bytes(m)) = 2
         /\ Bytes(m)[1] = Fragment(m, FALSE) /\ Bytes(m)[2] = Fragment(m, TRUE)
         /\ Fragment(m, FALSE).of = m /\ Fragment(m, TRUE).of = m
         /\ ~Fragment(m, FALSE).last /\ Fragment(m, TRUE).last
BY DEF Messages, Bytes, Fragment, Pieces

\* One more message on the wire.
LEMMA MessageComes ==
  ASSUME NEW b \in Seq(Pieces), Framed(b), NEW m \in Messages
  PROVE  /\ b \o Bytes(m) \in Seq(Pieces) /\ Framed(b \o Bytes(m))
         /\ Aligned(b) => Aligned(b \o Bytes(m))
         /\ \A i \in 1 .. Len(b \o Bytes(m)) :
              (b \o Bytes(m))[i].of = m \/ (i \in 1 .. Len(b) /\ (b \o Bytes(m))[i] = b[i])
<1> DEFINE w == Bytes(m)
           c == b \o w
<1>1. /\ w \in Seq(Pieces) /\ Len(w) = 2 /\ w[1] = Fragment(m, FALSE) /\ w[2] = Fragment(m, TRUE)
      /\ w[1].of = m /\ w[2].of = m /\ ~w[1].last /\ w[2].last
  BY BytesAre
<1> HIDE DEF w
<1>2. /\ c \in Seq(Pieces) /\ Len(c) = Len(b) + Len(w) /\ Len(b) \in Nat
      /\ \A i \in 1 .. Len(b) : c[i] = b[i]
      /\ \A i \in 1 .. Len(w) : c[Len(b) + i] = w[i]
  <2>1. b \in Seq(Pieces) /\ w \in Seq(Pieces)
    BY <1>1
  <2>2. QED
    BY ONLY <2>1, JoinIs
<1> HIDE DEF c
<1>3. /\ Len(c) = Len(b) + 2
      /\ c[Len(b) + 1] = w[1] /\ c[Len(b) + 2] = w[2]
  <2>1. 1 \in 1 .. Len(w) /\ 2 \in 1 .. Len(w)
    BY <1>1
  <2>2. QED
    BY ONLY <1>1, <1>2, <2>1
<1>e. w[2] = Fragment(w[1].of, TRUE)
  BY <1>1
<1>4. ASSUME NEW i \in 1 .. Len(c)
      PROVE  /\ IF c[i].last THEN i < Len(c) => ~c[i + 1].last
                ELSE i < Len(c) /\ c[i + 1] = Fragment(c[i].of, TRUE)
             /\ c[i].of = m \/ (i \in 1 .. Len(b) /\ c[i] = b[i])
  <2>1. CASE i \in 1 .. Len(b)
    <3>1. /\ c[i] = b[i]
          /\ IF b[i].last THEN i < Len(b) => ~b[i + 1].last
             ELSE i < Len(b) /\ b[i + 1] = Fragment(b[i].of, TRUE)
      BY <1>2, <2>1 DEF Framed
    <3>2. CASE i < Len(b)
      <4>1. c[i + 1] = b[i + 1] /\ i < Len(c)
        BY <1>2, <2>1, <3>2
      <4>2. QED
        BY ONLY <2>1, <3>1, <3>2, <4>1
    <3>3. CASE i = Len(b)
      <4>1. b[i].last /\ ~c[i + 1].last
        <5>1. c[i + 1] = w[1] /\ ~(i < Len(b))
          BY ONLY <1>2, <1>3, <3>3
        <5>2. QED
          BY ONLY <1>1, <3>1, <5>1
      <4>2. QED
        BY ONLY <2>1, <3>1, <4>1
    <3>4. QED
      <4>1. i < Len(b) \/ i = Len(b)
        BY <1>2, <2>1
      <4>2. QED
        BY ONLY <3>2, <3>3, <4>1
  <2>2. CASE i = Len(b) + 1
    <3>1. c[i] = w[1] /\ c[i + 1] = w[2] /\ i < Len(c)
      BY <1>2, <1>3, <2>2
    <3>2. QED
      BY ONLY <1>1, <1>e, <3>1
  <2>3. CASE i = Len(b) + 2
    <3>1. c[i] = w[2] /\ ~(i < Len(c))
      BY <1>2, <1>3, <2>3
    <3>2. QED
      BY ONLY <1>1, <3>1
  <2>4. QED
    <3>1. i \in 1 .. Len(b) \/ i = Len(b) + 1 \/ i = Len(b) + 2
      BY <1>2, <1>3, <1>1
    <3>2. QED
      BY ONLY <2>1, <2>2, <2>3, <3>1
<1>5. Aligned(b) => Aligned(c)
  <2>1. CASE b = <<>>
    <3>1. Len(b) = 0
      BY <2>1
    <3>2. c[1] = w[1]
      BY ONLY <1>3, <3>1
    <3>3. QED
      BY <1>1, <3>2 DEF Aligned
  <2>2. CASE b # <<>>
    <3>1. 1 \in 1 .. Len(b)
      BY <1>2, <2>2, EmptySeq
    <3>2. c[1] = b[1]
      BY <1>2, <3>1
    <3>3. QED
      BY <2>2, <3>2 DEF Aligned
  <2>3. QED
    BY <2>1, <2>2
<1>6. Framed(c)
  BY <1>4 DEF Framed
<1>7. QED
  BY <1>2, <1>4, <1>5, <1>6 DEF c, w

\* The first line of what has come is whole, unless it lacks its beginning.
LEMMA FirstLine ==
  ASSUME FramingInv, Lines(pending) # {}
  PROVE  /\ LineEnd \in 1 .. Len(pending) /\ LineEnd \in 1 .. Len(Stream) /\ Stream[LineEnd].last
         /\ Message = Stream[1].of /\ Stream # <<>>
         /\ Whole <=> ~Stream[1].last
<1>1. /\ pending \in Seq(Pieces) /\ wire \in Seq(Pieces) /\ Framed(Stream)
      /\ Stream \in Seq(Pieces) /\ Len(Stream) = Len(pending) + Len(wire)
      /\ Len(pending) \in Nat /\ Len(wire) \in Nat
      /\ \A i \in 1 .. Len(pending) : Stream[i] = pending[i]
  BY JoinIs DEF FramingInv, Stream
<1>2. PICK n \in 1 .. Len(pending) : pending[n].last
  BY DEF Lines
<1>3. 1 \in 1 .. Len(pending) /\ 1 \in 1 .. Len(Stream) /\ Stream[1] = pending[1] /\ Stream # <<>>
  BY <1>1, <1>2
<1>4. \A k \in Lines(pending) : (\A i \in Lines(pending) : k <= i) => LineEnd = k
  <2> SUFFICES ASSUME NEW k \in Lines(pending), \A i \in Lines(pending) : k <= i
               PROVE  LineEnd = k
    OBVIOUS
  <2>1. LineEnd \in Lines(pending) /\ \A i \in Lines(pending) : LineEnd <= i
    BY DEF LineEnd
  <2>2. LineEnd \in Nat /\ k \in Nat /\ LineEnd <= k /\ k <= LineEnd
    BY <2>1 DEF Lines
  <2>3. QED
    BY <2>2
<1>5. CASE pending[1].last
  <2>1. 1 \in Lines(pending) /\ \A i \in Lines(pending) : 1 <= i
    BY <1>3, <1>5 DEF Lines
  <2>2. LineEnd = 1
    BY <1>4, <2>1
  <2>3. QED
    BY <1>3, <1>5, <2>2 DEF Whole, Message
<1>6. CASE ~pending[1].last
  <2>1. Stream[2] = Fragment(Stream[1].of, TRUE)
    <3>1. 1 < Len(Stream) /\ Stream[1 + 1] = Fragment(Stream[1].of, TRUE)
      BY <1>1, <1>3, <1>6 DEF Framed
    <3>2. 1 + 1 = 2
      OBVIOUS
    <3>3. QED
      BY ONLY <3>1, <3>2, Zenon
  <2>2. n # 1 /\ 2 \in 1 .. Len(pending)
    BY <1>1, <1>2, <1>6
  <2>3. pending[2] = Fragment(pending[1].of, TRUE) /\ Stream[2] = pending[2] /\ 2 \in 1 .. Len(Stream)
    <3>1. Stream[2] = pending[2] /\ 2 \in 1 .. Len(Stream)
      BY <1>1, <2>2
    <3>2. pending[2] = Fragment(pending[1].of, TRUE)
      BY ONLY <1>3, <2>1, <3>1, Zenon
    <3>3. QED
      BY <3>1, <3>2
  <2>4. pending[2].last /\ pending[2].of = pending[1].of
    BY <2>3 DEF Fragment
  <2>5. 2 \in Lines(pending) /\ \A i \in Lines(pending) : 2 <= i
    BY <1>6, <2>2, <2>4 DEF Lines
  <2>6. LineEnd = 2
    BY <1>4, <2>5
  <2>7. Message = pending[1].of
    BY <2>4, <2>6 DEF Message
  <2>8. pending[1] \in Pieces
    BY <1>1, <1>3, ElementOfSeq
  <2>9. pending[1] = Fragment(Message, FALSE)
    BY <1>6, <2>7, <2>8 DEF Pieces, Fragment
  <2>10. QED
    BY <1>3, <1>6, <2>2, <2>3, <2>4, <2>6, <2>7, <2>9 DEF Whole
<1>7. QED
  BY <1>5, <1>6
-----------------------------------------------------------------------------
(* The installer's reading of the configuration: the stream in a step.     *)

\* What is in the stream after a step was there before, or is m.
From(m) ==
  \A i \in 1 .. Len(Stream') : Stream'[i].of = m \/ \E j \in 1 .. Len(Stream) : Stream'[i] = Stream[j]
Old == \A i \in 1 .. Len(Stream') : \E j \in 1 .. Len(Stream) : Stream'[i] = Stream[j]

StreamKept ==
  /\ pending' \in Seq(Pieces) /\ wire' \in Seq(Pieces) /\ Framed(Stream')
  /\ Aligned(Stream) => Aligned(Stream')

LEMMA TellStep ==
  ASSUME FramingInv, NEW m \in Messages, wire' = wire \o Bytes(m), pending' = pending
  PROVE  StreamKept /\ From(m) /\ Stream' = Stream \o Bytes(m)
<1> DEFINE w == Bytes(m)
           b == Stream
           c == b \o w
<1>1. w \in Seq(Pieces) /\ pending \in Seq(Pieces) /\ wire \in Seq(Pieces) /\ b \in Seq(Pieces)
      /\ Framed(b) /\ b = pending \o wire
  BY BytesAre, JoinIs DEF FramingInv, Stream
<1>2. /\ c \in Seq(Pieces) /\ Framed(c) /\ (Aligned(b) => Aligned(c))
      /\ \A i \in 1 .. Len(c) : c[i].of = m \/ (i \in 1 .. Len(b) /\ c[i] = b[i])
  BY <1>1, MessageComes
<1> HIDE DEF w, b
<1>3. wire' \in Seq(Pieces)
  <2>1. wire \o w \in Seq(Pieces)
    BY ONLY <1>1, JoinIs
  <2>2. QED
    BY <2>1 DEF w
<1>4. Stream' = c
  <2>1. Stream' = pending \o (wire \o w)
    BY DEF Stream, w
  <2>2. (pending \o wire) \o w = pending \o (wire \o w)
    BY ONLY <1>1, ConcatAssociative
  <2>3. QED
    BY <1>1, <2>1, <2>2
<1> HIDE DEF c
<1>5. From(m)
  BY <1>2, <1>4 DEF From, b
<1>6. Stream' = Stream \o Bytes(m)
  BY <1>4 DEF c, b, w
<1>7. QED
  BY <1>1, <1>2, <1>3, <1>4, <1>5, <1>6 DEF StreamKept, b

\* A part of the stream is read or dropped.
LEMMA RestStep ==
  ASSUME FramingInv, NEW k \in 0 .. Len(Stream), Stream' = Rest(Stream, k)
  PROVE  /\ Framed(Stream') /\ Old
         /\ k # 0 /\ Stream[k].last => Aligned(Stream')
<1> DEFINE b == Stream
           c == Rest(b, k)
<1>1. b \in Seq(Pieces) /\ Framed(b)
  BY JoinIs DEF FramingInv, Stream
<1>2. /\ c \in Seq(Pieces) /\ Len(c) = Len(b) - k /\ Len(b) \in Nat
      /\ \A i \in 1 .. Len(b) - k : c[i] = b[i + k] /\ i + k \in 1 .. Len(b)
  BY <1>1, RestIs
<1>3. Framed(c)
  BY <1>1, RestFramed
<1> HIDE DEF c
<1>4. Old
  BY <1>2 DEF Old, c
<1>5. ASSUME k # 0, b[k].last PROVE Aligned(c)
  <2> SUFFICES ASSUME c # <<>> PROVE ~c[1].last
    BY DEF Aligned
  <2>1. 1 \in 1 .. Len(c)
    BY <1>2, EmptySeq
  <2>2. c[1] = b[1 + k] /\ k \in 1 .. Len(b) /\ k < Len(b) /\ 1 + k = k + 1
    BY <1>2, <1>5, <2>1
  <2>3. ~b[k + 1].last
    BY <1>1, <1>5, <2>2 DEF Framed
  <2>4. QED
    BY <2>2, <2>3
<1>6. QED
  BY <1>3, <1>4, <1>5 DEF c

LEMMA SameStep ==
  ASSUME FramingInv, UNCHANGED <<pending, wire>>
  PROVE  StreamKept /\ Old
<1>1. Stream' = Stream
  BY DEF Stream
<1>2. QED
  BY <1>1 DEF StreamKept, Old, FramingInv

LEMMA TakeStep ==
  ASSUME FramingInv, Lines(pending) # {}, pending' = Remainder, wire' = wire
  PROVE  StreamKept /\ Old /\ Aligned(Stream') /\ Stream' = Rest(Stream, LineEnd)
<1>1. /\ pending \in Seq(Pieces) /\ wire \in Seq(Pieces) /\ LineEnd \in 1 .. Len(pending)
      /\ LineEnd \in 1 .. Len(Stream) /\ Stream[LineEnd].last /\ Len(pending) \in Nat
  BY FirstLine, LenProperties DEF FramingInv
<1> DEFINE k == LineEnd
<1>2. k \in 1 .. Len(pending) /\ k \in 0 .. Len(pending) /\ k \in 0 .. Len(Stream) /\ k # 0
  BY <1>1
<1> HIDE DEF k
<1>3. pending' = Rest(pending, k)
  BY DEF Remainder, Rest, k
<1>4. pending' \in Seq(Pieces)
  BY <1>1, <1>2, <1>3, RestIs
<1>5. Rest(pending, k) \o wire = Rest(pending \o wire, k)
  <2>1. pending \in Seq(Pieces) /\ wire \in Seq(Pieces) /\ k \in 0 .. Len(pending)
    BY <1>1, <1>2
  <2>2. QED
    BY ONLY <2>1, RestOfLeft
<1>6. Stream' = Rest(Stream, k)
  BY <1>3, <1>5 DEF Stream
<1>7. QED
  BY <1>1, <1>2, <1>4, <1>6, RestStep DEF StreamKept, k

LEMMA ReceiveStep ==
  ASSUME FramingInv, Receive
  PROVE  StreamKept /\ Old /\ Stream' = Stream
<1>1. pending \in Seq(Pieces) /\ wire \in Seq(Pieces) /\ Len(wire) \in Nat
  BY LenProperties DEF FramingInv
<1>2. PICK n \in 1 .. Len(wire) : pending' = pending \o SubSeq(wire, 1, n) /\ wire' = Rest(wire, n)
  BY DEF Receive, Rest
<1>3. n \in 0 .. Len(wire)
  BY <1>1
<1>4. (pending \o SubSeq(wire, 1, n)) \o Rest(wire, n) = pending \o wire
  BY <1>1, <1>3, RestOfJoin
<1>5. Stream' = Stream
  BY <1>2, <1>4 DEF Stream
<1>6. wire' \in Seq(Pieces)
  BY <1>1, <1>2, <1>3, RestIs
<1>7. SubSeq(wire, 1, n) \in Seq(Pieces)
  BY <1>1, <1>3, SubSeqProperties
<1>8. pending' \in Seq(Pieces)
  BY <1>1, <1>2, <1>7, ConcatProperties
<1>9. QED
  BY <1>5, <1>6, <1>8 DEF StreamKept, Old, FramingInv

LEMMA OpenStep ==
  ASSUME FramingInv, Open
  PROVE  pending' \in Seq(Pieces) /\ wire' \in Seq(Pieces) /\ Framed(Stream') /\ Old
<1>1. pending \in Seq(Pieces) /\ wire \in Seq(Pieces) /\ Len(wire) \in Nat /\ Len(pending) \in Nat
      /\ Len(Stream) = Len(pending) + Len(wire)
  BY JoinIs DEF FramingInv, Stream
<1>2. PICK n \in 0 .. Len(wire) : pending' = <<>> /\ wire' = Rest(wire, n)
  BY DEF Open, Rest
<1>3. Rest(wire, n) = Rest(pending \o wire, Len(pending) + n) /\ Rest(wire, n) \in Seq(Pieces)
  BY <1>1, RestIs, RestOfJoin
<1>4. Stream' = Rest(wire, n)
  <2>1. Stream' = <<>> \o Rest(wire, n)
    BY <1>2 DEF Stream
  <2>2. QED
    BY <1>3, <2>1, ConcatEmptySeq
<1> DEFINE k == Len(pending) + n
<1>5. k \in 0 .. Len(Stream)
  BY <1>1
<1> HIDE DEF k
<1>6. Stream' = Rest(Stream, k)
  BY <1>3, <1>4 DEF Stream, k
<1>7. pending' \in Seq(Pieces) /\ wire' \in Seq(Pieces)
  BY <1>2, <1>3, EmptySeq
<1>8. QED
  BY <1>5, <1>6, <1>7, RestStep
-----------------------------------------------------------------------------
(* The installer's reading of the configuration: framing and ids.          *)

Reply == [id |-> Head(todo), body |-> Answer(Head(todo))]

LEMMA PageFromIs ==
  ASSUME SimpleInv, NEW offset \in Nat
  PROVE  PageFrom(offset) = PageOf(patches, revision, offset) /\ PageFrom(offset) \in Bodies
<1>1. patches \in Seq(Nat) /\ Len(patches) \in Nat /\ PageSize \in Nat /\ revision \in Nat
  BY SnapshotAssumption, LenProperties DEF SimpleInv
<1> DEFINE end == IF paged /\ offset + PageSize < Len(patches) THEN offset + PageSize ELSE Len(patches)
<1>2. end \in 0 .. Len(patches)
  BY <1>1
<1> HIDE DEF end
<1>3. \A i \in offset + 1 .. end : patches[i] \in Nat
  BY <1>1, <1>2, ElementOfSeq
<1>4. SubSeq(patches, offset + 1, end) \in Seq(Nat)
  <2>1. offset + 1 \in Int /\ end \in Int
    BY <1>2
  <2>2. QED
    BY <1>3, <2>1, SubSeqProperties
<1>5. PageFrom(offset) = [patches |-> SubSeq(patches, offset + 1, end), revision |-> revision,
                          total |-> Len(patches), next |-> IF end < Len(patches) THEN end ELSE 0]
  BY DEF PageFrom, end
<1>6. (IF end < Len(patches) THEN end ELSE 0) \in Nat
  BY <1>1, <1>2
<1>7. PageFrom(offset) \in [patches : Seq(Nat), revision : Nat, total : Nat, next : Nat]
  BY <1>1, <1>4, <1>5, <1>6
<1>8. QED
  <2>1. PageFrom(offset) = PageOf(patches, revision, offset)
    BY DEF PageFrom, PageOf
  <2>2. QED
    BY <1>7, <2>1, Zenon DEF Bodies

LEMMA ReplyIs ==
  ASSUME SimpleInv, IdsInv, todo # <<>>
  PROVE  /\ Reply \in Messages /\ Reply.id = Head(todo) /\ Head(todo) \in AskedFor
         /\ Head(todo)[1] <= sessions
         /\ Reply.id[2] = "page" => Reply.body = PageOf(patches, revision, Reply.id[3])
         /\ Tail(todo) \in Seq(AskedFor)
         /\ \A i \in 1 .. Len(Tail(todo)) : Tail(todo)[i][1] <= sessions
<1>1. /\ todo \in Seq(AskedFor) /\ Head(todo) \in AskedFor /\ Tail(todo) \in Seq(AskedFor)
      /\ Len(Tail(todo)) = Len(todo) - 1 /\ Len(todo) \in Nat
      /\ \A i \in 1 .. Len(Tail(todo)) : Tail(todo)[i] = todo[i + 1]
  BY HeadTailProperties, LenProperties DEF IdsInv
<1>2. 1 \in 1 .. Len(todo) /\ Head(todo) = todo[1]
  BY <1>1, EmptySeq
<1>3. Head(todo)[1] <= sessions
  BY <1>2 DEF IdsInv
<1>4. ASSUME NEW i \in 1 .. Len(Tail(todo)) PROVE Tail(todo)[i][1] <= sessions
  <2>1. i + 1 \in 1 .. Len(todo) /\ Tail(todo)[i] = todo[i + 1]
    BY <1>1
  <2>2. QED
    BY <2>1 DEF IdsInv
<1> DEFINE a == Head(todo)
<1>5. a \in AskedFor /\ a[3] \in Nat /\ a[2] \in Requests
  BY <1>1 DEF AskedFor
<1> HIDE DEF a
<1>6. PageFrom(a[3]) = PageOf(patches, revision, a[3]) /\ PageFrom(a[3]) \in Bodies
  BY <1>5, PageFromIs
<1>7. a[2] = "page" => Answer(a) = PageOf(patches, revision, a[3])
  BY <1>6 DEF Answer
<1>8. Answer(a) \in Bodies
  <2>1. dirty \in Bodies /\ profiles \in Bodies /\ "ok" \in Bodies
    BY DEF SimpleInv, Bodies
  <2>2. ToSet(patches) \in Bodies
    <3>1. patches \in Seq(Nat) /\ DOMAIN patches = 1 .. Len(patches)
      BY SnapshotAssumption, LenProperties DEF SimpleInv
    <3>2. \A i \in DOMAIN patches : patches[i] \in Nat
      BY <3>1, ElementOfSeq
    <3>3. ToSet(patches) \subseteq Nat
      BY <3>2 DEF ToSet
    <3>4. QED
      BY <3>3 DEF Bodies
  <2>3. QED
    BY <1>6, <2>1, <2>2 DEF Answer
<1>9. Reply = [id |-> a, body |-> Answer(a)]
  BY DEF Reply, a
<1>10. Reply \in Messages /\ Reply.id = a /\ Reply.body = Answer(a)
  BY <1>5, <1>8, <1>9 DEF Messages
<1>11. QED
  BY <1>1, <1>3, <1>4, <1>7, <1>10 DEF a

LEMMA ProgressIs ==
  ASSUME Progress
  PROVE  /\ \E s \in Requests : Answered(s)
         /\ UNCHANGED <<captainVars, sessions, malformed>> /\ request' \in Requests \cup Results
BY DEF Progress, Found, NotDirty, Listed, Page, WholeList, GotPatch, ListedAgain, resultVars,
       GoOn, Fails, Complete, Requests, Results

\* What a step does to the stream.
StreamStep ==
  \/ Old
  \/ UNCHANGED <<configVars, sessions, read, request, page>> /\
       (\/ \E m \in Messages : m.id = <<>> /\ From(m)
        \/ todo # <<>> /\ todo' = Tail(todo) /\ From(Reply))

LEMMA FramingStep ==
  ASSUME SimpleInv, FramingInv, IdsInv, [SnapshotNext]_snapshotVars
  PROVE  FramingInv' /\ StreamStep
<1> SUFFICES /\ pending' \in Seq(Pieces) /\ wire' \in Seq(Pieces) /\ Framed(Stream')
             /\ request' \in Requests \ {"ping"} => Aligned(Stream')
             /\ ~malformed' /\ StreamStep
  BY DEF FramingInv, Framed, Aligned, Fragment, Requests
<1>1. request \in Requests \ {"ping"} => Aligned(Stream)
  BY DEF FramingInv
<1>2. ~malformed
  BY DEF FramingInv
<1>3. CASE Answers
  <2>1. /\ todo # <<>> /\ wire' = wire \o Bytes(Reply) /\ todo' = Tail(todo)
        /\ UNCHANGED <<configVars, sessions, request, pending, resultVars>>
    BY <1>3 DEF Answers, Reply
  <2>2. Reply \in Messages
    BY <2>1, ReplyIs
  <2>3. StreamKept /\ From(Reply)
    BY <2>1, <2>2, TellStep
  <2>4. QED
    BY <1>1, <1>2, <2>1, <2>3 DEF StreamKept, StreamStep, resultVars
<1>4. CASE Event
  <2> DEFINE m == [id |-> <<>>, body |-> events]
  <2>1. /\ wire' = wire \o Bytes(m)
        /\ UNCHANGED <<configVars, sessions, request, pending, resultVars>>
    BY <1>4 DEF Event
  <2>2. m \in Messages /\ m.id = <<>>
    BY DEF Messages, SimpleInv, Bodies
  <2> HIDE DEF m
  <2>3. StreamKept /\ From(m)
    BY <2>1, <2>2, TellStep
  <2>4. QED
    BY <1>1, <1>2, <2>1, <2>2, <2>3 DEF StreamKept, StreamStep, resultVars
<1>5. CASE Change \/ Saved \/ Ask \/ GiveUp \/ UNCHANGED snapshotVars
  <2>1. UNCHANGED <<pending, wire, malformed>> /\ (request' = request \/ request' = "failed")
    BY <1>5 DEF Change, Saved, Ask, GiveUp, Fails, snapshotVars, captainVars, resultVars
  <2>2. StreamKept /\ Old
    BY <2>1, SameStep
  <2>3. QED
    BY <1>1, <1>2, <2>1, <2>2 DEF StreamKept, StreamStep, Requests
<1>6. CASE Open
  <2>1. request' = "ping" /\ ~malformed'
    BY <1>6 DEF Open
  <2>2. QED
    BY <1>6, <2>1, OpenStep DEF StreamStep
<1>7. CASE Receive
  <2>1. UNCHANGED <<malformed, request>>
    BY <1>7 DEF Receive, resultVars
  <2>2. QED
    BY <1>1, <1>2, <1>7, <2>1, ReceiveStep DEF StreamStep, StreamKept
<1>8. CASE Skip
  <2>1. Lines(pending) # {} /\ pending' = Remainder /\ wire' = wire /\ malformed' = malformed
    BY <1>8 DEF Skip, captainVars, resultVars
  <2>2. QED
    BY <1>2, <2>1, TakeStep DEF StreamStep, StreamKept
<1>9. CASE Malformed
  <2>1. Lines(pending) # {} /\ request \in Requests \ {"ping"} /\ ~Whole
    BY <1>9 DEF Malformed, SimpleInv
  <2>2. Stream # <<>> /\ (Whole <=> ~Stream[1].last)
    BY <2>1, FirstLine
  <2>3. QED
    BY <1>1, <2>1, <2>2 DEF Aligned
<1>10. CASE Progress
  <2>1. PICK s \in Requests : Answered(s)
    BY <1>10, ProgressIs
  <2>2. Lines(pending) # {} /\ pending' = Remainder
    BY <2>1 DEF Answered
  <2>3. wire' = wire /\ malformed' = malformed
    BY <1>10, ProgressIs DEF captainVars
  <2>4. QED
    BY <1>2, <2>2, <2>3, TakeStep DEF StreamStep, StreamKept
<1>11. QED
  BY <1>3, <1>4, <1>5, <1>6, <1>7, <1>8, <1>9, <1>10 DEF SnapshotNext

LEMMA IdsStep ==
  ASSUME SimpleInv, FramingInv, IdsInv, [SnapshotNext]_snapshotVars, StreamStep
  PROVE  IdsInv' /\ sessions' \in Nat /\ sessions <= sessions'
<1>1. sessions' \in Nat /\ sessions \in Nat /\ sessions <= sessions'
  <2>1. Open => sessions' = sessions + 1
    BY DEF Open
  <2>2. Progress => sessions' = sessions
    BY ProgressIs
  <2>3. Answers \/ Event \/ Change \/ Saved \/ Ask => sessions' = sessions
    BY DEF Answers, Event, Change, Saved, Ask
  <2>4. Receive \/ Skip \/ Malformed \/ GiveUp \/ UNCHANGED snapshotVars => sessions' = sessions
    BY DEF Receive, Skip, Malformed, GiveUp, snapshotVars
  <2>5. sessions \in Nat /\ (sessions' = sessions \/ sessions' = sessions + 1)
    BY <2>1, <2>2, <2>3, <2>4 DEF SimpleInv, SnapshotNext
  <2>6. QED
    BY ONLY <2>5
<1>2. todo \in Seq(AskedFor) /\ Len(todo) \in Nat /\ \A i \in 1 .. Len(todo) : todo[i][1] <= sessions
  BY LenProperties DEF IdsInv
<1>3. ASSUME NEW a \in AskedFor, a[1] <= sessions PROVE a[1] <= sessions'
  BY <1>1, <1>3 DEF AskedFor
<1>4. /\ todo' \in Seq(AskedFor)
      /\ \A i \in 1 .. Len(todo') : todo'[i][1] <= sessions'
  <2>1. CASE todo' = todo
    <3>1. \A i \in 1 .. Len(todo) : todo[i] \in AskedFor
      BY <1>2, ElementOfSeq
    <3>2. QED
      BY <1>2, <1>3, <2>1, <3>1
  <2>2. CASE todo # <<>> /\ todo' = Tail(todo)
    <3>1. /\ Tail(todo) \in Seq(AskedFor)
          /\ \A i \in 1 .. Len(Tail(todo)) : Tail(todo)[i][1] <= sessions
      BY <2>2, ReplyIs
    <3>2. \A i \in 1 .. Len(Tail(todo)) : Tail(todo)[i] \in AskedFor
      BY <3>1, ElementOfSeq
    <3>3. QED
      BY <1>3, <2>2, <3>1, <3>2
  <2>3. CASE Ask
    <3>1. Id \in AskedFor /\ Id[1] = sessions /\ todo' = Append(todo, Id) /\ sessions' = sessions
      <4>1. Len(read) \in Nat
        BY LenProperties DEF SimpleInv
      <4>2. QED
        BY <2>3, <4>1 DEF Ask, Id, AskedFor, SimpleInv
    <3> DEFINE x == Id
               t == Append(todo, x)
    <3>2. x \in AskedFor /\ x[1] = sessions /\ todo' = t
      BY <3>1
    <3> HIDE DEF x
    <3>3. /\ t \in Seq(AskedFor) /\ Len(t) = Len(todo) + 1
          /\ \A i \in 1 .. Len(todo) : t[i] = todo[i]
          /\ t[Len(todo) + 1] = x
      BY <1>2, <3>2, AppendProperties
    <3> HIDE DEF t
    <3>4. ASSUME NEW i \in 1 .. Len(t) PROVE t[i][1] <= sessions
      <4>1. CASE i \in 1 .. Len(todo)
        BY <1>2, <3>3, <4>1
      <4>2. CASE i = Len(todo) + 1
        BY <1>1, <3>2, <3>3, <4>2
      <4>3. QED
        BY <1>2, <3>3, <4>1, <4>2
    <3>5. QED
      BY <3>1, <3>2, <3>3, <3>4
  <2>4. todo' = todo \/ (todo # <<>> /\ todo' = Tail(todo)) \/ Ask
    BY DEF SnapshotNext, Answers, Event, Change, Saved, Open, Receive, Skip, Malformed, GiveUp, Progress,
           Found, NotDirty, Listed, Page, WholeList, GotPatch, ListedAgain, snapshotVars, captainVars
  <2>5. QED
    BY <2>1, <2>2, <2>3, <2>4
<1>5. ASSUME NEW j \in 1 .. Len(Stream), Stream[j].of.id # <<>> PROVE Stream[j].of.id[1] <= sessions'
  <2>1. Stream \in Seq(Pieces)
    BY JoinIs DEF FramingInv, Stream
  <2>2. Stream[j] \in Pieces
    BY <2>1, ElementOfSeq
  <2>3. Stream[j].of.id \in AskedFor
    BY <1>5, <2>2 DEF Pieces
  <2>4. Stream[j].of.id[1] <= sessions
    BY <1>5 DEF IdsInv
  <2>5. QED
    BY <1>3, <2>3, <2>4
<1>6. ASSUME NEW i \in 1 .. Len(Stream'), Stream'[i].of.id # <<>> PROVE Stream'[i].of.id[1] <= sessions'
  <2>1. CASE \E j \in 1 .. Len(Stream) : Stream'[i] = Stream[j]
    BY <1>5, <1>6, <2>1
  <2>2. CASE todo # <<>> /\ Stream'[i].of = Reply
    <3>1. Reply.id = Head(todo) /\ Head(todo) \in AskedFor /\ Head(todo)[1] <= sessions
      BY <2>2, ReplyIs
    <3>2. QED
      BY <1>3, <2>2, <3>1
  <2>3. QED
    BY <1>6, <2>1, <2>2 DEF StreamStep, Old, From
<1>7. QED
  BY <1>1, <1>4, <1>6 DEF IdsInv
-----------------------------------------------------------------------------
(* The installer's reading of the configuration: the pages.                *)

EndOf(all, offset) ==
  IF paged /\ offset + PageSize < Len(all) THEN offset + PageSize ELSE Len(all)

LEMMA PartIs ==
  ASSUME NEW all \in Seq(Nat), NEW a \in Nat, NEW e \in 0 .. Len(all)
  PROVE  /\ SubSeq(all, a + 1, e) \in Seq(Nat)
         /\ Len(SubSeq(all, a + 1, e)) = IF a <= e THEN e - a ELSE 0
         /\ \A i \in 1 .. e - a : SubSeq(all, a + 1, e)[i] = all[a + i]
<1>1. Len(all) \in Nat
  BY LenProperties
<1> DEFINE m == a + 1
<1>2. m \in Int /\ e \in Int /\ m = a + 1 /\ e \in Nat
  BY <1>1
<1>3. \A i \in m .. e : all[i] \in Nat
  BY <1>1, <1>2, ElementOfSeq
<1> HIDE DEF m
<1>4. /\ SubSeq(all, m, e) \in Seq(Nat)
      /\ Len(SubSeq(all, m, e)) = IF m <= e THEN e - m + 1 ELSE 0
      /\ \A i \in 1 .. e - m + 1 : SubSeq(all, m, e)[i] = all[m + i - 1]
  BY ONLY <1>2, <1>3, SubSeqProperties
<1>5. Len(SubSeq(all, m, e)) = IF a <= e THEN e - a ELSE 0
  BY ONLY <1>2, <1>4, a \in Nat
<1>6. ASSUME NEW i \in 1 .. e - a PROVE SubSeq(all, m, e)[i] = all[a + i]
  <2>1. i \in 1 .. e - m + 1 /\ m + i - 1 = a + i
    BY <1>2
  <2>2. QED
    BY ONLY <1>4, <2>1
<1>7. QED
  BY <1>4, <1>5, <1>6 DEF m

\* A page that follows what was read continues it.
LEMMA PageOfIs ==
  ASSUME SimpleInv, NEW all \in Seq(Nat), NEW r, NEW a \in Nat
  PROVE  /\ PageOf(all, r, a).patches \in Seq(Nat)
         /\ PageOf(all, r, a).revision = r /\ PageOf(all, r, a).total = Len(all) /\ Len(all) \in Nat
         /\ ~paged => EndOf(all, a) = Len(all)
         /\ a <= Len(all) =>
              /\ EndOf(all, a) \in a .. Len(all)
              /\ Len(PageOf(all, r, a).patches) = EndOf(all, a) - a
              /\ SubSeq(all, 1, a) \o PageOf(all, r, a).patches = SubSeq(all, 1, EndOf(all, a))
<1>1. Len(all) \in Nat /\ PageSize \in Nat \ {0}
  BY SnapshotAssumption, LenProperties
<1> DEFINE e == EndOf(all, a)
           x == SubSeq(all, a + 1, e)
           y == SubSeq(all, 1, a)
           z == SubSeq(all, 1, e)
<1>2. PageOf(all, r, a).patches = x /\ PageOf(all, r, a).revision = r /\ PageOf(all, r, a).total = Len(all)
  BY DEF PageOf, EndOf
<1>3. e \in 0 .. Len(all) /\ (a <= Len(all) => e \in a .. Len(all)) /\ (~paged => e = Len(all))
  BY <1>1 DEF EndOf
<1> HIDE DEF e
<1>4. x \in Seq(Nat) /\ Len(x) = (IF a <= e THEN e - a ELSE 0) /\ \A i \in 1 .. e - a : x[i] = all[a + i]
  BY <1>3, PartIs
<1>5. ASSUME a <= Len(all) PROVE y \o x = z /\ Len(x) = e - a
  <2>1. a \in 0 .. Len(all) /\ e \in a .. Len(all) /\ e \in 0 .. Len(all)
    BY <1>1, <1>3, <1>5
  <2>z. 0 + 1 = 1 /\ 0 \in Nat
    OBVIOUS
  <2>2. SubSeq(all, 0 + 1, a) \in Seq(Nat) /\ Len(SubSeq(all, 0 + 1, a)) = (IF 0 <= a THEN a - 0 ELSE 0)
        /\ \A i \in 1 .. a - 0 : SubSeq(all, 0 + 1, a)[i] = all[0 + i]
    BY ONLY <2>1, <2>z, all \in Seq(Nat), PartIs
  <2>3. y \in Seq(Nat) /\ Len(y) = a /\ \A i \in 1 .. a : y[i] = all[i]
    BY <2>1, <2>2, <2>z
  <2>4. SubSeq(all, 0 + 1, e) \in Seq(Nat) /\ Len(SubSeq(all, 0 + 1, e)) = (IF 0 <= e THEN e - 0 ELSE 0)
        /\ \A i \in 1 .. e - 0 : SubSeq(all, 0 + 1, e)[i] = all[0 + i]
    BY ONLY <2>1, <2>z, all \in Seq(Nat), PartIs
  <2>5. z \in Seq(Nat) /\ Len(z) = e /\ \A i \in 1 .. e : z[i] = all[i]
    BY <2>1, <2>4, <2>z
  <2> HIDE DEF x, y, z
  <2>6. Len(x) = e - a /\ Len(z) = Len(y) + Len(x)
    BY <1>4, <2>1, <2>3, <2>5
  <2>7. ASSUME NEW i \in 1 .. Len(y) PROVE z[i] = y[i]
    <3>1. i \in 1 .. a /\ i \in 1 .. e
      <4>1. i \in 1 .. a
        BY ONLY <2>3, i \in 1 .. Len(y)
      <4>2. QED
        BY ONLY <1>1, <2>1, <4>1
    <3>2. QED
      BY ONLY <2>3, <2>5, <3>1
  <2>8. ASSUME NEW i \in 1 .. Len(x) PROVE z[Len(y) + i] = x[i]
    <3>1. i \in 1 .. e - a /\ a + i \in 1 .. e /\ Len(y) + i = a + i
      BY <2>1, <2>3, <2>6
    <3>2. QED
      BY ONLY <1>4, <2>5, <3>1
  <2>9. z = y \o x
    BY <1>4, <2>3, <2>5, <2>6, <2>7, <2>8, JoinedIs
  <2>10. QED
    BY <2>6, <2>9
<1>6. QED
  BY <1>1, <1>2, <1>3, <1>4, <1>5 DEF e

PagesTold(h) == \A i \in 1 .. Len(Stream) : PageTold(Stream[i].of, h)

\* The answer that is read is a page of one of the lists.
LEMMA PageIs ==
  ASSUME SimpleInv, FramingInv, NEW h \in [0 .. revision -> Catalogs], PagesTold(h), Answered("page")
  PROVE  \E r \in 0 .. revision :
           h[r] \in was /\ h[r] \in Seq(Nat) /\ Message.body = PageOf(h[r], r, Len(read))
<1>1. Lines(pending) # {} /\ Message.id = Id /\ request = "page"
  BY DEF Answered
<1>2. Message = Stream[1].of /\ 1 \in 1 .. Len(Stream)
  <2>1. Stream \in Seq(Pieces) /\ Len(Stream) \in Nat
    BY JoinIs, LenProperties DEF FramingInv, Stream
  <2>2. Message = Stream[1].of /\ LineEnd \in 1 .. Len(Stream)
    BY <1>1, FirstLine
  <2>3. QED
    BY <2>1, <2>2
<1>3. PageTold(Message, h)
  BY <1>2 DEF PagesTold
<1>4. Id # <<>> /\ Id[1] = sessions /\ Id[2] = "page" /\ Id[3] = Len(read)
  BY <1>1 DEF Id
<1>5. \E r \in 0 .. revision : h[r] \in was /\ Message.body = PageOf(h[r], r, Len(read))
  BY <1>1, <1>3, <1>4 DEF PageTold
<1>6. \A r \in 0 .. revision : h[r] \in Seq(Nat)
  BY SnapshotAssumption
<1>7. QED
  BY <1>5, <1>6

LEMMA AllIs ==
  ASSUME NEW all \in Seq(Nat)
  PROVE  SubSeq(all, 1, Len(all)) = all
<1>1. 0 \in Nat /\ Len(all) \in Nat /\ Len(all) \in 0 .. Len(all) /\ 0 + 1 = 1
  BY LenProperties
<1>2. /\ SubSeq(all, 0 + 1, Len(all)) \in Seq(Nat)
      /\ Len(SubSeq(all, 0 + 1, Len(all))) = IF 0 <= Len(all) THEN Len(all) - 0 ELSE 0
      /\ \A i \in 1 .. Len(all) - 0 : SubSeq(all, 0 + 1, Len(all))[i] = all[0 + i]
  BY <1>1, PartIs
<1>3. /\ SubSeq(all, 1, Len(all)) \in Seq(Nat) /\ Len(SubSeq(all, 1, Len(all))) = Len(all)
      /\ \A i \in 1 .. Len(all) : SubSeq(all, 1, Len(all))[i] = all[i]
  BY <1>1, <1>2
<1>4. QED
  BY <1>3, SeqEqual

\* A page continues what was read, as long as the list is the one of the first page.
LEMMA PageStep ==
  ASSUME SimpleInv, FramingInv, NEW h \in [0 .. revision -> Catalogs], PagesTold(h), ReadOf(h), Page
  PROVE  /\ read' \in Seq(Nat) /\ request' \in {"failed", "page", "patch", "list again"}
         /\ request' = "page" =>
              \E r \in 0 .. revision :
                /\ page'.revision = r /\ h[r] \in was /\ page'.total = Len(h[r])
                /\ Len(read') <= Len(h[r]) /\ read' = SubSeq(h[r], 1, Len(read'))
         /\ request' \in {"patch", "list again"} =>
              read' \in was /\ (request' = "patch" <=> read' # <<>>)
<1>1. Answered("page")
  BY DEF Page
<1>2. PICK r \in 0 .. revision :
        h[r] \in was /\ h[r] \in Seq(Nat) /\ Message.body = PageOf(h[r], r, Len(read))
  BY <1>1, PageIs
<1> DEFINE all == h[r]
           p == Message.body
           a == Len(read)
<1>3. all \in Seq(Nat) /\ a \in Nat /\ p = PageOf(all, r, a) /\ read \in Seq(Nat) /\ all \in was
  BY <1>2, LenProperties DEF SimpleInv
<1>n. /\ page' = IF read = <<>> THEN [revision |-> p.revision, total |-> p.total] ELSE page
      /\ read' = read \o p.patches
      /\ IF \/ p.revision # page'.revision \/ p.total # page'.total
            \/ Len(read) + Len(p.patches) > p.total THEN Fails
         ELSE IF p.next = 0 /\ Len(read) + Len(p.patches) = p.total THEN Complete
         ELSE IF \/ p.patches = <<>> \/ Len(read) + Len(p.patches) >= p.total
                 \/ p.next # Len(read) + Len(p.patches) THEN Fails
         ELSE GoOn("page")
  BY DEF Page, Got
<1> HIDE DEF all, p, a
<1>4. /\ p.patches \in Seq(Nat) /\ p.revision = r /\ p.total = Len(all) /\ Len(all) \in Nat
      /\ a <= Len(all) =>
           /\ EndOf(all, a) \in a .. Len(all)
           /\ Len(p.patches) = EndOf(all, a) - a
           /\ SubSeq(all, 1, a) \o p.patches = SubSeq(all, 1, EndOf(all, a))
  <2> DEFINE q == PageOf(all, r, a)
  <2>1. /\ q.patches \in Seq(Nat) /\ q.revision = r /\ q.total = Len(all) /\ Len(all) \in Nat
        /\ a <= Len(all) =>
             /\ EndOf(all, a) \in a .. Len(all)
             /\ Len(q.patches) = EndOf(all, a) - a
             /\ SubSeq(all, 1, a) \o q.patches = SubSeq(all, 1, EndOf(all, a))
    <3>1. SimpleInv /\ all \in Seq(Nat) /\ a \in Nat
      BY <1>3
    <3>2. QED
      BY ONLY <3>1, PageOfIs, Zenon
  <2>2. p = q
    BY <1>3
  <2> HIDE DEF q
  <2>3. QED
    BY ONLY <2>1, <2>2
<1>5. read' \in Seq(Nat) /\ Len(read') = a + Len(p.patches)
  BY <1>3, <1>4, <1>n, ConcatProperties DEF a
<1>6. request' \in {"failed", "page", "patch", "list again"}
  BY <1>n DEF Fails, Complete, GoOn
<1>7. ASSUME request' # "failed"
      PROVE  /\ page'.revision = r /\ page'.total = Len(all) /\ Len(read') <= Len(all)
             /\ read' = SubSeq(all, 1, Len(read'))
             /\ request' # "page" =>
                  Len(read') = Len(all) /\ (request' = "patch" <=> read' # <<>>)
  <2>1. ~Fails
    BY <1>7 DEF Fails
  <2>2. p.revision = page'.revision /\ p.total = page'.total /\ ~(Len(read) + Len(p.patches) > p.total)
    BY <1>n, <2>1
  <2>3. page'.revision = r /\ page'.total = Len(all) /\ Len(read') <= Len(all)
    <3>1. a + Len(p.patches) \in Nat /\ ~(a + Len(p.patches) > Len(all))
      BY <1>3, <1>4, <2>2, LenProperties DEF a
    <3>2. QED
      BY <1>4, <1>5, <2>2, <3>1
  <2>4. a <= Len(all) /\ read = SubSeq(all, 1, a)
    <3>1. CASE read = <<>>
      <4>1. a = 0 /\ SubSeq(all, 1, a) = <<>>
        BY <3>1, EmptySeq, SubSeqEmpty DEF a
      <4>2. QED
        BY <1>4, <3>1, <4>1
    <3>2. CASE read # <<>>
      <4>1. PICK s \in 0 .. revision :
              /\ page.revision = s /\ h[s] \in was /\ page.total = Len(h[s])
              /\ Len(read) <= Len(h[s]) /\ read = SubSeq(h[s], 1, Len(read))
        BY <3>2 DEF ReadOf
      <4>2. page' = page
        BY <1>n, <3>2
      <4>3. s = r
        BY <2>3, <4>1, <4>2
      <4>4. QED
        BY <4>1, <4>3 DEF a, all
    <3>3. QED
      BY <3>1, <3>2
  <2>5. Len(read') = EndOf(all, a) /\ read' = SubSeq(all, 1, EndOf(all, a))
    <3>1. EndOf(all, a) \in a .. Len(all) /\ Len(p.patches) = EndOf(all, a) - a
      BY <1>4, <2>4
    <3>2. SubSeq(all, 1, a) \o p.patches = SubSeq(all, 1, EndOf(all, a))
      BY <1>4, <2>4
    <3>3. Len(read') = EndOf(all, a)
      BY <1>3, <1>4, <1>5, <3>1
    <3>4. read' = SubSeq(all, 1, a) \o p.patches
      BY <1>n, <2>4
    <3>5. QED
      BY <3>2, <3>3, <3>4
  <2>6. ASSUME request' # "page" PROVE Len(read') = Len(all) /\ (request' = "patch" <=> read' # <<>>)
    <3>1. ~GoOn("page")
      BY <2>6 DEF GoOn
    <3>2. Complete /\ Len(read) + Len(p.patches) = p.total
      BY <1>n, <2>1, <3>1
    <3>3. QED
      BY <1>4, <1>5, <3>2 DEF Complete, GoOn, a
  <2>7. QED
    BY <2>3, <2>5, <2>6
<1>8. SubSeq(all, 1, Len(all)) = all
  BY <1>3, AllIs
<1>9. ASSUME request' \in {"patch", "list again"}
      PROVE  read' \in was /\ (request' = "patch" <=> read' # <<>>)
  <2>1. Len(read') = Len(all) /\ read' = SubSeq(all, 1, Len(read')) /\ (request' = "patch" <=> read' # <<>>)
    BY <1>7, <1>9
  <2>2. QED
    BY <1>3, <1>8, <2>1
<1>10. QED
  BY <1>3, <1>5, <1>6, <1>7, <1>9 DEF all

\* A list that comes at once is one of them.
LEMMA WholeStep ==
  ASSUME SimpleInv, FramingInv, ReadInv, NEW h \in [0 .. revision -> Catalogs], PagesTold(h), WholeList
  PROVE  read' \in Seq(Nat) /\ read' \in was /\ request' \in {"patch", "list again"}
         /\ (request' = "patch" <=> read' # <<>>)
<1>1. Answered("page") /\ ~paged /\ read' = read \o Message.body.patches /\ Complete
  BY DEF WholeList, Got
<1>2. request = "page"
  BY <1>1 DEF Answered
<1>3. read = <<>>
  BY <1>1, <1>2 DEF ReadInv
<1>4. Len(read) = 0
  BY <1>3, EmptySeq
<1>5. PICK r \in 0 .. revision :
        h[r] \in was /\ h[r] \in Seq(Nat) /\ Message.body = PageOf(h[r], r, 0)
  BY <1>1, <1>4, PageIs
<1> DEFINE all == h[r]
           q == PageOf(all, r, 0)
<1>6. all \in Seq(Nat) /\ all \in was /\ Message.body = q
  BY <1>5
<1> HIDE DEF all
<1>7. /\ q.patches \in Seq(Nat) /\ Len(all) \in Nat /\ EndOf(all, 0) = Len(all)
      /\ SubSeq(all, 1, 0) \o q.patches = SubSeq(all, 1, EndOf(all, 0))
  <2>1. 0 \in Nat /\ 0 <= Len(all)
    BY <1>6, LenProperties
  <2>2. QED
    BY <1>1, <1>6, <2>1, PageOfIs
<1> HIDE DEF q
<1>8. SubSeq(all, 1, 0) = <<>>
  BY SubSeqEmpty
<1>9. read' = all
  <2>1. read' = SubSeq(all, 1, EndOf(all, 0))
    BY <1>1, <1>3, <1>6, <1>7, <1>8
  <2>2. QED
    BY <1>6, <1>7, <2>1, AllIs
<1>10. request' \in {"patch", "list again"} /\ (request' = "patch" <=> read' # <<>>)
  BY <1>1 DEF Complete, GoOn
<1>11. QED
  BY <1>6, <1>9, <1>10
-----------------------------------------------------------------------------
(* The installer's reading of the configuration: every step.               *)

\* A step of the Captain or of the port leaves the reading where it is.
Undisturbed == UNCHANGED <<paged, request, read, page, fetched>>
StillAction ==
  Answers \/ Event \/ Change \/ Saved \/ Ask \/ Receive \/ Skip \/ UNCHANGED snapshotVars

LEMMA StillIs ==
  ASSUME StillAction
  PROVE  /\ Undisturbed /\ sessions' = sessions
         /\ Change \/ UNCHANGED <<patches, was, revision>>
BY DEF StillAction, Undisturbed, Answers, Event, Change, Saved, Ask, Receive, Skip, snapshotVars, captainVars,
       configVars, resultVars

LEMMA ChangeIs ==
  ASSUME SimpleInv, Change
  PROVE  /\ revision' = revision + 1 /\ was \subseteq was' /\ patches' \in was' /\ patches' \in Catalogs
         /\ was' \subseteq Catalogs /\ dirty' \in BOOLEAN /\ profiles' \in Nat
         /\ UNCHANGED <<paged, todo, wire, events, sessions, request, asked, pending, resultVars>>
<1>1. /\ revision' = revision + 1
      /\ UNCHANGED <<paged, todo, wire, events, sessions, request, asked, pending, resultVars>>
  BY DEF Change
<1>2. CASE patches' \in Catalogs \ {patches} /\ was' = was \cup {patches'} /\ UNCHANGED <<profiles, dirty>>
  BY <1>1, <1>2 DEF SimpleInv
<1>3. CASE profiles' = profiles + 1 /\ UNCHANGED <<patches, dirty, was>>
  BY <1>1, <1>3 DEF SimpleInv
<1>4. CASE dirty' = TRUE /\ UNCHANGED <<patches, profiles, was>>
  BY <1>1, <1>4 DEF SimpleInv
<1>5. QED
  BY <1>2, <1>3, <1>4 DEF Change

LEMMA SimpleStep ==
  ASSUME SnapshotInv, [SnapshotNext]_snapshotVars
  PROVE  SimpleInv' /\ paged' = paged
<1>1. SimpleInv /\ FramingInv /\ HistoryInv /\ ReadInv
  BY DEF SnapshotInv
<1> USE DEF SimpleInv
<1>2. CASE Answers
  BY <1>1, <1>2 DEF Answers, configVars, resultVars
<1>3. CASE Event
  BY <1>1, <1>3 DEF Event, configVars, resultVars
<1>4. CASE Change
  <2>1. /\ revision' = revision + 1 /\ was \subseteq was' /\ patches' \in was' /\ patches' \in Catalogs
        /\ was' \subseteq Catalogs /\ dirty' \in BOOLEAN /\ profiles' \in Nat
        /\ UNCHANGED <<paged, todo, wire, events, sessions, request, asked, pending, resultVars>>
    BY <1>1, <1>4, ChangeIs
  <2>2. QED
    BY <1>1, <2>1 DEF resultVars
<1>5. CASE Saved
  BY <1>1, <1>5 DEF Saved, resultVars
<1>6. CASE Ask
  BY <1>1, <1>6 DEF Ask, configVars, resultVars
<1>7. CASE Receive
  BY <1>1, <1>7 DEF Receive, configVars, resultVars
<1>8. CASE Skip
  BY <1>1, <1>8 DEF Skip, captainVars, resultVars
<1>9. CASE Malformed \/ GiveUp
  BY <1>1, <1>9 DEF Malformed, GiveUp, Fails, captainVars, resultVars, Results
<1>10. CASE Open
  <2>1. /\ sessions' = sessions + 1 /\ request' = "ping" /\ asked' = FALSE /\ was' = {patches}
        /\ fetched' = 0 /\ UNCHANGED <<paged, patches, dirty, profiles, revision, events>>
    BY <1>10 DEF Open
  <2>2. read' \in Seq(Nat)
    BY <1>10, EmptySeq DEF Open
  <2>3. sessions' \in Nat /\ revision' \in Nat /\ profiles' \in Nat /\ events' \in Nat /\ fetched' \in Nat
    BY <1>1, <2>1
  <2>4. patches' \in Catalogs /\ was' \subseteq Catalogs /\ patches' \in was'
    BY <1>1, <2>1
  <2>5. paged' = paged /\ paged' \in BOOLEAN /\ asked' \in BOOLEAN /\ dirty' \in BOOLEAN /\ ~asked'
    BY <1>1, <2>1
  <2>6. request' \in Requests \cup Results
    BY <2>1 DEF Requests
  <2>7. QED
    BY ONLY <2>2, <2>3, <2>4, <2>5, <2>6 DEF SimpleInv
<1>11. CASE Progress
  <2>1. /\ UNCHANGED <<captainVars, sessions>> /\ request' \in Requests \cup Results
    BY <1>11, ProgressIs
  <2>2. asked' = FALSE
    BY <1>11 DEF Progress, Found, NotDirty, Listed, Page, WholeList, GotPatch, ListedAgain, GoOn, Fails, Complete
  <2>3. fetched' \in Nat
    <3>1. fetched' = fetched \/ fetched' = fetched + 1
      BY <1>11 DEF Progress, Found, NotDirty, Listed, Page, WholeList, GotPatch, ListedAgain, resultVars
    <3>2. fetched \in Nat
      BY <1>1
    <3>3. QED
      BY ONLY <3>1, <3>2
  <2>4. read' \in Seq(Nat)
    <3>1. PICK h \in [0 .. revision -> Catalogs] : PagesTold(h) /\ (request = "page" => ReadOf(h))
      BY <1>1 DEF HistoryInv, PagesTold
    <3>2. CASE Page
      <4>1. ReadOf(h)
        BY <3>1, <3>2 DEF Page, Answered
      <4>2. QED
        BY <1>1, <3>1, <3>2, <4>1, PageStep
    <3>3. CASE WholeList
      BY <1>1, <3>1, <3>3, WholeStep
    <3>4. CASE ~Page /\ ~WholeList
      BY <1>1, <1>11, <3>4 DEF Progress, Found, NotDirty, Listed, GotPatch, ListedAgain, resultVars
    <3>5. QED
      BY <3>2, <3>3, <3>4
  <2>5. QED
    BY <1>1, <2>1, <2>2, <2>3, <2>4 DEF captainVars
<1>12. CASE UNCHANGED snapshotVars
  BY <1>1, <1>12 DEF snapshotVars, captainVars, resultVars
<1>13. QED
  BY <1>2, <1>3, <1>4, <1>5, <1>6, <1>7, <1>8, <1>9, <1>10, <1>11, <1>12 DEF SnapshotNext

\* When the list is read, no patch is fetched yet.
LEMMA FirstsRead ==
  ASSUME fetched' = 0, read' \in Seq(Nat), request' \in {"page", "patch", "list again"},
         request' = "page" => paged',
         request' \in {"patch", "list again"} => read' \in was' /\ (request' = "patch" <=> read' # <<>>)
  PROVE  ReadInv'
<1>0. fetched' = 0
  OBVIOUS
<1>1. Len(read') \in Nat /\ (read' = <<>> <=> Len(read') = 0)
  BY LenProperties, EmptySeq
<1>2. CASE request' = "page"
  BY <1>2 DEF ReadInv
<1>3. CASE request' = "patch"
  <2>1. read' \in was' /\ fetched' < Len(read')
    BY <1>1, <1>3
  <2>2. \A i, j \in 1 .. fetched' : read'[i] = read'[j] => i = j
    BY ONLY <1>0
  <2>3. QED
    BY ONLY <1>3, <2>1, <2>2 DEF ReadInv, OnceEach
<1>4. CASE request' = "list again"
  <2>1. read' \in was' /\ fetched' = Len(read') /\ Len(read') = 0
    BY <1>1, <1>4
  <2>2. \A i, j \in 1 .. Len(read') : read'[i] = read'[j] => i = j
    BY ONLY <2>1
  <2>3. QED
    BY ONLY <1>4, <2>1, <2>2 DEF ReadInv, OnceEach
<1>5. QED
  BY <1>2, <1>3, <1>4

LEMMA SameReading ==
  ASSUME ReadInv, UNCHANGED <<read, fetched, request, paged>>, was \subseteq was'
  PROVE  ReadInv'
<1>1. read' = read /\ fetched' = fetched /\ request' = request /\ paged' = paged
  OBVIOUS
<1>2. request' \in {"ping", "info", "dirty", "list", "global"} => read' = <<>> /\ fetched' = 0
  BY <1>1 DEF ReadInv
<1>3. request' = "page" => fetched' = 0 /\ (~paged' => read' = <<>>)
  BY <1>1 DEF ReadInv
<1>4. request' = "patch" =>
        read' \in was' /\ fetched' < Len(read') /\ \A i, j \in 1 .. fetched' : read'[i] = read'[j] => i = j
  BY <1>1 DEF ReadInv, OnceEach
<1>5. request' \in {"list again", "dirty again", "done"} =>
        read' \in was' /\ fetched' = Len(read') /\ \A i, j \in 1 .. Len(read') : read'[i] = read'[j] => i = j
  BY <1>1 DEF ReadInv, OnceEach
<1>6. QED
  BY ONLY <1>2, <1>3, <1>4, <1>5 DEF ReadInv, OnceEach

LEMMA ReadStep ==
  ASSUME SnapshotInv, [SnapshotNext]_snapshotVars
  PROVE  ReadInv'
<1>1. SimpleInv /\ FramingInv /\ HistoryInv /\ ReadInv /\ read \in Seq(Nat) /\ fetched \in Nat
  BY DEF SnapshotInv, SimpleInv
<1>2. PICK h \in [0 .. revision -> Catalogs] : PagesTold(h) /\ (request = "page" => ReadOf(h))
  BY <1>1 DEF HistoryInv, PagesTold
<1>3. CASE StillAction
  <2>1. Undisturbed /\ was \subseteq was'
    <3>1. Undisturbed /\ (Change \/ was' = was)
      <4>1. CASE Change
        BY <1>3, <4>1, StillIs
      <4>2. CASE ~Change
        BY <1>3, <4>2, StillIs DEF StillAction, Answers, Event, Saved, Ask, Receive, Skip, snapshotVars,
           captainVars, configVars
      <4>3. QED
        BY <4>1, <4>2
    <3>2. QED
      BY <1>1, <3>1, ChangeIs
  <2>2. QED
    <3>1. read' = read /\ fetched' = fetched /\ request' = request /\ paged' = paged
      BY <2>1 DEF Undisturbed
    <3>2. QED
      BY <1>1, <2>1, <3>1, SameReading
<1>4. CASE request' = "failed"
  BY <1>4 DEF ReadInv
<1>5. CASE Open
  <2>1. request' = "ping" /\ read' = <<>> /\ fetched' = 0
    BY <1>5 DEF Open
  <2>2. QED
    BY <2>1 DEF ReadInv
<1>6. CASE Page /\ request' # "failed"
  <2>1. request = "page" /\ paged /\ paged' = paged /\ was' = was /\ fetched' = fetched
    BY <1>6 DEF Page, Answered, captainVars
  <2>2. /\ read' \in Seq(Nat) /\ request' \in {"page", "patch", "list again"}
        /\ request' \in {"patch", "list again"} => read' \in was /\ (request' = "patch" <=> read' # <<>>)
    BY <1>1, <1>2, <1>6, <2>1, PageStep
  <2>3. fetched' = 0
    BY <1>1, <2>1 DEF ReadInv
  <2>4. QED
    BY <2>1, <2>2, <2>3, FirstsRead
<1>7. CASE WholeList
  <2>1. request = "page" /\ was' = was /\ fetched' = fetched
    BY <1>7 DEF WholeList, Answered, captainVars
  <2>2. /\ read' \in Seq(Nat) /\ read' \in was /\ request' \in {"patch", "list again"}
        /\ request' = "patch" <=> read' # <<>>
    BY <1>1, <1>2, <1>7, WholeStep
  <2>3. fetched' = 0
    BY <1>1, <2>1 DEF ReadInv
  <2>4. QED
    BY <2>1, <2>2, <2>3, FirstsRead
<1>8. CASE GotPatch /\ request' # "failed"
  <2>1. /\ request = "patch" /\ was' = was /\ read' = read
        /\ read[fetched + 1] \notin {read[i] : i \in 1 .. fetched}
        /\ fetched' = fetched + 1
        /\ request' = IF fetched' = Len(read) THEN "list again" ELSE "patch"
    BY <1>8 DEF GotPatch, Answered, captainVars, Fails, GoOn
  <2>2. read \in was /\ fetched < Len(read) /\ OnceEach(fetched) /\ Len(read) \in Nat
    BY <1>1, <2>1, LenProperties DEF ReadInv
  <2>3. ASSUME NEW i \in 1 .. fetched + 1, NEW j \in 1 .. fetched + 1, read[i] = read[j] PROVE i = j
    <3>1. CASE i \in 1 .. fetched /\ j \in 1 .. fetched
      BY <2>2, <2>3, <3>1 DEF OnceEach
    <3>2. CASE i = fetched + 1 /\ j \in 1 .. fetched
      BY <2>1, <2>3, <3>2
    <3>3. CASE i \in 1 .. fetched /\ j = fetched + 1
      BY <2>1, <2>3, <3>3
    <3>4. (i \in 1 .. fetched \/ i = fetched + 1) /\ (j \in 1 .. fetched \/ j = fetched + 1)
      BY <1>1
    <3>5. QED
      BY ONLY <3>1, <3>2, <3>3, <3>4
  <2>4. fetched' \in Nat /\ fetched' <= Len(read)
    <3>1. fetched \in Nat /\ fetched < Len(read) /\ Len(read) \in Nat /\ fetched' = fetched + 1
      BY <1>1, <2>1, <2>2
    <3>2. QED
      BY ONLY <3>1
  <2>5. CASE fetched' = Len(read)
    <3>1. request' = "list again" /\ \A i, j \in 1 .. Len(read) : read[i] = read[j] => i = j
      BY <2>1, <2>3, <2>5
    <3>2. QED
      BY <2>1, <2>2, <2>5, <3>1 DEF ReadInv, OnceEach
  <2>6. CASE fetched' # Len(read)
    <3>1. request' = "patch" /\ fetched' < Len(read)
          /\ \A i, j \in 1 .. fetched' : read[i] = read[j] => i = j
      <4>1. request' = "patch"
        BY <2>1, <2>6
      <4>2. fetched' < Len(read)
        BY ONLY <2>2, <2>4, <2>6
      <4>3. QED
        BY <2>1, <2>3, <4>1, <4>2
    <3>2. QED
      BY <2>1, <2>2, <3>1 DEF ReadInv, OnceEach
  <2>7. QED
    BY <2>5, <2>6
<1>9. CASE (Found \/ NotDirty \/ Listed \/ ListedAgain) /\ request' # "failed"
  <2>1. read' = read /\ fetched' = fetched /\ was' = was
    BY <1>9 DEF Found, NotDirty, Listed, ListedAgain, resultVars, captainVars
  <2>2. \/ request \in {"ping", "info", "dirty", "list", "global"}
             /\ request' \in {"info", "dirty", "list", "global", "page"}
        \/ request \in {"list again", "dirty again"} /\ request' \in {"dirty again", "done"}
    BY <1>9 DEF Found, NotDirty, Listed, ListedAgain, Answered, GoOn, Fails
  <2>3. CASE request \in {"ping", "info", "dirty", "list", "global"}
    <3>1. read' = <<>> /\ fetched' = 0
      BY <1>1, <2>1, <2>3 DEF ReadInv
    <3>2. request' \in {"info", "dirty", "list", "global", "page"}
      BY <2>2, <2>3
    <3>3. QED
      BY ONLY <3>1, <3>2 DEF ReadInv
  <2>4. CASE request \in {"list again", "dirty again"}
    <3>1. read' \in was' /\ fetched' = Len(read') /\ \A i, j \in 1 .. Len(read') : read'[i] = read'[j] => i = j
      <4>1. read \in was /\ fetched = Len(read) /\ \A i, j \in 1 .. Len(read) : read[i] = read[j] => i = j
        BY <1>1, <2>4 DEF ReadInv, OnceEach
      <4>2. QED
        BY ONLY <2>1, <4>1
    <3>2. request' \in {"dirty again", "done"}
      BY <2>2, <2>4
    <3>3. QED
      BY ONLY <3>1, <3>2 DEF ReadInv, OnceEach
  <2>5. QED
    BY <2>2, <2>3, <2>4
<1>10. Malformed \/ GiveUp => request' = "failed"
  BY DEF Malformed, GiveUp, Fails
<1>11. QED
  BY <1>3, <1>4, <1>5, <1>6, <1>7, <1>8, <1>9, <1>10 DEF SnapshotNext, Progress, StillAction

LEMMA HistoryStep ==
  ASSUME SnapshotInv, SimpleInv', sessions <= sessions', paged' = paged, StreamStep,
         [SnapshotNext]_snapshotVars
  PROVE  HistoryInv'
<1>1. SimpleInv /\ FramingInv /\ IdsInv /\ HistoryInv /\ ReadInv /\ revision \in Nat /\ sessions \in Nat
  BY DEF SnapshotInv, SimpleInv
<1>2. PICK h \in [0 .. revision -> Catalogs] :
        h[revision] = patches /\ PagesTold(h) /\ (request = "page" => ReadOf(h))
  BY <1>1 DEF HistoryInv, PagesTold
\* What is on its way was sent before, or is said now.
<1>3. ASSUME Change \/ (UNCHANGED <<patches, was, revision>>), was \subseteq was',
             NEW g \in [0 .. revision' -> Catalogs], \A r \in 0 .. revision : r \in 0 .. revision' /\ g[r] = h[r],
             NEW i \in 1 .. Len(Stream'), Stream'[i].of.id # <<>>, Stream'[i].of.id[1] = sessions',
             sessions' = sessions, Stream'[i].of.id[2] = "page"
      PROVE  \E r \in 0 .. revision' : g[r] \in was' /\ Stream'[i].of.body = PageOf(g[r], r, Stream'[i].of.id[3])
  <2>1. CASE \E j \in 1 .. Len(Stream) : Stream'[i] = Stream[j]
    <3>1. PICK j \in 1 .. Len(Stream) : Stream'[i] = Stream[j]
      BY <2>1
    <3>2. PageTold(Stream[j].of, h)
      BY <1>2 DEF PagesTold
    <3>3. PICK r \in 0 .. revision : h[r] \in was /\ Stream[j].of.body = PageOf(h[r], r, Stream[j].of.id[3])
      BY <1>3, <3>1, <3>2 DEF PageTold
    <3>4. QED
      BY <1>3, <3>1, <3>3
  <2>2. CASE todo # <<>> /\ Stream'[i].of = Reply /\ UNCHANGED configVars
    <3>1. Reply.body = PageOf(patches, revision, Reply.id[3])
      BY <1>1, <1>3, <2>2, ReplyIs
    <3>2. revision \in 0 .. revision /\ h[revision] \in was'
      BY <1>1, <1>2, <2>2 DEF SimpleInv, configVars
    <3>3. QED
      BY <1>2, <1>3, <2>2, <3>1, <3>2
  <2>3. QED
    BY <1>3, <2>1, <2>2 DEF StreamStep, Old, From
<1>4. CASE Open
  <2>1. /\ sessions' = sessions + 1 /\ request' = "ping" /\ UNCHANGED <<patches, revision>>
    BY <1>4 DEF Open
  <2>2. ASSUME NEW i \in 1 .. Len(Stream'), Stream'[i].of.id # <<>> PROVE Stream'[i].of.id[1] # sessions'
    <3>1. PICK j \in 1 .. Len(Stream) : Stream'[i] = Stream[j]
      BY <1>1, <1>4, OpenStep DEF Old
    <3>2. Stream \in Seq(Pieces)
      BY <1>1, JoinIs DEF FramingInv, Stream
    <3>3. Stream[j] \in Pieces
      BY <3>2, ElementOfSeq
    <3>4. Stream[j].of.id \in AskedFor /\ Stream[j].of.id[1] <= sessions
      BY <1>1, <2>2, <3>1, <3>3 DEF Pieces, IdsInv
    <3>5. Stream[j].of.id[1] \in Nat
      BY <3>4 DEF AskedFor
    <3>6. QED
      BY <1>1, <2>1, <3>1, <3>4, <3>5
  <2>3. h \in [0 .. revision' -> Catalogs] /\ h[revision'] = patches'
    BY <1>2, <2>1
  <2>4. QED
    BY <2>1, <2>2, <2>3 DEF HistoryInv, PageTold
<1>5. CASE Change
  <2>1. /\ revision' = revision + 1 /\ was \subseteq was' /\ patches' \in Catalogs
        /\ UNCHANGED <<request, read, page, sessions>>
    BY <1>1, <1>5, ChangeIs DEF resultVars
  <2> DEFINE g == [r \in 0 .. revision + 1 |-> IF r = revision + 1 THEN patches' ELSE h[r]]
  <2>2. g \in [0 .. revision + 1 -> Catalogs] /\ g[revision + 1] = patches'
        /\ \A r \in 0 .. revision : r \in 0 .. revision + 1 /\ g[r] = h[r]
    BY <1>1, <2>1
  <2> HIDE DEF g
  <2>3. g \in [0 .. revision' -> Catalogs] /\ g[revision'] = patches'
        /\ \A r \in 0 .. revision : r \in 0 .. revision' /\ g[r] = h[r]
    BY <2>1, <2>2
  <2>4. ASSUME request' = "page", read' # <<>>
        PROVE  \E r \in 0 .. revision' :
                 /\ page'.revision = r /\ g[r] \in was' /\ page'.total = Len(g[r])
                 /\ Len(read') <= Len(g[r]) /\ read' = SubSeq(g[r], 1, Len(read'))
    <3>1. PICK r \in 0 .. revision :
            /\ page.revision = r /\ h[r] \in was /\ page.total = Len(h[r])
            /\ Len(read) <= Len(h[r]) /\ read = SubSeq(h[r], 1, Len(read))
      BY <1>2, <2>1, <2>4 DEF ReadOf
    <3>2. r \in 0 .. revision' /\ g[r] = h[r] /\ read' = read /\ page' = page
      BY <2>1, <2>3
    <3>3. QED
      BY <2>1, <3>1, <3>2
  <2>5. \A i \in 1 .. Len(Stream') :
          Stream'[i].of.id # <<>> /\ Stream'[i].of.id[1] = sessions' /\ Stream'[i].of.id[2] = "page" =>
            \E r \in 0 .. revision' : g[r] \in was' /\ Stream'[i].of.body = PageOf(g[r], r, Stream'[i].of.id[3])
    BY <1>3, <1>5, <2>1, <2>3
  <2>6. QED
    BY <2>3, <2>4, <2>5 DEF HistoryInv, PageTold, ReadOf, PageOf
<1>6. CASE ~Open /\ ~Change
  <2>1. UNCHANGED <<sessions, patches, was, revision>>
    <3>1. Progress => UNCHANGED <<sessions, patches, was, revision>>
      BY ProgressIs DEF captainVars
    <3>2. QED
      BY <1>6, <3>1 DEF SnapshotNext, Answers, Event, Saved, Ask, Receive, Skip, Malformed, GiveUp,
         snapshotVars, captainVars, configVars
  <2>2. h \in [0 .. revision' -> Catalogs] /\ h[revision'] = patches'
        /\ \A r \in 0 .. revision : r \in 0 .. revision'
    BY <1>2, <2>1
  <2>3. \A i \in 1 .. Len(Stream') :
          Stream'[i].of.id # <<>> /\ Stream'[i].of.id[1] = sessions' /\ Stream'[i].of.id[2] = "page" =>
            \E r \in 0 .. revision' : h[r] \in was' /\ Stream'[i].of.body = PageOf(h[r], r, Stream'[i].of.id[3])
    BY <1>3, <2>1, <2>2
  <2>4. ASSUME request' = "page", read' # <<>>
        PROVE  \E r \in 0 .. revision' :
                 /\ page'.revision = r /\ h[r] \in was' /\ page'.total = Len(h[r])
                 /\ Len(read') <= Len(h[r]) /\ read' = SubSeq(h[r], 1, Len(read'))
    <3>1. CASE StillAction
      <4>1. read' = read /\ page' = page /\ request' = request
        BY <3>1, StillIs DEF Undisturbed
      <4>2. \E r \in 0 .. revision :
              /\ page.revision = r /\ h[r] \in was /\ page.total = Len(h[r])
              /\ Len(read) <= Len(h[r]) /\ read = SubSeq(h[r], 1, Len(read))
        BY <1>2, <2>4, <4>1 DEF ReadOf
      <4>3. QED
        BY <2>1, <4>1, <4>2
    <3>2. CASE Page
      <4>1. request = "page"
        BY <3>2 DEF Page, Answered
      <4>2. \E r \in 0 .. revision :
              /\ page'.revision = r /\ h[r] \in was /\ page'.total = Len(h[r])
              /\ Len(read') <= Len(h[r]) /\ read' = SubSeq(h[r], 1, Len(read'))
        BY <1>1, <1>2, <2>4, <3>2, <4>1, PageStep
      <4>3. QED
        BY <2>1, <4>2
    <3>3. CASE Found
      <4>1. request \in {"ping", "info", "global"} /\ read' = read
        BY <3>3 DEF Found, Answered, resultVars
      <4>2. read = <<>>
        BY <1>1, <4>1 DEF ReadInv
      <4>3. QED
        BY <2>4, <4>1, <4>2
    <3>4. CASE WholeList \/ NotDirty \/ Listed \/ GotPatch \/ ListedAgain \/ Malformed \/ GiveUp
      <4>1. request' # "page"
        BY <3>4 DEF WholeList, NotDirty, Listed, GotPatch, ListedAgain, Malformed, GiveUp, GoOn, Fails, Complete
      <4>2. QED
        BY <2>4, <4>1
    <3>5. QED
      BY <1>6, <3>1, <3>2, <3>3, <3>4 DEF SnapshotNext, Progress, StillAction
  <2>5. QED
    BY <2>2, <2>3, <2>4 DEF HistoryInv, PageTold, ReadOf, PageOf
<1>7. QED
  BY <1>4, <1>5, <1>6

LEMMA SnapshotStart == SnapshotInit => SnapshotInv
<1> SUFFICES ASSUME SnapshotInit PROVE SnapshotInv
  OBVIOUS
<1> DEFINE nil == <<>>
<1>1. /\ paged \in BOOLEAN /\ patches = First /\ dirty = FALSE /\ profiles = 0 /\ revision = 0
      /\ was = {First} /\ todo = nil /\ wire = nil /\ events = 0
      /\ sessions = 0 /\ request = "idle" /\ asked = FALSE /\ pending = nil
      /\ read = nil /\ fetched = 0 /\ malformed = FALSE
  BY DEF SnapshotInit
<1>2. nil \in Seq(Nat) /\ nil \in Seq(Pieces) /\ nil \in Seq(AskedFor) /\ Len(nil) = 0
  BY EmptySeq
<1>3. Stream = nil
  BY <1>1, <1>2, ConcatEmptySeq DEF Stream
<1> HIDE DEF nil
<1>4. SimpleInv
  BY <1>1, <1>2, SnapshotAssumption DEF SimpleInv, Requests, Results
<1>5. FramingInv
  <2>1. Framed(Stream)
    BY ONLY <1>2, <1>3 DEF Framed
  <2>2. request \notin Requests
    BY <1>1 DEF Requests
  <2>3. QED
    BY <1>1, <1>2, <2>1, <2>2 DEF FramingInv
<1>6. IdsInv
  BY <1>1, <1>2, <1>3 DEF IdsInv
<1>7. HistoryInv
  <2> DEFINE h == [r \in 0 .. 0 |-> First]
  <2>1. h \in [0 .. revision -> Catalogs] /\ h[revision] = patches
    BY <1>1, SnapshotAssumption
  <2> HIDE DEF h
  <2>2. \A i \in 1 .. Len(Stream) : PageTold(Stream[i].of, h)
    BY <1>2, <1>3
  <2>3. QED
    BY <1>1, <2>1, <2>2 DEF HistoryInv
<1>8. ReadInv
  BY <1>1 DEF ReadInv
<1>9. QED
  BY <1>4, <1>5, <1>6, <1>7, <1>8 DEF SnapshotInv

LEMMA SnapshotStep ==
  ASSUME SnapshotInv, [SnapshotNext]_snapshotVars
  PROVE  SnapshotInv'
<1>1. SimpleInv /\ FramingInv /\ IdsInv
  BY DEF SnapshotInv
<1>2. FramingInv' /\ StreamStep
  BY <1>1, FramingStep
<1>3. IdsInv' /\ sessions <= sessions'
  BY <1>1, <1>2, IdsStep
<1>4. SimpleInv' /\ paged' = paged
  BY SimpleStep
<1>5. ReadInv'
  BY ReadStep
<1>6. HistoryInv'
  BY <1>2, <1>3, <1>4, HistoryStep
<1>7. QED
  BY <1>2, <1>3, <1>4, <1>5, <1>6 DEF SnapshotInv

LEMMA SnapshotIsWhole ==
  ASSUME SnapshotInv
  PROVE  SnapshotWhole
<1>1. read \in Seq(Nat) /\ ~malformed /\ DOMAIN read = 1 .. Len(read)
  BY LenProperties DEF SnapshotInv, SimpleInv, FramingInv
<1>2. request = "done" => read \in was /\ fetched = Len(read) /\ OnceEach(Len(read))
  BY DEF SnapshotInv, ReadInv
<1>3. QED
  BY <1>1, <1>2 DEF SnapshotWhole, IsInjective, OnceEach

\* A snapshot that is taken lists the patches as they were at one moment since
\* it began, every one once and each one read, however the Captain changes
\* between two pages, and no line of a Captain that sends whole lines is taken
\* for a broken one (firmware_install.py:37, 376-378).
THEOREM SnapshotsAlwaysWhole == SnapshotSpec => []SnapshotWhole
<1>1. SnapshotInv /\ [SnapshotNext]_snapshotVars => SnapshotInv'
  BY SnapshotStep
<1>2. SnapshotInv => SnapshotWhole
  BY SnapshotIsWhole
<1>3. QED
  BY <1>1, <1>2, SnapshotStart, PTL DEF SnapshotSpec
-----------------------------------------------------------------------------
(* The installer's reading of the configuration: one request at a time.    *)

\* A message of session s.
Of(x, s) == x.of.id # <<>> /\ x.of.id[1] = s

\* With the requests t and the stream b, a session s that is at q has asked one thing at most that
\* is not answered, and while it waits for nothing (w) neither holds anything of it.
Outstanding(t, b, q, w, s) ==
  /\ \A i \in 1 .. Len(t) : i <= t[i][1]
  /\ q \in Requests =>
       /\ s # 0
       /\ \A i, j \in 1 .. Len(t) : t[i][1] = s /\ t[j][1] = s => i = j
       /\ \A i \in 1 .. Len(t), k \in 1 .. Len(b) : t[i][1] = s => ~Of(b[k], s)
       /\ \A k, l \in 1 .. Len(b) : k < l /\ Of(b[k], s) /\ Of(b[l], s) => ~b[k].last /\ l = k + 1
       /\ ~w => /\ \A i \in 1 .. Len(t) : t[i][1] # s
                /\ \A k \in 1 .. Len(b) : ~Of(b[k], s)

OutstandingInv == Outstanding(todo, Stream, request, asked, sessions)

\* An answer is said.
LEMMA OutstandingTold ==
  ASSUME NEW t \in Seq(AskedFor), t # <<>>, NEW b \in Seq(Pieces), NEW m \in Messages, m.id = Head(t),
         NEW q, NEW w \in BOOLEAN, NEW s \in Nat, Outstanding(t, b, q, w, s)
  PROVE  Outstanding(Tail(t), b \o Bytes(m), q, w, s)
<1> DEFINE y == Bytes(m)
           c == b \o y
           u == Tail(t)
<1>1. /\ y \in Seq(Pieces) /\ Len(y) = 2 /\ y[1].of = m /\ y[2].of = m /\ ~y[1].last /\ y[2].last
  BY BytesAre
<1> HIDE DEF y
<1>2. /\ c \in Seq(Pieces) /\ Len(c) = Len(b) + Len(y) /\ Len(b) \in Nat
      /\ \A i \in 1 .. Len(b) : c[i] = b[i]
      /\ \A i \in 1 .. Len(y) : c[Len(b) + i] = y[i]
  <2>1. b \in Seq(Pieces) /\ y \in Seq(Pieces)
    BY <1>1
  <2>2. QED
    BY ONLY <2>1, JoinIs
<1> HIDE DEF c
<1>3. Len(c) = Len(b) + 2 /\ c[Len(b) + 1] = y[1] /\ c[Len(b) + 2] = y[2]
  <2>1. 1 \in 1 .. Len(y) /\ 2 \in 1 .. Len(y)
    BY <1>1
  <2>2. QED
    BY ONLY <1>1, <1>2, <2>1
<1>4. /\ Len(u) = Len(t) - 1 /\ Len(t) \in Nat
      /\ \A i \in 1 .. Len(u) : u[i] = t[i + 1]
  BY HeadTailProperties, LenProperties
<1> HIDE DEF u
<1>5. 1 \in 1 .. Len(t) /\ t[1] = Head(t) /\ m.id = t[1]
  BY <1>4, EmptySeq
<1>6. \A i \in 1 .. Len(t) : t[i] \in AskedFor /\ t[i][1] \in Nat /\ i <= t[i][1]
  <2>1. \A i \in 1 .. Len(t) : t[i] \in AskedFor
    BY ElementOfSeq
  <2>2. QED
    BY <2>1 DEF Outstanding, AskedFor
<1>7. ASSUME NEW i \in 1 .. Len(u) PROVE i + 1 \in 1 .. Len(t) /\ u[i] = t[i + 1] /\ i + 1 # 1
  BY <1>4
<1>8. ASSUME NEW k \in 1 .. Len(c), Of(c[k], s)
      PROVE  \/ k \in 1 .. Len(b) /\ c[k] = b[k]
             \/ k \in {Len(b) + 1, Len(b) + 2} /\ t[1][1] = s
  <2>1. CASE k \in 1 .. Len(b)
    BY <1>2, <2>1
  <2>2. CASE k = Len(b) + 1 \/ k = Len(b) + 2
    <3>1. c[k].of = m
      BY <1>1, <1>3, <2>2
    <3>2. QED
      BY <1>5, <1>8, <2>2, <3>1 DEF Of
  <2>3. k \in 1 .. Len(b) \/ k = Len(b) + 1 \/ k = Len(b) + 2
    BY <1>2, <1>3
  <2>4. QED
    BY <2>1, <2>2, <2>3
<1>9. \A i \in 1 .. Len(u) : i <= u[i][1]
  <2> SUFFICES ASSUME NEW i \in 1 .. Len(u) PROVE i <= u[i][1]
    OBVIOUS
  <2>1. i + 1 \in 1 .. Len(t) /\ u[i] = t[i + 1]
    BY <1>7
  <2>2. t[i + 1][1] \in Nat /\ i + 1 <= t[i + 1][1] /\ i \in Nat
    BY <1>6, <2>1
  <2>3. QED
    BY ONLY <2>1, <2>2
<1>10. ASSUME q \in Requests
       PROVE  /\ s # 0
              /\ \A i, j \in 1 .. Len(u) : u[i][1] = s /\ u[j][1] = s => i = j
              /\ \A i \in 1 .. Len(u), k \in 1 .. Len(c) : u[i][1] = s => ~Of(c[k], s)
              /\ \A k, l \in 1 .. Len(c) : k < l /\ Of(c[k], s) /\ Of(c[l], s) => ~c[k].last /\ l = k + 1
              /\ ~w => /\ \A i \in 1 .. Len(u) : u[i][1] # s
                       /\ \A k \in 1 .. Len(c) : ~Of(c[k], s)
  <2>1. /\ s # 0
        /\ \A i, j \in 1 .. Len(t) : t[i][1] = s /\ t[j][1] = s => i = j
        /\ \A i \in 1 .. Len(t), k \in 1 .. Len(b) : t[i][1] = s => ~Of(b[k], s)
        /\ \A k, l \in 1 .. Len(b) : k < l /\ Of(b[k], s) /\ Of(b[l], s) => ~b[k].last /\ l = k + 1
        /\ ~w => /\ \A i \in 1 .. Len(t) : t[i][1] # s
                 /\ \A k \in 1 .. Len(b) : ~Of(b[k], s)
    BY <1>10 DEF Outstanding
  <2>2. ASSUME NEW i \in 1 .. Len(u), NEW j \in 1 .. Len(u), u[i][1] = s, u[j][1] = s PROVE i = j
    <3>1. i + 1 \in 1 .. Len(t) /\ j + 1 \in 1 .. Len(t) /\ t[i + 1][1] = s /\ t[j + 1][1] = s
      BY <1>7, <2>2
    <3>2. i + 1 = j + 1
      BY <2>1, <3>1
    <3>3. QED
      BY <3>2
  <2>3. ASSUME NEW i \in 1 .. Len(u), NEW k \in 1 .. Len(c), u[i][1] = s PROVE ~Of(c[k], s)
    <3>1. i + 1 \in 1 .. Len(t) /\ t[i + 1][1] = s /\ i + 1 # 1
      BY <1>7, <2>3
    <3>2. t[1][1] # s
      BY <1>5, <2>1, <3>1
    <3>3. QED
      BY <1>8, <2>1, <3>1, <3>2
  <2>4. ASSUME NEW k \in 1 .. Len(c), NEW l \in 1 .. Len(c), k < l, Of(c[k], s), Of(c[l], s)
        PROVE  ~c[k].last /\ l = k + 1
    <3>1. CASE t[1][1] = s
      <4>1. k \in {Len(b) + 1, Len(b) + 2} /\ l \in {Len(b) + 1, Len(b) + 2}
        BY <1>5, <1>8, <2>1, <2>4, <3>1
      <4>2. k = Len(b) + 1 /\ l = k + 1
        BY <1>2, <2>4, <4>1
      <4>3. QED
        BY <1>1, <1>3, <4>2
    <3>2. CASE t[1][1] # s
      <4>1. k \in 1 .. Len(b) /\ c[k] = b[k] /\ l \in 1 .. Len(b) /\ c[l] = b[l]
        BY <1>8, <2>4, <3>2
      <4>2. QED
        BY <2>1, <2>4, <4>1
    <3>3. QED
      BY <3>1, <3>2
  <2>5. ASSUME ~w PROVE (\A i \in 1 .. Len(u) : u[i][1] # s) /\ \A k \in 1 .. Len(c) : ~Of(c[k], s)
    <3>1. t[1][1] # s
      BY <1>5, <2>1, <2>5
    <3>2. \A k \in 1 .. Len(c) : ~Of(c[k], s)
      BY <1>8, <2>1, <2>5, <3>1
    <3>3. \A i \in 1 .. Len(u) : u[i][1] # s
      BY <1>7, <2>1, <2>5
    <3>4. QED
      BY <3>2, <3>3
  <2>6. QED
    BY <2>1, <2>2, <2>3, <2>4, <2>5
<1>11. Outstanding(u, c, q, w, s)
  BY <1>9, <1>10 DEF Outstanding
<1>12. QED
  BY <1>11 DEF u, c, y

LEMMA OutstandingEvent ==
  ASSUME NEW t, NEW b \in Seq(Pieces), NEW m \in Messages, m.id = <<>>,
         NEW q, NEW w \in BOOLEAN, NEW s \in Nat, Outstanding(t, b, q, w, s)
  PROVE  Outstanding(t, b \o Bytes(m), q, w, s)
<1> DEFINE y == Bytes(m)
           c == b \o y
<1>1. y \in Seq(Pieces) /\ Len(y) = 2 /\ y[1].of = m /\ y[2].of = m
  BY BytesAre
<1> HIDE DEF y
<1>2. /\ c \in Seq(Pieces) /\ Len(c) = Len(b) + Len(y) /\ Len(b) \in Nat
      /\ \A i \in 1 .. Len(b) : c[i] = b[i]
      /\ \A i \in 1 .. Len(y) : c[Len(b) + i] = y[i]
  <2>1. b \in Seq(Pieces) /\ y \in Seq(Pieces)
    BY <1>1
  <2>2. QED
    BY ONLY <2>1, JoinIs
<1> HIDE DEF c
<1>3. Len(c) = Len(b) + 2 /\ c[Len(b) + 1] = y[1] /\ c[Len(b) + 2] = y[2]
  <2>1. 1 \in 1 .. Len(y) /\ 2 \in 1 .. Len(y)
    BY <1>1
  <2>2. QED
    BY ONLY <1>1, <1>2, <2>1
<1>4. ASSUME NEW k \in 1 .. Len(c), Of(c[k], s) PROVE k \in 1 .. Len(b) /\ c[k] = b[k]
  <2>1. CASE k \in 1 .. Len(b)
    BY <1>2, <2>1
  <2>2. CASE k = Len(b) + 1 \/ k = Len(b) + 2
    <3>1. c[k].of = m
      BY <1>1, <1>3, <2>2
    <3>2. QED
      BY <1>4, <3>1 DEF Of
  <2>3. QED
    BY <1>2, <1>3, <2>1, <2>2
<1>5. Outstanding(t, c, q, w, s)
  BY <1>4 DEF Outstanding
<1>6. QED
  BY <1>5 DEF c, y

\* A request is sent.
LEMMA OutstandingAsked ==
  ASSUME NEW t \in Seq(AskedFor), NEW b, NEW q \in Requests, NEW s \in Nat, NEW x \in AskedFor, x[1] = s,
         \A i \in 1 .. Len(t) : t[i][1] <= s, Outstanding(t, b, q, FALSE, s)
  PROVE  Outstanding(Append(t, x), b, q, TRUE, s)
<1> DEFINE u == Append(t, x)
<1>1. /\ Len(u) = Len(t) + 1 /\ Len(t) \in Nat
      /\ \A i \in 1 .. Len(t) : u[i] = t[i]
      /\ u[Len(t) + 1] = x
  BY AppendProperties, LenProperties
<1> HIDE DEF u
<1>2. /\ s # 0
      /\ \A i \in 1 .. Len(t) : t[i][1] # s /\ i <= t[i][1]
      /\ \A k \in 1 .. Len(b) : ~Of(b[k], s)
  BY DEF Outstanding
<1>3. Len(t) + 1 <= s
  <2>1. CASE Len(t) = 0
    BY <1>2, <2>1
  <2>2. CASE Len(t) # 0
    <3> DEFINE n == Len(t)
    <3>1. n \in 1 .. Len(t) /\ n \in Nat
      BY <1>1, <2>2
    <3>2. t[n] \in AskedFor
      BY <3>1, ElementOfSeq
    <3>3. t[n][1] \in Nat /\ t[n][1] # s /\ n <= t[n][1] /\ t[n][1] <= s
      BY <1>2, <3>1, <3>2 DEF AskedFor
    <3> HIDE DEF n
    <3>4. n + 1 <= s
      BY <3>1, <3>3
    <3>5. QED
      BY <3>4 DEF n
  <2>3. QED
    BY <2>1, <2>2
<1>4. ASSUME NEW i \in 1 .. Len(u)
      PROVE  i <= u[i][1] /\ (u[i][1] = s => i = Len(t) + 1)
  <2>1. CASE i \in 1 .. Len(t)
    BY <1>1, <1>2, <2>1
  <2>2. CASE i = Len(t) + 1
    BY <1>1, <1>3, <2>2
  <2>3. QED
    BY <1>1, <2>1, <2>2
<1>5. Outstanding(u, b, q, TRUE, s)
  BY <1>2, <1>4 DEF Outstanding
<1>6. QED
  BY <1>5 DEF u

\* Something is read, or passed over.
LEMMA OutstandingRest ==
  ASSUME NEW t, NEW b \in Seq(Pieces), NEW q, NEW s, NEW k \in 0 .. Len(b), Outstanding(t, b, q, TRUE, s)
  PROVE  Outstanding(t, Rest(b, k), q, TRUE, s)
<1> DEFINE c == Rest(b, k)
<1>1. /\ Len(c) = Len(b) - k /\ Len(b) \in Nat
      /\ \A i \in 1 .. Len(b) - k : c[i] = b[i + k] /\ i + k \in 1 .. Len(b)
  BY RestIs
<1> HIDE DEF c
<1>2. \A i \in 1 .. Len(c) : c[i] = b[i + k] /\ i + k \in 1 .. Len(b) /\ i \in Nat
  BY <1>1
<1>3. ASSUME q \in Requests, NEW i \in 1 .. Len(c), NEW j \in 1 .. Len(c), i < j, Of(c[i], s), Of(c[j], s)
      PROVE  ~c[i].last /\ j = i + 1
  <2>1. /\ c[i] = b[i + k] /\ i + k \in 1 .. Len(b) /\ c[j] = b[j + k] /\ j + k \in 1 .. Len(b)
        /\ i + k < j + k
    BY <1>2, <1>3
  <2>2. ~b[i + k].last /\ j + k = i + k + 1
    BY <1>3, <2>1 DEF Outstanding
  <2>3. QED
    BY <2>1, <2>2
<1>4. Outstanding(t, c, q, TRUE, s)
  BY <1>2, <1>3 DEF Outstanding
<1>5. QED
  BY <1>4 DEF c

\* The answer is read, and nothing else is left of the session.
LEMMA OutstandingRead ==
  ASSUME NEW t, NEW b \in Seq(Pieces), NEW q \in Requests, NEW s, 2 \in 1 .. Len(b), Of(b[1], s),
         Outstanding(t, b, q, TRUE, s), NEW p
  PROVE  Outstanding(t, Rest(b, 2), p, FALSE, s)
<1> DEFINE c == Rest(b, 2)
<1>1. /\ Len(c) = Len(b) - 2 /\ Len(b) \in Nat
      /\ \A i \in 1 .. Len(b) - 2 : c[i] = b[i + 2] /\ i + 2 \in 1 .. Len(b)
  <2>1. 2 \in 0 .. Len(b)
    OBVIOUS
  <2>2. QED
    BY <2>1, RestIs
<1> HIDE DEF c
<1>2. 1 \in 1 .. Len(b)
  BY <1>1
<1>3. ASSUME NEW i \in 1 .. Len(c) PROVE ~Of(c[i], s)
  <2>1. c[i] = b[i + 2] /\ i + 2 \in 1 .. Len(b) /\ 1 < i + 2 /\ i + 2 # 1 + 1
    BY <1>1
  <2>2. QED
    BY <1>2, <2>1 DEF Outstanding
<1>4. \A i \in 1 .. Len(t) : t[i][1] # s
  BY <1>2 DEF Outstanding
<1>5. Outstanding(t, c, p, FALSE, s)
  BY <1>3, <1>4 DEF Outstanding
<1>6. QED
  BY <1>5 DEF c

LEMMA OutstandingStep ==
  ASSUME SnapshotInv, OutstandingInv, [SnapshotNext]_snapshotVars
  PROVE  OutstandingInv'
<1>1. SimpleInv /\ FramingInv /\ IdsInv /\ ReadInv
  BY DEF SnapshotInv
<1>2. /\ todo \in Seq(AskedFor) /\ Stream \in Seq(Pieces) /\ asked \in BOOLEAN /\ sessions \in Nat
      /\ Outstanding(todo, Stream, request, asked, sessions)
  BY <1>1, JoinIs DEF SimpleInv, FramingInv, IdsInv, Stream, OutstandingInv
<1> SUFFICES Outstanding(todo', Stream', request', asked', sessions')
  BY DEF OutstandingInv, Outstanding, Of
<1>3. CASE Answers
  <2>1. /\ todo # <<>> /\ wire' = wire \o Bytes(Reply) /\ todo' = Tail(todo)
        /\ UNCHANGED <<sessions, request, asked, pending>>
    BY <1>3 DEF Answers, Reply
  <2>2. Reply \in Messages /\ Reply.id = Head(todo)
    BY <1>1, <2>1, ReplyIs
  <2>3. Stream' = Stream \o Bytes(Reply)
    BY <1>1, <2>1, <2>2, TellStep
  <2>4. Outstanding(Tail(todo), Stream \o Bytes(Reply), request, asked, sessions)
    BY <1>2, <2>1, <2>2, OutstandingTold
  <2>5. QED
    BY <2>1, <2>3, <2>4
<1>4. CASE Event
  <2> DEFINE m == [id |-> <<>>, body |-> events]
  <2>1. wire' = wire \o Bytes(m) /\ UNCHANGED <<todo, sessions, request, asked, pending>>
    BY <1>4 DEF Event
  <2>2. m \in Messages /\ m.id = <<>>
    BY <1>1 DEF Messages, SimpleInv, Bodies
  <2> HIDE DEF m
  <2>3. Stream' = Stream \o Bytes(m)
    BY <1>1, <2>1, <2>2, TellStep
  <2>4. Outstanding(todo, Stream \o Bytes(m), request, asked, sessions)
    BY <1>2, <2>2, OutstandingEvent
  <2>5. QED
    BY <2>1, <2>3, <2>4
<1>5. CASE Change \/ Saved \/ Receive \/ UNCHANGED snapshotVars
  <2>1. UNCHANGED <<todo, request, asked, sessions>>
    BY <1>5 DEF Change, Saved, Receive, configVars, snapshotVars, captainVars
  <2>2. Stream' = Stream
    <3>1. CASE Receive
      BY <1>1, <3>1, ReceiveStep
    <3>2. CASE ~Receive
      BY <1>5, <3>2 DEF Change, Saved, snapshotVars, captainVars, Stream
    <3>3. QED
      BY <3>1, <3>2
  <2>3. QED
    BY <1>2, <2>1, <2>2
<1>6. CASE Ask
  <2>1. /\ request \in Requests /\ ~asked /\ asked' = TRUE /\ todo' = Append(todo, Id)
        /\ UNCHANGED <<wire, sessions, request, pending>>
    BY <1>6 DEF Ask
  <2>2. Stream' = Stream
    BY <2>1 DEF Stream
  <2> DEFINE x == Id
  <2>3. x \in AskedFor /\ x[1] = sessions
    <3>1. Len(read) \in Nat
      BY <1>1, LenProperties DEF SimpleInv
    <3>2. QED
      BY <1>1, <2>1, <3>1 DEF Id, AskedFor, SimpleInv
  <2> HIDE DEF x
  <2>4. \A i \in 1 .. Len(todo) : todo[i][1] <= sessions
    BY <1>1 DEF IdsInv
  <2>5. Outstanding(todo, Stream, request, FALSE, sessions)
    BY <1>2, <2>1 DEF Outstanding
  <2>6. Outstanding(Append(todo, x), Stream, request, TRUE, sessions)
    BY <1>2, <2>1, <2>3, <2>4, <2>5, OutstandingAsked
  <2>7. QED
    BY <2>1, <2>2, <2>6 DEF x
<1>7. CASE Skip
  <2>1. /\ asked /\ Lines(pending) # {} /\ pending' = Remainder
        /\ UNCHANGED <<todo, wire, request, asked, sessions>>
    BY <1>7 DEF Skip, captainVars
  <2>2. Stream' = Rest(Stream, LineEnd)
    BY <1>1, <2>1, TakeStep
  <2> DEFINE k == LineEnd
  <2>3. k \in 0 .. Len(Stream)
    BY <1>1, <2>1, FirstLine
  <2> HIDE DEF k
  <2>4. Outstanding(todo, Stream, request, TRUE, sessions)
    BY <1>2, <2>1 DEF Outstanding
  <2>5. Outstanding(todo, Rest(Stream, k), request, TRUE, sessions)
    BY <1>2, <2>3, <2>4, OutstandingRest
  <2>6. asked' = TRUE
    BY <1>2, <2>1
  <2>7. QED
    BY <2>1, <2>2, <2>5, <2>6 DEF k
<1>8. CASE Malformed \/ GiveUp
  <2>1. request' = "failed" /\ todo' = todo
    BY <1>8 DEF Malformed, GiveUp, Fails, captainVars
  <2>2. QED
    BY <1>2, <2>1 DEF Outstanding, Requests
<1>9. CASE Open
  <2>1. /\ sessions' = sessions + 1 /\ todo' = todo /\ request' = "ping" /\ asked' = FALSE
    BY <1>9 DEF Open
  <2>2. ASSUME NEW k \in 1 .. Len(Stream') PROVE ~Of(Stream'[k], sessions')
    <3> SUFFICES ASSUME Stream'[k].of.id # <<>> PROVE Stream'[k].of.id[1] # sessions'
      BY DEF Of
    <3>1. PICK j \in 1 .. Len(Stream) : Stream'[k] = Stream[j]
      BY <1>1, <1>9, OpenStep DEF Old
    <3>2. Stream[j] \in Pieces
      BY <1>2, ElementOfSeq
    <3>3. Stream[j].of.id \in AskedFor /\ Stream[j].of.id[1] <= sessions
      BY <1>1, <3>1, <3>2 DEF Pieces, IdsInv
    <3>4. Stream[j].of.id[1] \in Nat
      BY <3>3 DEF AskedFor
    <3>5. QED
      BY <1>2, <2>1, <3>1, <3>3, <3>4
  <2>3. ASSUME NEW i \in 1 .. Len(todo) PROVE todo[i][1] # sessions'
    <3>1. todo[i] \in AskedFor /\ todo[i][1] <= sessions
      BY <1>1, <1>2, ElementOfSeq DEF IdsInv
    <3>2. todo[i][1] \in Nat
      BY <3>1 DEF AskedFor
    <3>3. QED
      BY <1>2, <2>1, <3>1, <3>2
  <2>4. sessions' # 0
    BY <1>2, <2>1
  <2>5. QED
    BY <1>2, <2>1, <2>2, <2>3, <2>4 DEF Outstanding
<1>10. CASE Progress
  <2>1. PICK s \in Requests : Answered(s)
    BY <1>10, ProgressIs
  <2>2. /\ asked /\ request \in Requests /\ Lines(pending) # {} /\ Whole /\ Message.id = Id /\ pending' = Remainder
    BY <2>1 DEF Answered
  <2>3. wire' = wire /\ todo' = todo /\ sessions' = sessions
    BY <1>10, ProgressIs DEF captainVars
  <2>4. asked' = FALSE
    BY <1>10 DEF Progress, Found, NotDirty, Listed, Page, WholeList, GotPatch, ListedAgain, GoOn, Fails, Complete
  <2>5. LineEnd = 2 /\ LineEnd \in 1 .. Len(Stream) /\ Message = Stream[1].of
    BY <1>1, <2>2, FirstLine DEF Whole
  <2>6. Stream' = Rest(Stream, 2)
    BY <1>1, <2>2, <2>3, <2>5, TakeStep
  <2>7. Of(Stream[1], sessions)
    <3>1. Id # <<>> /\ Id[1] = sessions
      BY DEF Id
    <3>2. QED
      BY <2>2, <2>5, <3>1 DEF Of
  <2>8. Outstanding(todo, Stream, request, TRUE, sessions)
    BY <1>2, <2>2 DEF Outstanding
  <2>9. Outstanding(todo, Rest(Stream, 2), request', FALSE, sessions)
    BY <1>2, <2>2, <2>5, <2>7, <2>8, OutstandingRead
  <2>10. QED
    BY <2>3, <2>4, <2>6, <2>9
<1>11. QED
  BY <1>3, <1>4, <1>5, <1>6, <1>7, <1>8, <1>9, <1>10 DEF SnapshotNext

\* The Captain has as many requests to answer as there were snapshots, at most.
LEMMA TodoBound ==
  ASSUME SimpleInv, IdsInv, OutstandingInv
  PROVE  Len(todo) <= sessions
<1>1. todo \in Seq(AskedFor) /\ Len(todo) \in Nat /\ sessions \in Nat
  BY LenProperties DEF IdsInv, SimpleInv
<1>2. CASE Len(todo) = 0
  BY <1>1, <1>2
<1>3. CASE Len(todo) # 0
  <2> DEFINE n == Len(todo)
  <2>1. n \in 1 .. Len(todo) /\ n \in Nat
    BY <1>1, <1>3
  <2>2. todo[n] \in AskedFor
    BY <1>1, <2>1, ElementOfSeq
  <2>3. todo[n][1] \in Nat /\ n <= todo[n][1] /\ todo[n][1] <= sessions
    BY <2>1, <2>2 DEF AskedFor, IdsInv, OutstandingInv, Outstanding
  <2> HIDE DEF n
  <2>4. n <= sessions
    BY <1>1, <2>1, <2>3
  <2>5. QED
    BY <2>4 DEF n
<1>4. QED
  BY <1>2, <1>3

\* What bounds the rest of the types.
ListTold(x) == x.of.id # <<>> /\ x.of.id[2] = "list" => x.of.body \in 0 .. MaxChanges

BoundsInv ==
  /\ profiles <= revision /\ revision <= MaxChanges /\ sessions + events <= MaxTraffic
  /\ listed \in 0 .. MaxChanges /\ fetched <= Len(read) /\ malformed \in BOOLEAN
  /\ page \in [revision : 0 .. MaxChanges, total : Nat]
  /\ \A i \in 1 .. Len(Stream) : ListTold(Stream[i])

LEMMA ListStep ==
  ASSUME SimpleInv, IdsInv, BoundsInv, StreamStep
  PROVE  \A i \in 1 .. Len(Stream') : ListTold(Stream'[i])
<1> SUFFICES ASSUME NEW i \in 1 .. Len(Stream') PROVE ListTold(Stream'[i])
  OBVIOUS
<1>1. CASE \E j \in 1 .. Len(Stream) : Stream'[i] = Stream[j]
  BY <1>1 DEF BoundsInv
<1>2. CASE todo # <<>> /\ Stream'[i].of = Reply
  <2>1. Reply.id = Head(todo) /\ Reply.body = Answer(Head(todo))
    BY DEF Reply
  <2>2. Head(todo)[2] = "list" => Answer(Head(todo)) = profiles
    BY DEF Answer
  <2>3. profiles \in 0 .. MaxChanges
    BY SnapshotAssumption DEF SimpleInv, BoundsInv
  <2>4. QED
    BY <1>2, <2>1, <2>2, <2>3 DEF ListTold
<1>3. CASE Stream'[i].of.id = <<>>
  BY <1>3 DEF ListTold
<1>4. QED
  BY <1>1, <1>2, <1>3 DEF StreamStep, Old, From

LEMMA BoundsStep ==
  ASSUME SnapshotInv, BoundsInv, [SnapshotNext]_snapshotVars
  PROVE  BoundsInv'
<1>1. SimpleInv /\ FramingInv /\ IdsInv /\ HistoryInv /\ ReadInv
  BY DEF SnapshotInv
<1>2. /\ profiles \in Nat /\ revision \in Nat /\ sessions \in Nat /\ events \in Nat /\ MaxChanges \in Nat
      /\ MaxTraffic \in Nat /\ profiles <= revision /\ revision <= MaxChanges
      /\ sessions + events <= MaxTraffic /\ fetched \in Nat /\ fetched <= Len(read) /\ Len(read) \in Nat
      /\ listed \in 0 .. MaxChanges /\ page \in [revision : 0 .. MaxChanges, total : Nat]
  BY <1>1, SnapshotAssumption, LenProperties DEF SimpleInv, BoundsInv
<1>3. \A i \in 1 .. Len(Stream') : ListTold(Stream'[i])
  BY <1>1, FramingStep, ListStep
<1>4. profiles' <= revision' /\ revision' <= MaxChanges
  <2>1. CASE Change
    <3>1. revision < MaxChanges /\ revision' = revision + 1 /\ (profiles' = profiles \/ profiles' = profiles + 1)
      BY <2>1 DEF Change
    <3>2. QED
      BY ONLY <1>2, <3>1
  <2>2. CASE ~Change
    <3>1. Progress => UNCHANGED <<profiles, revision>>
      BY ProgressIs DEF captainVars
    <3>2. UNCHANGED <<profiles, revision>>
      BY <2>2, <3>1 DEF SnapshotNext, Answers, Event, Saved, Open, Ask, Receive, Skip, Malformed, GiveUp,
         snapshotVars, captainVars, configVars
    <3>3. QED
      BY <1>2, <3>2
  <2>3. QED
    BY <2>1, <2>2
<1>5. sessions' + events' <= MaxTraffic
  <2>1. CASE Event \/ Open
    <3>1. /\ sessions + events < MaxTraffic
          /\ \/ sessions' = sessions + 1 /\ events' = events
             \/ sessions' = sessions /\ events' = events + 1
      BY <2>1 DEF Event, Open
    <3>2. QED
      BY ONLY <1>2, <3>1
  <2>2. CASE ~Event /\ ~Open
    <3>1. Progress => UNCHANGED <<sessions, events>>
      BY ProgressIs DEF captainVars
    <3>2. UNCHANGED <<sessions, events>>
      BY <2>2, <3>1 DEF SnapshotNext, Answers, Change, Saved, Ask, Receive, Skip, Malformed, GiveUp,
         snapshotVars, captainVars
    <3>3. QED
      BY <1>2, <3>2
  <2>3. QED
    BY <2>1, <2>2
<1>6. listed' \in 0 .. MaxChanges
  <2>1. CASE Listed
    <3>1. Answered("list") /\ listed' = Message.body
      BY <2>1 DEF Listed
    <3>2. Lines(pending) # {} /\ Message.id = Id /\ request = "list"
      BY <3>1 DEF Answered
    <3>3. LineEnd \in 1 .. Len(Stream) /\ Message = Stream[1].of
      BY <1>1, <3>2, FirstLine
    <3>4. 1 \in 1 .. Len(Stream)
      <4>1. Stream \in Seq(Pieces)
        BY <1>1, JoinIs DEF FramingInv, Stream
      <4>2. Len(Stream) \in Nat
        BY <4>1, LenProperties
      <4>3. QED
        BY ONLY <3>3, <4>2
    <3>5. Id # <<>> /\ Id[2] = "list"
      BY <3>2 DEF Id
    <3>6. ListTold(Stream[1])
      BY <3>4 DEF BoundsInv
    <3>7. QED
      BY <3>1, <3>2, <3>3, <3>5, <3>6 DEF ListTold
  <2>2. CASE ~Listed
    <3>1. Progress => listed' = listed
      BY <2>2 DEF Progress, Found, NotDirty, Page, WholeList, GotPatch, ListedAgain, resultVars
    <3>2. listed' = listed
      BY <2>2, <3>1 DEF SnapshotNext, Answers, Event, Change, Saved, Open, Ask, Receive, Skip, Malformed, GiveUp,
         snapshotVars, resultVars
    <3>3. QED
      BY <1>2, <3>2
  <2>3. QED
    BY <2>1, <2>2
<1>h. PICK h \in [0 .. revision -> Catalogs] : PagesTold(h) /\ (request = "page" => ReadOf(h))
  BY <1>1 DEF HistoryInv, PagesTold
<1>7. fetched' <= Len(read') /\ page' \in [revision : 0 .. MaxChanges, total : Nat]
  <2>1. CASE Page
    <3>1. /\ Answered("page") /\ fetched' = fetched /\ read' = read \o Message.body.patches
          /\ page' = IF read = <<>> THEN [revision |-> Message.body.revision, total |-> Message.body.total] ELSE page
      BY <2>1 DEF Page, Got
    <3>2. PICK r \in 0 .. revision :
            h[r] \in was /\ h[r] \in Seq(Nat) /\ Message.body = PageOf(h[r], r, Len(read))
      BY <1>1, <1>h, <3>1, PageIs
    <3> DEFINE p == Message.body
    <3>3. p.patches \in Seq(Nat) /\ p.revision = r /\ p.total \in Nat
      <4> DEFINE all == h[r]
                 a == Len(read)
                 q == PageOf(all, r, a)
      <4>1. SimpleInv /\ all \in Seq(Nat) /\ a \in Nat
        BY <1>1, <1>2, <3>2
      <4>2. p = q
        BY <3>2
      <4> HIDE DEF all, a
      <4>3. q.patches \in Seq(Nat) /\ q.revision = r /\ q.total \in Nat
        <5>1. q.patches \in Seq(Nat) /\ q.revision = r /\ q.total = Len(all) /\ Len(all) \in Nat
          BY ONLY <4>1, PageOfIs, Zenon
        <5>2. QED
          BY <5>1
      <4> HIDE DEF q, p
      <4>4. QED
        BY ONLY <4>2, <4>3
    <3> HIDE DEF p
    <3>4. Len(read') = Len(read) + Len(p.patches) /\ Len(p.patches) \in Nat
      BY <1>1, <3>1, <3>3, ConcatProperties, LenProperties DEF SimpleInv, p
    <3>5. fetched' <= Len(read')
      BY ONLY <1>2, <3>1, <3>4
    <3>6. r \in 0 .. MaxChanges
      BY ONLY <1>2, <3>2
    <3>7. [revision |-> p.revision, total |-> p.total] \in [revision : 0 .. MaxChanges, total : Nat]
      BY ONLY <3>3, <3>6
    <3>8. QED
      BY <1>2, <3>1, <3>5, <3>7 DEF p
  <2>2. CASE WholeList
    <3>1. request = "page" /\ fetched' = fetched /\ page' = page
      BY <2>2 DEF WholeList, Answered
    <3>2. read' \in Seq(Nat)
      BY <1>1, <1>h, <2>2, WholeStep
    <3>3. fetched' = 0 /\ Len(read') \in Nat
      BY <1>1, <3>1, <3>2, LenProperties DEF ReadInv
    <3>4. QED
      BY <1>2, <3>1, <3>3
  <2>3. CASE GotPatch
    <3>1. /\ request = "patch" /\ read' = read /\ page' = page
          /\ (fetched' = fetched \/ fetched' = fetched + 1)
      BY <2>3 DEF GotPatch, Answered
    <3>2. fetched < Len(read)
      BY <1>1, <3>1 DEF ReadInv
    <3>3. fetched' <= Len(read)
      BY ONLY <1>2, <3>1, <3>2
    <3>4. QED
      BY <1>2, <3>1, <3>3
  <2>4. CASE Open
    <3>1. fetched' = 0 /\ read' = <<>> /\ page' = [revision |-> 0, total |-> 0]
      BY <2>4 DEF Open, NoPage
    <3>2. Len(read') = 0
      BY <3>1, EmptySeq
    <3>3. page' \in [revision : 0 .. MaxChanges, total : Nat]
      BY <1>2, <3>1
    <3>4. QED
      BY <3>1, <3>2, <3>3
  <2>5. CASE ~Page /\ ~WholeList /\ ~GotPatch /\ ~Open
    <3>1. Progress => UNCHANGED <<read, page, fetched>>
      BY <2>5 DEF Progress, Found, NotDirty, Listed, ListedAgain, resultVars
    <3>2. UNCHANGED <<read, page, fetched>>
      BY <2>5, <3>1 DEF SnapshotNext, Answers, Event, Change, Saved, Ask, Receive, Skip, Malformed, GiveUp,
         snapshotVars, resultVars
    <3>3. QED
      BY <1>2, <3>2
  <2>6. QED
    BY <2>1, <2>2, <2>3, <2>4, <2>5
<1>8. malformed' \in BOOLEAN
  <2>1. Progress => malformed' = malformed
    BY ProgressIs
  <2>2. malformed' = malformed \/ malformed' = TRUE \/ malformed' = FALSE
    BY <2>1 DEF SnapshotNext, Answers, Event, Change, Saved, Open, Ask, Receive, Skip, Malformed, GiveUp,
       snapshotVars, resultVars
  <2>3. malformed \in BOOLEAN
    BY DEF BoundsInv
  <2>4. QED
    BY <2>2, <2>3
<1>9. QED
  BY <1>3, <1>4, <1>5, <1>6, <1>7, <1>8 DEF BoundsInv, ListTold

LEMMA SnapshotTyped ==
  ASSUME SnapshotInv, OutstandingInv, BoundsInv
  PROVE  SnapshotTypeOK
<1>1. SimpleInv /\ FramingInv /\ IdsInv
  BY DEF SnapshotInv
<1>2. Len(todo) <= sessions
  BY <1>1, TodoBound
<1>3. /\ profiles \in 0 .. MaxChanges /\ revision \in 0 .. MaxChanges
      /\ events \in 0 .. MaxTraffic /\ sessions \in 0 .. MaxTraffic
  BY <1>1, SnapshotAssumption DEF SimpleInv, BoundsInv
<1>4. fetched \in 0 .. Len(read)
  BY <1>1, LenProperties DEF SimpleInv, BoundsInv
<1>5. malformed \in BOOLEAN
  BY DEF BoundsInv
<1>6. QED
  BY <1>1, <1>2, <1>3, <1>4, <1>5 DEF SimpleInv, BoundsInv, SnapshotTypeOK

LEMMA SnapshotTypedStart == SnapshotInit => OutstandingInv /\ BoundsInv
<1> SUFFICES ASSUME SnapshotInit PROVE OutstandingInv /\ BoundsInv
  OBVIOUS
<1> DEFINE nil == <<>>
<1>1. /\ profiles = 0 /\ revision = 0 /\ todo = nil /\ wire = nil /\ events = 0
      /\ sessions = 0 /\ request = "idle" /\ pending = nil /\ listed = 0
      /\ read = nil /\ fetched = 0 /\ malformed = FALSE /\ page = [revision |-> 0, total |-> 0]
  BY DEF SnapshotInit, NoPage
<1>2. nil \in Seq(Pieces) /\ Len(nil) = 0
  BY EmptySeq
<1>3. Stream = nil
  BY <1>1, <1>2, ConcatEmptySeq DEF Stream
<1> HIDE DEF nil
<1>4. request \notin Requests
  BY <1>1 DEF Requests
<1>5. OutstandingInv
  BY <1>1, <1>2, <1>3, <1>4 DEF OutstandingInv, Outstanding
<1>6. BoundsInv
  <2>1. \A i \in 1 .. Len(Stream) : ListTold(Stream[i])
    BY ONLY <1>2, <1>3
  <2>2. MaxChanges \in Nat /\ MaxTraffic \in Nat
    BY SnapshotAssumption
  <2>3. /\ profiles <= revision /\ revision <= MaxChanges /\ sessions + events <= MaxTraffic
        /\ listed \in 0 .. MaxChanges
    BY ONLY <1>1, <2>2
  <2>4. fetched <= Len(read) /\ malformed \in BOOLEAN
    <3>1. fetched = 0 /\ Len(read) = 0 /\ malformed = FALSE
      BY ONLY <1>1, <1>2
    <3>2. fetched <= Len(read)
      BY ONLY <3>1, SMT
    <3>3. malformed \in BOOLEAN
      BY ONLY <3>1
    <3>4. QED
      BY ONLY <3>2, <3>3
  <2>5. page \in [revision : 0 .. MaxChanges, total : Nat]
    <3>1. 0 \in 0 .. MaxChanges /\ 0 \in Nat
      BY ONLY <2>2
    <3>2. QED
      BY ONLY <1>1, <3>1
  <2>6. QED
    BY <2>1, <2>3, <2>4, <2>5 DEF BoundsInv
<1>7. QED
  BY <1>5, <1>6

\* The types of the snapshot, and with them that the Captain is never asked a
\* second thing before it has answered, or the snapshot has been given up: it
\* has at most one request to answer for each (firmware_install.py:367-395).
THEOREM SnapshotTypeCorrect == SnapshotSpec => []SnapshotTypeOK
<1> DEFINE I == SnapshotInv /\ OutstandingInv /\ BoundsInv
<1>1. SnapshotInit => I
  BY SnapshotStart, SnapshotTypedStart
<1>2. I /\ [SnapshotNext]_snapshotVars => I'
  BY SnapshotStep, OutstandingStep, BoundsStep
<1>3. I => SnapshotTypeOK
  BY SnapshotTyped
<1>4. QED
  BY <1>1, <1>2, <1>3, PTL DEF SnapshotSpec
-----------------------------------------------------------------------------
(* The output service of the kiosk.                                        *)

\* The places of an attempt, which has been waited for and is not counted yet.
Attempting == {"query", "take", "off", "pause", "on", "succeeded", "failed"}

ScheduleInv ==
  /\ pc \in {"down", "watch"} \cup Attempting
  /\ due \in {"none", "later", "now"} /\ attempts \in 0 .. MaxAttempts
  /\ due # "none" => connected /\ attempts < MaxAttempts
  /\ pc \in Attempting => due = "now"

DevicesInv ==
  /\ panel \in BOOLEAN /\ shown \in BOOLEAN /\ enabled \in BOOLEAN /\ lit \in BOOLEAN
  /\ hotplug \in BOOLEAN /\ monitor \in BOOLEAN /\ connected \in BOOLEAN
  /\ policy \in {"none", "running", "exited"}

CountsInv == panelPlugs \in 0 .. MaxPanels /\ faults \in 0 .. MaxFaults

KioskInv == ScheduleInv /\ DevicesInv /\ CountsInv

LEMMA KioskTyped == KioskInv => Recovery!RecoveryTypeOK
  BY DEF KioskInv, ScheduleInv, DevicesInv, CountsInv, Attempting, Recovery!RecoveryTypeOK, Recovery!Rearming

LEMMA KioskBounds == MaxAttempts \in Nat \ {0} /\ MaxPanels \in Nat /\ MaxFaults \in Nat
  BY ServicesAssumption DEF Recovery!RecoveryAssumption

LEMMA KioskStart ==
  ASSUME Recovery!RecoveryInit
  PROVE  KioskInv
<1>1. ScheduleInv
  BY KioskBounds DEF Recovery!RecoveryInit, ScheduleInv, Attempting
<1>2. DevicesInv
  BY DEF Recovery!RecoveryInit, DevicesInv
<1>3. CountsInv
  BY KioskBounds DEF Recovery!RecoveryInit, CountsInv
<1>4. QED
  BY <1>1, <1>2, <1>3 DEF KioskInv

\* An attempt is counted once, and the next one is due only if there is one left.
LEMMA CompletedKeeps ==
  ASSUME KioskInv, NEW x, Recovery!Completed(x), pc \in Attempting
  PROVE  ScheduleInv' /\ connected' = connected
<1>1. due = "now" /\ connected /\ attempts < MaxAttempts /\ attempts \in Nat /\ MaxAttempts \in Nat
  BY KioskBounds DEF KioskInv, ScheduleInv
<1>2. /\ pc' = "watch" /\ attempts' = attempts + 1 /\ connected' = connected
      /\ due' = "none" \/ (due' = "later" /\ attempts + 1 < MaxAttempts)
  BY DEF Recovery!Completed
<1>3. QED
  BY <1>1, <1>2 DEF ScheduleInv, Attempting

LEMMA KioskStep ==
  ASSUME KioskInv, [Recovery!RecoveryNext]_kioskVars
  PROVE  KioskInv'
<1> USE DEF KioskInv
<1>s. UNCHANGED <<pc, due, attempts, connected>> => ScheduleInv'
  BY DEF ScheduleInv
<1>1. CountsInv'
  <2>1. \/ UNCHANGED <<panelPlugs, faults>> \/ (UNCHANGED panelPlugs /\ Recovery!Fault)
        \/ (Recovery!Plug /\ UNCHANGED faults)
    BY DEF Recovery!RecoveryNext, Recovery!RecoveryStep, Recovery!Plug, Recovery!Publish, Recovery!PolicyApplies,
       Recovery!PolicyExits, Recovery!Start, Recovery!Watch, Recovery!WatchFails, Recovery!Delay, Recovery!Query,
       Recovery!TakeOutputs, Recovery!SwitchOff, Recovery!Pause, Recovery!SwitchOn, Recovery!GiveBack,
       Recovery!Terminated, kioskVars
  <2>2. ASSUME Recovery!Fault PROVE faults' \in 0 .. MaxFaults
    <3>1. faults < MaxFaults /\ faults' = faults + 1 /\ faults \in 0 .. MaxFaults
      BY <2>2 DEF Recovery!Fault, CountsInv
    <3>2. QED
      BY ONLY <3>1, KioskBounds
  <2>p. ASSUME Recovery!Plug PROVE panelPlugs' \in 0 .. MaxPanels
    <3>1. panelPlugs < MaxPanels /\ panelPlugs' = panelPlugs + 1 /\ panelPlugs \in 0 .. MaxPanels
      BY <2>p DEF Recovery!Plug, CountsInv
    <3>2. QED
      BY ONLY <3>1, KioskBounds
  <2>3. QED
    BY <2>1, <2>2, <2>p DEF CountsInv
<1>2. CASE Recovery!Start
  <2>1. ScheduleInv'
    BY <1>2, KioskBounds DEF Recovery!Start, ScheduleInv, Attempting
  <2>2. DevicesInv'
    BY <1>2 DEF Recovery!Start, Recovery!panelVars, DevicesInv
  <2>3. QED
    BY <1>1, <2>1, <2>2
<1>3. CASE Recovery!Watch
  <2>1. ScheduleInv'
    BY <1>3, KioskBounds DEF Recovery!Watch, Recovery!scheduleVars, ScheduleInv, DevicesInv, Attempting
  <2>2. DevicesInv'
    BY <1>3 DEF Recovery!Watch, Recovery!panelVars, Recovery!scheduleVars, DevicesInv
  <2>3. QED
    BY <1>1, <2>1, <2>2
<1>4. CASE Recovery!Delay
  <2>1. ScheduleInv'
    BY <1>4 DEF Recovery!Delay, ScheduleInv, Attempting
  <2>2. DevicesInv'
    BY <1>4 DEF Recovery!Delay, Recovery!panelVars, DevicesInv
  <2>3. QED
    BY <1>1, <2>1, <2>2
<1>5. CASE Recovery!WatchFails \/ Recovery!Terminated
  <2>1. ScheduleInv'
    BY <1>5 DEF Recovery!WatchFails, Recovery!Terminated, Recovery!Leave, Recovery!scheduleVars, ScheduleInv, Attempting
  <2>2. DevicesInv'
    BY <1>5 DEF Recovery!WatchFails, Recovery!Terminated, Recovery!Leave, Recovery!panelVars, Recovery!scheduleVars, DevicesInv
  <2>3. QED
    BY <1>1, <2>1, <2>2
<1>6. CASE Recovery!Query
  <2>1. pc = "query" /\ pc \in Attempting
    BY <1>6 DEF Recovery!Query, Attempting
  <2>2. \/ (pc' = "take" /\ UNCHANGED Recovery!scheduleVars) \/ Recovery!Completed(~panel)
        \/ Recovery!Completed(FALSE)
    BY <1>6 DEF Recovery!Query
  <2>3. ScheduleInv' /\ connected' = connected
    <3>1. CASE pc' = "take" /\ UNCHANGED Recovery!scheduleVars
      BY <2>1, <3>1 DEF Recovery!scheduleVars, ScheduleInv, Attempting
    <3>2. CASE Recovery!Completed(~panel)
      BY <2>1, <3>2, CompletedKeeps
    <3>3. CASE Recovery!Completed(FALSE)
      BY <2>1, <3>3, CompletedKeeps
    <3>4. QED
      BY <2>2, <3>1, <3>2, <3>3
  <2>4. DevicesInv'
    BY <1>6, <2>3 DEF Recovery!Query, Recovery!panelVars, DevicesInv
  <2>5. QED
    BY <1>1, <2>3, <2>4
<1>7. CASE Recovery!TakeOutputs
  <2>1. pc = "take" /\ pc \in Attempting
    BY <1>7 DEF Recovery!TakeOutputs, Attempting
  <2>2. (pc' = "off" /\ UNCHANGED Recovery!scheduleVars) \/ Recovery!Completed(FALSE)
    BY <1>7 DEF Recovery!TakeOutputs
  <2>3. ScheduleInv' /\ connected' = connected
    <3>1. CASE pc' = "off" /\ UNCHANGED Recovery!scheduleVars
      BY <2>1, <3>1 DEF Recovery!scheduleVars, ScheduleInv, Attempting
    <3>2. CASE Recovery!Completed(FALSE)
      BY <2>1, <3>2, CompletedKeeps
    <3>3. QED
      BY <2>2, <3>1, <3>2
  <2>4. DevicesInv'
    BY <1>7, <2>3 DEF Recovery!TakeOutputs, Recovery!panelVars, DevicesInv
  <2>5. QED
    BY <1>1, <2>3, <2>4
<1>8. CASE Recovery!SwitchOff \/ Recovery!Pause \/ Recovery!SwitchOn
  <2>1. /\ pc \in Attempting /\ pc' \in Attempting /\ UNCHANGED <<due, attempts, connected>>
    BY <1>8 DEF Recovery!SwitchOff, Recovery!Pause, Recovery!SwitchOn, Recovery!scheduleVars, Attempting
  <2>2. ScheduleInv'
    BY <2>1 DEF ScheduleInv
  <2>3. DevicesInv'
    BY <1>8 DEF Recovery!SwitchOff, Recovery!Pause, Recovery!SwitchOn, Recovery!panelVars, Recovery!scheduleVars, DevicesInv
  <2>4. QED
    BY <1>1, <2>2, <2>3
<1>9. CASE Recovery!GiveBack
  <2>1. pc \in Attempting
    BY <1>9 DEF Recovery!GiveBack, Attempting
  <2>2. \E x \in BOOLEAN : Recovery!Completed(x)
    BY <1>9 DEF Recovery!GiveBack
  <2>3. ScheduleInv' /\ connected' = connected
    BY <2>1, <2>2, CompletedKeeps
  <2>4. DevicesInv'
    BY <1>9, <2>3 DEF Recovery!GiveBack, Recovery!panelVars, DevicesInv
  <2>5. QED
    BY <1>1, <2>3, <2>4
<1>10. CASE Recovery!Plug \/ Recovery!Publish \/ Recovery!PolicyApplies \/ Recovery!PolicyExits
  <2>1. ScheduleInv'
    BY <1>10, <1>s DEF Recovery!Plug, Recovery!Publish, Recovery!PolicyApplies, Recovery!PolicyExits, Recovery!scheduleVars
  <2>2. DevicesInv'
    BY <1>10 DEF Recovery!Plug, Recovery!Publish, Recovery!PolicyApplies, Recovery!PolicyExits,
       Recovery!panelVars, Recovery!scheduleVars, DevicesInv
  <2>3. QED
    BY <1>1, <2>1, <2>2
<1>11. CASE UNCHANGED kioskVars
  BY <1>1, <1>11 DEF kioskVars, ScheduleInv, DevicesInv
<1>12. QED
  BY <1>2, <1>3, <1>4, <1>5, <1>6, <1>7, <1>8, <1>9, <1>10, <1>11
  DEF Recovery!RecoveryNext, Recovery!RecoveryStep
-----------------------------------------------------------------------------
(* The wiring of the MIDI devices.                                         *)

\* A set of numbers that is not empty has a least member.
LEMMA LeastIs ==
  ASSUME NEW S \in SUBSET Nat, S # {}
  PROVE  Wiring!Min(S) \in S
<1> DEFINE R == OpToRel(<, Nat)
<1>1. IsWellFoundedOn(R, Nat)
  BY NatLessThanWellFounded
<1>2. ASSUME NEW x \in Nat, NEW y \in Nat, y < x PROVE <<y, x>> \in R
  BY <1>2 DEF OpToRel
<1> HIDE DEF R
<1>3. \E x \in S : \A y \in S : ~(<<y, x>> \in R)
  BY <1>1, WFMin
<1>4. PICK x \in S : \A y \in S : ~(<<y, x>> \in R)
  BY <1>3
<1>5. \A y \in S : x =< y
  <2> TAKE y \in S
  <2>1. x \in Nat /\ y \in Nat
    OBVIOUS
  <2>2. ~(y < x)
    BY <1>2, <1>4, <2>1
  <2>3. QED
    BY ONLY <2>1, <2>2
<1>6. QED
  BY <1>5 DEF Wiring!Min

LEMMA SameFinite == ASSUME NEW S PROVE Wiring!IsFiniteSet(S) <=> IsFiniteSet(S)
  BY DEF IsFiniteSet, Wiring!IsFiniteSet

LEMMA SameCardinality == ASSUME NEW S PROVE Wiring!Cardinality(S) = Cardinality(S)
  BY Zenon DEF Cardinality, Wiring!Cardinality

LEMMA DevicesAre ==
  /\ IsFiniteSet(Wiring!Devices) /\ Cardinality(Wiring!Devices) \in Nat
  /\ "captain" \in Wiring!Devices /\ "kemper" \in Wiring!Devices
  /\ MaxReplugs \in Nat /\ MaxCut \in Nat
<1>1. IsFiniteSet(Others) /\ MaxReplugs \in Nat /\ MaxCut \in Nat
  BY ServicesAssumption, SameFinite DEF Wiring!WiringAssumption
<1>2. IsFiniteSet(Others \cup {"captain"})
  BY <1>1, FS_AddElement
<1>3. IsFiniteSet((Others \cup {"captain"}) \cup {"kemper"})
  BY <1>2, FS_AddElement
<1>4. Wiring!Devices = (Others \cup {"captain"}) \cup {"kemper"}
  BY DEF Wiring!Devices
<1>5. IsFiniteSet(Wiring!Devices)
  BY <1>3, <1>4
<1>6. QED
  BY <1>1, <1>4, <1>5, FS_CardinalityType

\* There is a number for every device, so that there is a free one for a device that is away.
LEMMA FreeIs ==
  ASSUME Wiring!WiringTypeOK, NEW d \in Wiring!Devices, client[d] = 0
  PROVE  Wiring!Min(Wiring!Numbers \ {client[e] : e \in Wiring!Devices})
           \in Wiring!Numbers \ {client[e] : e \in Wiring!Devices}
<1> DEFINE D == Wiring!Devices
           N == Wiring!Numbers
           S == N \ {client[e] : e \in D}
           R == {e \in D : client[e] # 0}
           f == [e \in R |-> client[e]]
<1>1. IsFiniteSet(D) /\ Cardinality(D) \in Nat
  BY DevicesAre
<1>2. client \in [D -> {0} \cup N]
  BY DEF Wiring!WiringTypeOK
<1>3. N \subseteq Nat /\ Cardinality(N) = Cardinality(D)
  <2>1. N = 1 .. Cardinality(D)
    BY SameCardinality DEF Wiring!Numbers
  <2>2. Cardinality(1 .. Cardinality(D)) = Cardinality(D)
    BY <1>1, FS_Interval
  <2>3. QED
    BY <1>1, <2>1, <2>2
<1>4. /\ IsFiniteSet(D \ {d}) /\ Cardinality(D \ {d}) = Cardinality(D) - 1
  BY <1>1, FS_RemoveElement
<1>5. R \subseteq D \ {d}
  OBVIOUS
<1>6. IsFiniteSet(R) /\ Cardinality(R) <= Cardinality(D) - 1 /\ Cardinality(R) \in Nat
  BY <1>4, <1>5, FS_Subset, FS_CardinalityType
<1> HIDE DEF D, N
<1>7. ASSUME S = {} PROVE FALSE
  <2>1. f \in [R -> N]
    BY <1>2
  <2>2. ASSUME NEW n \in N PROVE \E e \in R : f[e] = n
    <3>1. PICK e \in D : client[e] = n
      BY <1>7
    <3>2. n # 0
      BY <1>1 DEF N, Wiring!Numbers
    <3>3. QED
      BY <3>1, <3>2
  <2>3. f \in Surjection(R, N)
    BY <2>1, <2>2 DEF Surjection
  <2>4. Cardinality(N) <= Cardinality(R)
    BY <1>6, <2>3, FS_Surjection
  <2>5. QED
    BY <1>1, <1>3, <1>6, <2>4
<1>8. S \in SUBSET Nat
  BY <1>3
<1>9. Wiring!Min(S) \in S
  BY <1>7, <1>8, LeastIs
<1>10. QED
  BY <1>9 DEF D, N

\* No two devices have the same number, and one that has ports has a number.
NumbersInv ==
  /\ client \in [Wiring!Devices -> {0} \cup Wiring!Numbers] /\ ported \subseteq Wiring!Devices
  /\ \A d, e \in Wiring!Devices : client[d] = client[e] => d = e \/ client[d] = 0
  /\ \A d \in ported : client[d] # 0

RunInv ==
  /\ wires \subseteq Wiring!Numbers \X Wiring!Numbers
  /\ wiring \in {"idle", "listing", "out", "back"}
  /\ found \in [{"captain", "kemper"} -> {0} \cup Wiring!Numbers]
  /\ replugs \in 0 .. MaxReplugs /\ cuts \in 0 .. MaxCut

WiringInv == NumbersInv /\ RunInv

LEMMA WiringTyped == WiringInv => Wiring!WiringTypeOK
  BY DEF WiringInv, NumbersInv, RunInv, Wiring!WiringTypeOK

LEMMA NumbersAre == 0 \notin Wiring!Numbers
<1>1. Cardinality(Wiring!Devices) \in Nat
  BY DevicesAre
<1>2. Wiring!Numbers = 1 .. Cardinality(Wiring!Devices)
  BY SameCardinality DEF Wiring!Numbers
<1>3. QED
  BY ONLY <1>1, <1>2

LEMMA WiringStart ==
  ASSUME Wiring!WiringInit
  PROVE  WiringInv
<1>1. /\ client = [d \in Wiring!Devices |-> 0] /\ ported = {} /\ wires = {} /\ wiring = "idle"
      /\ found = [captain |-> 0, kemper |-> 0] /\ replugs = 0 /\ cuts = 0
  BY DEF Wiring!WiringInit
<1>2. NumbersInv
  BY <1>1 DEF NumbersInv
<1>3. found \in [{"captain", "kemper"} -> {0} \cup Wiring!Numbers]
  BY <1>1
<1>4. replugs \in 0 .. MaxReplugs /\ cuts \in 0 .. MaxCut
  BY <1>1, DevicesAre
<1>5. RunInv
  BY <1>1, <1>3, <1>4 DEF RunInv
<1>6. QED
  BY <1>2, <1>5 DEF WiringInv

LEMMA ComeStep ==
  ASSUME WiringInv, NEW d \in Wiring!Devices, Wiring!Come(d)
  PROVE  WiringInv'
<1> DEFINE D == Wiring!Devices
           N == Wiring!Numbers
           n == Wiring!Min(N \ {client[e] : e \in D})
<1>1. /\ client[d] = 0 /\ replugs < MaxReplugs /\ replugs' = replugs + 1
      /\ client' = [client EXCEPT ![d] = n]
      /\ UNCHANGED <<ported, wires, wiring, found, cuts>>
  BY DEF Wiring!Come
<1>2. n \in N \ {client[e] : e \in D}
  BY <1>1, WiringTyped, FreeIs
<1>3. n \in N /\ n # 0 /\ \A e \in D : client[e] # n
  BY <1>2, NumbersAre
<1> HIDE DEF n
<1>4. /\ client \in [D -> {0} \cup N] /\ ported \subseteq D
      /\ \A x, y \in D : client[x] = client[y] => x = y \/ client[x] = 0
      /\ \A x \in ported : client[x] # 0
  BY DEF WiringInv, NumbersInv
<1> HIDE DEF D, N
<1>5. client' \in [D -> {0} \cup N] /\ \A e \in D : client'[e] = IF e = d THEN n ELSE client[e]
  BY <1>1, <1>3, <1>4
<1>6. \A x, y \in D : client'[x] = client'[y] => x = y \/ client'[x] = 0
  BY <1>3, <1>4, <1>5
<1>7. ported' \subseteq D /\ \A x \in ported' : client'[x] # 0
  BY <1>1, <1>3, <1>4, <1>5
<1>8. NumbersInv'
  BY <1>5, <1>6, <1>7 DEF NumbersInv, D, N
<1>9. replugs' \in 0 .. MaxReplugs
  BY <1>1, DevicesAre DEF WiringInv, RunInv
<1>10. RunInv'
  BY <1>1, <1>9 DEF WiringInv, RunInv
<1>11. QED
  BY <1>8, <1>10 DEF WiringInv

LEMMA GoStep ==
  ASSUME WiringInv, NEW d \in Wiring!Devices, Wiring!Go(d)
  PROVE  WiringInv'
<1>1. /\ client' = [client EXCEPT ![d] = 0] /\ ported' = ported \ {d} /\ wires' \subseteq wires
      /\ UNCHANGED <<wiring, found, replugs, cuts>>
  BY DEF Wiring!Go
<1>2. /\ client' \in [Wiring!Devices -> {0} \cup Wiring!Numbers]
      /\ \A e \in Wiring!Devices : client'[e] = IF e = d THEN 0 ELSE client[e]
  BY <1>1 DEF WiringInv, NumbersInv
<1>3. NumbersInv'
  BY <1>1, <1>2 DEF WiringInv, NumbersInv
<1>4. RunInv'
  BY <1>1 DEF WiringInv, RunInv
<1>5. QED
  BY <1>3, <1>4 DEF WiringInv

\* Two clients that have ports can be connected.
LEMMA ConnectedIs ==
  ASSUME WiringInv, NEW x, NEW y
  PROVE  Wiring!Connected(x, y) \subseteq Wiring!Numbers \X Wiring!Numbers
<1>1. {client[d] : d \in ported} \subseteq Wiring!Numbers
  BY DEF WiringInv, NumbersInv
<1>2. wires \subseteq Wiring!Numbers \X Wiring!Numbers
  BY DEF WiringInv, RunInv
<1>3. QED
  BY <1>1, <1>2 DEF Wiring!Connected

LEMMA WiringStep ==
  ASSUME WiringInv, [Wiring!WiringNext]_midiVars
  PROVE  WiringInv'
<1>1. CASE \E d \in Wiring!Devices : Wiring!Come(d)
  BY <1>1, ComeStep
<1>2. CASE \E d \in Wiring!Devices : Wiring!Go(d)
  BY <1>2, GoStep
<1>3. CASE \E d \in Wiring!Devices : Wiring!PortsCome(d)
  <2>1. PICK d \in Wiring!Devices : Wiring!PortsCome(d)
    BY <1>3
  <2>2. /\ client[d] # 0 /\ ported' = ported \cup {d}
        /\ UNCHANGED <<client, wires, wiring, found, replugs, cuts>>
    BY <2>1 DEF Wiring!PortsCome
  <2>3. NumbersInv' /\ RunInv'
    BY <2>2 DEF WiringInv, NumbersInv, RunInv
  <2>4. QED
    BY <2>3 DEF WiringInv
<1>4. CASE Wiring!List
  <2>1. /\ found' = [captain |-> Wiring!Find("captain"), kemper |-> Wiring!Find("kemper")]
        /\ wiring' \in {"idle", "out"}
        /\ UNCHANGED <<client, ported, wires, replugs, cuts>>
    BY <1>4 DEF Wiring!List, Wiring!deviceVars
  <2>2. \A d \in Wiring!Devices : Wiring!Find(d) \in {0} \cup Wiring!Numbers
    BY DEF Wiring!Find, WiringInv, NumbersInv
  <2>3. found' \in [{"captain", "kemper"} -> {0} \cup Wiring!Numbers]
    BY <2>1, <2>2, DevicesAre
  <2>4. NumbersInv' /\ RunInv'
    BY <2>1, <2>3 DEF WiringInv, NumbersInv, RunInv
  <2>5. QED
    BY <2>4 DEF WiringInv
<1>5. CASE Wiring!ConnectOut \/ Wiring!ConnectBack
  <2>1. /\ wiring' \in {"back", "idle"} /\ UNCHANGED <<client, ported, found, replugs, cuts>>
        /\ wires' \subseteq Wiring!Numbers \X Wiring!Numbers
    BY <1>5, ConnectedIs DEF Wiring!ConnectOut, Wiring!ConnectBack, Wiring!deviceVars
  <2>2. NumbersInv' /\ RunInv'
    BY <2>1 DEF WiringInv, NumbersInv, RunInv
  <2>3. QED
    BY <2>2 DEF WiringInv
<1>6. CASE Wiring!Begin \/ Wiring!Cut \/ UNCHANGED midiVars
  <2>1. /\ wiring' \in {wiring, "listing", "idle"} /\ UNCHANGED <<client, ported, wires, found, replugs>>
        /\ cuts' = cuts \/ (cuts < MaxCut /\ cuts' = cuts + 1)
    BY <1>6 DEF Wiring!Begin, Wiring!Cut, Wiring!deviceVars, midiVars
  <2>2. cuts' \in 0 .. MaxCut
    BY <2>1, DevicesAre DEF WiringInv, RunInv
  <2>3. NumbersInv' /\ RunInv'
    BY <2>1, <2>2 DEF WiringInv, NumbersInv, RunInv
  <2>4. QED
    BY <2>3 DEF WiringInv
<1>7. QED
  BY <1>1, <1>2, <1>3, <1>4, <1>5, <1>6 DEF Wiring!WiringNext, Wiring!WiringStep
-----------------------------------------------------------------------------
(* All of them.                                                            *)

ServicesInv ==
  SessionsInv /\ KioskInv /\ WiringInv /\ IInv /\ SnapshotInv /\ OutstandingInv /\ BoundsInv

\* The subject makes a step of its own, or nobody does.
LEMMA OneOfThem ==
  ASSUME [Next]_vars
  PROVE  /\ [SessionsNext]_sessionVars /\ [Recovery!RecoveryNext]_kioskVars /\ [Wiring!WiringNext]_midiVars
         /\ [AccessNext]_accessVars /\ [SnapshotNext]_snapshotVars
  BY DEF Next, vars

LEMMA ServicesStart == Init => ServicesInv
<1> SUFFICES ASSUME Init PROVE ServicesInv
  OBVIOUS
<1>1. SessionsInit /\ Recovery!RecoveryInit /\ Wiring!WiringInit /\ AccessInit /\ SnapshotInit
  BY DEF Init
<1>2. QED
  BY <1>1, SessionsStart, KioskStart, WiringStart, InitGood, SnapshotStart, SnapshotTypedStart DEF ServicesInv

LEMMA ServicesStep == ServicesInv /\ [Next]_vars => ServicesInv'
<1> SUFFICES ASSUME ServicesInv, [Next]_vars PROVE ServicesInv'
  OBVIOUS
<1>1. /\ [SessionsNext]_sessionVars /\ [Recovery!RecoveryNext]_kioskVars /\ [Wiring!WiringNext]_midiVars
      /\ [AccessNext]_accessVars /\ [SnapshotNext]_snapshotVars
  BY OneOfThem
<1>2. SessionsInv' /\ KioskInv' /\ WiringInv'
  BY <1>1, SessionsStep, KioskStep, WiringStep DEF ServicesInv
<1>3. IInv'
  BY <1>1, StepGood DEF ServicesInv
<1>4. SnapshotInv' /\ OutstandingInv' /\ BoundsInv'
  BY <1>1, SnapshotStep, OutstandingStep, BoundsStep DEF ServicesInv
<1>5. QED
  BY <1>2, <1>3, <1>4 DEF ServicesInv

LEMMA ServicesTyped == ServicesInv => TypeOK
<1> SUFFICES ASSUME ServicesInv PROVE TypeOK
  OBVIOUS
<1>1. SessionsTypeOK
  BY SessionsTyped DEF ServicesInv
<1>2. Recovery!RecoveryTypeOK /\ Wiring!WiringTypeOK
  BY KioskTyped, WiringTyped DEF ServicesInv
<1>3. AccessTypeOK /\ SnapshotTypeOK
  BY SnapshotTyped DEF ServicesInv, IInv
<1>4. QED
  BY <1>1, <1>2, <1>3 DEF TypeOK

\* Every variable of every one of these programs keeps its type, whichever of them
\* a behaviour is about.  In it are the schedule of the kiosk, which never waits for
\* an attempt that is not left (bosun-hdmi-recovery.py:37-51), and the numbers of the
\* MIDI clients, of which no two devices have the same (midi_connect.py:51-66).
THEOREM ServicesTypeCorrect == FairSpec => []TypeOK
<1>1. FairSpec => Init /\ [][Next]_vars
  BY DEF FairSpec
<1>2. QED
  BY <1>1, ServicesStart, ServicesStep, ServicesTyped, PTL
=============================================================================
