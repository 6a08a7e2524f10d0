------------------------------ MODULE InstallIO -------------------------------
(***************************************************************************)
(* How the installer reaches the Captain it has pinned: through a serial   *)
(* port found by name, and through picotool, which is given an address on  *)
(* the USB bus.  Names and addresses are used again for what is plugged in *)
(* next, so that each is checked again around its use.                     *)
(*                                                                         *)
(* "mine" is the pinned Captain and "P" the place on the bus where it was; *)
(* there is one more Captain and one more place.                           *)
(***************************************************************************)
EXTENDS Naturals, Sequences

CONSTANTS Chunks,     \* the ranges a backup is read in
          MaxPlugs,   \* bound on the units plugged in
          MaxWrites   \* bound on the changes a firmware makes to its flash

ASSUME AccessAssumption == Chunks \in Nat \ {0} /\ {MaxPlugs, MaxWrites} \subseteq Nat

VARIABLES
  \* the units
  place,    \* where each is plugged in
  mode,     \* "starting", "running" or "bootsel"
  number,   \* its tty name or its address on the bus, 0 for none
  flash,    \* the state of the flash of each
  plugs,
  \* the installer
  round,    \* the sequence of operations it follows
  at,       \* the number of the one being done; one more than the last at the end
  step,     \* where that operation is
  name,     \* the port found, or the address selected
  fd,       \* the unit an open port is attached to, or "gone"
  backup,   \* the state of the flash each range was read from
  obeyed    \* history: the units that carried out a command

unitVars   == <<place, mode, number, flash, plugs>>
planVars   == <<round, at>>
portVars   == <<name, fd>>
accessVars == <<unitVars, planVars, step, portVars, backup, obeyed>>
-----------------------------------------------------------------------------
Units == {"mine", "other"}
Names == 1 .. 3

\* FirmwareInstaller.run: the update, and what it does after a failure, once it
\* has begun to write and before.
Rounds == [update  |-> <<"read", "enter", "save", "verify", "load", "verify", "reboot", "read">>,
           restore |-> <<"recover", "load", "verify", "reboot", "read">>,
           resume  |-> <<"recover", "reboot">>]

\* What a flash holds: what its firmware has written, or the new firmware.
New == MaxWrites + 1

Op == IF at > Len(Rounds[round]) THEN "none" ELSE Rounds[round][at]
Ports == {"read", "enter"}
Tool  == {"save", "verify", "load", "reboot"}

AccessTypeOK ==
  /\ place \in [Units -> {"P", "Q", "none"}]
  /\ mode \in [Units -> {"starting", "running", "bootsel"}]
  /\ number \in [Units -> {0} \cup Names]
  /\ flash \in [Units -> 0 .. New] /\ plugs \in 0 .. MaxPlugs
  /\ round \in DOMAIN Rounds
  /\ at \in 1 .. Len(Rounds[round]) + 1
  /\ step \in {"begin", "find", "open", "check", "use", "look", "select", "run"}
  /\ name \in {0} \cup Names /\ fd \in Units \cup {"none", "gone"}
  /\ backup \in Seq(0 .. New) /\ Len(backup) <= Chunks
  /\ obeyed \subseteq Units

AccessInit ==
  /\ place = [mine |-> "P", other |-> "none"]
  /\ mode = [mine |-> "running", other |-> "starting"]
  /\ number = [mine |-> 1, other |-> 0]
  /\ flash = [u \in Units |-> 0] /\ plugs = 0
  /\ round = "update" /\ at = 1 /\ step = "begin" /\ name = 0 /\ fd = "none"
  /\ backup = <<>> /\ obeyed = {}
-----------------------------------------------------------------------------
(***************************************************************************)
(* The units.                                                              *)
(***************************************************************************)
\* A name is free again once its unit is gone and its port is closed.
Free == Names \ ({number[u] : u \in Units} \cup (IF fd = "gone" THEN {name} ELSE {}))

PlugIn(u) ==
  /\ place[u] = "none" /\ plugs < MaxPlugs /\ plugs' = plugs + 1
  /\ \E p \in {"P", "Q"} \ {place[v] : v \in Units} : place' = [place EXCEPT ![u] = p]
  /\ mode' = [mode EXCEPT ![u] = "starting"]
  /\ UNCHANGED <<number, flash, planVars, step, portVars, backup, obeyed>>

Unplug(u) ==
  /\ place[u] # "none"
  /\ place' = [place EXCEPT ![u] = "none"] /\ number' = [number EXCEPT ![u] = 0]
  /\ fd' = IF fd = u THEN "gone" ELSE fd
  /\ UNCHANGED <<mode, flash, plugs, planVars, step, name, backup, obeyed>>

\* A unit that starts runs its firmware, or its boot loader if the player asks.
Started(u) ==
  /\ place[u] # "none" /\ mode[u] = "starting"
  /\ \E m \in {"running", "bootsel"} : mode' = [mode EXCEPT ![u] = m]
  /\ \E n \in Free : number' = [number EXCEPT ![u] = n]
  /\ UNCHANGED <<place, flash, plugs, planVars, step, portVars, backup, obeyed>>

Writes(u) ==
  /\ place[u] # "none" /\ mode[u] = "running" /\ flash[u] < MaxWrites
  /\ flash' = [flash EXCEPT ![u] = @ + 1]
  /\ UNCHANGED <<place, mode, number, plugs, planVars, step, portVars, backup, obeyed>>

\* A unit restarts, and comes back as m.
Restarts(u, m) ==
  /\ mode' = [mode EXCEPT ![u] = m]
  /\ \E n \in Names \ {number[v] : v \in Units \ {u}} :
        number' = [number EXCEPT ![u] = IF m = "starting" THEN 0 ELSE n]
  /\ UNCHANGED <<place, plugs>>
-----------------------------------------------------------------------------
(***************************************************************************)
(* The installer.                                                          *)
(***************************************************************************)
PortClosed == step' = "begin" /\ name' = 0 /\ fd' = "none"
Done == at' = at + 1 /\ PortClosed /\ UNCHANGED round

\* writes_started: from the load on.
Writing == round = "update" /\ at >= 5

\* An operation raises.  A failure of the remedy ends it.
Remedy ==
  IF round # "update" \/ at = 1 THEN "none" ELSE IF Writing THEN "restore" ELSE "resume"
Failed ==
  /\ PortClosed
  /\ IF Remedy = "none" THEN at' = Len(Rounds[round]) + 1 /\ UNCHANGED round
     ELSE round' = Remedy /\ at' = 1

OpFails ==
  /\ Op # "none"
  /\ Failed
  /\ UNCHANGED <<unitVars, backup, obeyed>>

Begin ==
  /\ step = "begin"
  /\ \/ Op \in Ports /\ step' = "find"
     \/ Op \in Tool \cup {"recover"} /\ step' = "look"
     \/ Op = "recover" /\ step' = "find"      \* nothing in BOOTSEL for 0.3 s
  /\ backup' = IF Op = "save" THEN <<>> ELSE backup
  /\ UNCHANGED <<unitVars, planVars, portVars, obeyed>>

(***************************************************************************)
(* The data port.                                                          *)
(***************************************************************************)
At(p, m) == {u \in Units : place[u] = p /\ mode[u] = m /\ number[u] # 0}

\* LinuxInstallIO._runtime_port: the port of what runs at the pinned place.
FindPort ==
  /\ step = "find"
  /\ At("P", "running") = {"mine"}
  /\ name' = number["mine"] /\ step' = "open"
  /\ UNCHANGED <<unitVars, planVars, fd, backup, obeyed>>

PortIsOthers ==
  /\ step = "find"
  /\ At("P", "running") = {"other"}
  /\ Failed
  /\ UNCHANGED <<unitVars, backup, obeyed>>

Owners == {u \in Units : number[u] = name /\ mode[u] = "running"}

\* _ProtocolClient: whoever has the name now is opened, and answers a PING.
OpenPort ==
  /\ step = "open"
  /\ \E u \in Owners : fd' = u
  /\ step' = "check"
  /\ UNCHANGED <<unitVars, planVars, name, backup, obeyed>>

\* The name is gone, or may not be opened yet: find it again.
OpenAgain ==
  /\ step \in {"open", "check"} /\ (step = "check" => Owners = {})
  /\ step' = "find" /\ name' = 0 /\ fd' = "none"
  /\ UNCHANGED <<unitVars, planVars, backup, obeyed>>

\* Mutant: the identity is not read again.
CheckNothing ==
  /\ step = "check" /\ Owners # {}
  /\ step' = "use"
  /\ UNCHANGED <<unitVars, planVars, portVars, backup, obeyed>>

\* The identity of what has that name is read again.
CheckPort ==
  /\ step = "check" /\ Owners # {}
  /\ IF \E u \in Owners : u = "mine" /\ place[u] = "P"
     THEN step' = "use" /\ UNCHANGED <<planVars, portVars>>
     ELSE Failed
  /\ UNCHANGED <<unitVars, backup, obeyed>>

ReadDone ==
  /\ step = "use" /\ Op = "read" /\ fd \in Units
  /\ Done
  /\ UNCHANGED <<unitVars, backup, obeyed>>

\* REBOOT to the boot loader; an answer that does not come is no failure.
EnterBootloader ==
  /\ step = "use" /\ Op \in {"enter", "recover"}
  /\ step' = "look" /\ name' = 0 /\ fd' = "none"
  /\ \/ /\ fd \in Units
        /\ obeyed' = obeyed \cup {fd} /\ Restarts(fd, "bootsel") /\ UNCHANGED flash
     \/ fd = "gone" /\ UNCHANGED <<obeyed, unitVars>>
  /\ UNCHANGED <<planVars, backup>>

(***************************************************************************)
(* BOOTSEL.                                                                *)
(***************************************************************************)
\* _boot_device: the address of what is in BOOTSEL at the pinned place.
Look ==
  /\ step = "look"
  /\ \E u \in At("P", "bootsel") : name' = number[u]
  /\ step' = "select"
  /\ UNCHANGED <<unitVars, planVars, fd, backup, obeyed>>

\* picotool acts on the unit with that address and with the pinned flash UID.
Selected == {u \in Units : u = "mine" /\ mode[u] = "bootsel" /\ number[u] = name}

\* picotool info confirms the unit, and _target_arguments the selection.
Confirm ==
  /\ step = "select" /\ Selected # {}
  /\ IF Op \in Tool THEN step' = "run" /\ UNCHANGED <<planVars, portVars>> ELSE Done
  /\ UNCHANGED <<unitVars, backup, obeyed>>

Reached(u) == obeyed' = obeyed \cup {u}

\* One range of the backup after the other, each with its own selection.
SaveRange ==
  /\ step = "run" /\ Op = "save"
  /\ \E u \in Selected : backup' = Append(backup, flash[u]) /\ Reached(u)
  /\ IF Len(backup') = Chunks THEN Done
     ELSE step' = "look" /\ name' = 0 /\ UNCHANGED <<planVars, fd>>
  /\ UNCHANGED <<unitVars>>

\* The whole image is compared with the flash.
Verify ==
  /\ step = "run" /\ Op = "verify"
  /\ \E u \in Selected :
        /\ Reached(u)
        /\ IF Writing THEN flash[u] = New ELSE \A i \in 1 .. Len(backup) : backup[i] = flash[u]
  /\ Done
  /\ UNCHANGED <<unitVars, backup>>

Load ==
  /\ step = "run" /\ Op = "load"
  /\ \E u \in Selected :
        /\ Reached(u)
        /\ flash' = [flash EXCEPT ![u] = IF round = "update" THEN New ELSE backup[1]]
  /\ Done
  /\ UNCHANGED <<place, mode, number, plugs, backup>>

Reboot ==
  /\ step = "run" /\ Op = "reboot"
  /\ \E u \in Selected : Reached(u) /\ Restarts(u, "starting")
  /\ Done
  /\ UNCHANGED <<flash, backup>>

AccessNext ==
  \/ Begin \/ OpFails \/ FindPort \/ PortIsOthers \/ OpenPort \/ OpenAgain \/ CheckPort
  \/ ReadDone \/ EnterBootloader \/ Look \/ Confirm \/ SaveRange \/ Verify \/ Load \/ Reboot
  \/ \E u \in Units : PlugIn(u) \/ Unplug(u) \/ Started(u) \/ Writes(u)

AccessSpec == AccessInit /\ [][AccessNext]_accessVars
-----------------------------------------------------------------------------
\* Whatever is plugged in where, no other unit carries out a command of the
\* installer, and nothing is loaded before every range of the backup is from
\* one state of the flash (firmware_install.py:433-477, 556-620, 622-704).
PinnedOnly ==
  /\ obeyed \subseteq {"mine"}
  /\ Op = "load" => Len(backup) = Chunks /\ \A i \in 1 .. Chunks : backup[i] = backup[1]
=============================================================================
