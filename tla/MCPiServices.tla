----------------------------- MODULE MCPiServices -----------------------------
(***************************************************************************)
(* The programs of the Raspberry Pi around the core of the hub, and the    *)
(* way its installer reaches the Captain, for TLC.  They share no state:   *)
(* a behaviour is one of one of them, the subject, and the rest stand      *)
(* still in an initial state.                                              *)
(***************************************************************************)
EXTENDS InstallIO, HubSessions, DeviceSnapshot, TLC

CONSTANTS MaxAttempts, MaxPanels, MaxFaults,
          Others, MaxReplugs, MaxCut

VARIABLES
  subject,
  \* HdmiRecovery
  panel, shown, enabled, lit, hotplug, panelPlugs, faults, pc, monitor, policy, connected,
  due, attempts,
  \* MidiConnect
  client, ported, wires, wiring, found, replugs, cuts

\* A Stage client or a raw client from the start on, or both of them late.
MCVisits == {"ws" :> 0, "tcp" :> 0, "ws" :> MaxLines @@ "tcp" :> MaxLines}

MCFirst == <<1, 2>>
MCCatalogs == {<<>>, <<1, 2>>, <<2, 3>>, <<1, 2, 3>>}

Recovery == INSTANCE HdmiRecovery WITH MaxPlugs <- MaxPanels, plugs <- panelPlugs
Wiring   == INSTANCE MidiConnect WITH number <- client

ASSUME ServicesAssumption ==
  Recovery!RecoveryAssumption /\ Wiring!WiringAssumption

kioskVars == <<panel, shown, enabled, lit, hotplug, panelPlugs, faults, pc, monitor, policy, connected,
       due, attempts>>
midiVars == <<client, ported, wires, wiring, found, replugs, cuts>>
vars == <<subject, sessionVars, kioskVars, midiVars, accessVars, snapshotVars>>

Init ==
  /\ subject \in {"sessions", "recovery", "wiring", "access", "snapshot"}
  /\ SessionsInit /\ (subject # "sessions" => knows = {} /\ handler["tcp"] = "gone")
  /\ Recovery!RecoveryInit /\ (subject # "recovery" => ~panel)
  /\ Wiring!WiringInit /\ AccessInit
  /\ SnapshotInit /\ (subject # "snapshot" => paged)

Next ==
  /\ UNCHANGED subject
  /\ \/ /\ subject = "sessions" /\ SessionsNext
        /\ UNCHANGED <<kioskVars, midiVars, accessVars, snapshotVars>>
     \/ /\ subject = "recovery" /\ Recovery!RecoveryNext
        /\ UNCHANGED <<sessionVars, midiVars, accessVars, snapshotVars>>
     \/ /\ subject = "wiring" /\ Wiring!WiringNext
        /\ UNCHANGED <<sessionVars, kioskVars, accessVars, snapshotVars>>
     \/ /\ subject = "access" /\ AccessNext
        /\ UNCHANGED <<sessionVars, kioskVars, midiVars, snapshotVars>>
     \/ /\ subject = "snapshot" /\ SnapshotNext
        /\ UNCHANGED <<sessionVars, kioskVars, midiVars, accessVars>>

\* The fairness of each module, for the subject.
SessionsFair ==
  /\ WF_sessionVars(subject = "sessions" /\ SessionsLoop)
  /\ WF_sessionVars(subject = "sessions" /\ working /\ UpdateMoves)
  /\ WF_sessionVars(subject = "sessions" /\ \E c \in Clients : ClientTakes(c))

RecoveryFair ==
  /\ WF_kioskVars(subject = "recovery" /\ Recovery!RecoveryStep)
  /\ WF_kioskVars(subject = "recovery" /\ Recovery!Delay)
  /\ WF_kioskVars(subject = "recovery" /\ Recovery!Publish)
  /\ WF_kioskVars(subject = "recovery" /\ Recovery!PolicyApplies)

WiringFair ==
  /\ WF_midiVars(subject = "wiring" /\ Wiring!WiringStep)
  /\ WF_midiVars(subject = "wiring" /\ \E o \in Others \cup {"captain", "kemper"} : Wiring!PortsCome(o))

FairSpec == Init /\ [][Next]_vars /\ SessionsFair /\ RecoveryFair /\ WiringFair
-----------------------------------------------------------------------------
TypeOK ==
  /\ SessionsTypeOK /\ Recovery!RecoveryTypeOK /\ Wiring!WiringTypeOK
  /\ AccessTypeOK /\ SnapshotTypeOK

\* HdmiRecovery: a panel that stays has its output on, and has been switched off
\* and on, or the attempts are used up (bosun-hdmi-recovery.py:31-51, 93-119).
PanelSettled == Recovery!PanelSettled

\* MidiConnect: a Captain and a Kemper that stay are connected both ways
\* (midi_connect.py:96-110).
MidiWired == Wiring!MidiWired
=============================================================================
