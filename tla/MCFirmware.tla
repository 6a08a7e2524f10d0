----------------------------- MODULE MCFirmware -----------------------------
(***************************************************************************)
(* Four parts of the firmware for TLC: the patches it keeps, a foot        *)
(* switch, the sessions on its USB data connection, and the events it      *)
(* sends there.  What one does to another (a patch is played, the flash is *)
(* written, a session begins, a draft is saved) each has as a step of its  *)
(* own.  A behaviour is one of one of them, the subject, and the others    *)
(* stand still.                                                            *)
(***************************************************************************)
EXTENDS ConfigStore, SwitchFSM, CdcSession, UiEvents, TLC

CONSTANTS p, q, one, two, three

VARIABLE subject

MCProfiles == {p, q}
MCPatches == {one, two, three}
MCLocations == {11, 12}

\* No profile is special, and no patch but the first.
Alike == {f @@ g : f \in Permutations({p, q}), g \in Permutations({two, three})}

FirmwareInit ==
  /\ subject \in {"patches", "switch", "session", "events"}
  /\ Init
  /\ SwitchInit /\ (subject # "switch" => mode = "tap")
  /\ CdcInit
  /\ UiInit /\ (subject # "events" => conf = NotLoaded)

FirmwareNext ==
  /\ UNCHANGED subject
  /\ \/ subject = "patches" /\ Next /\ UNCHANGED <<switchVars, cdcVars, uiVars>>
     \/ subject = "switch" /\ SwitchNext /\ UNCHANGED <<vars, cdcVars, uiVars>>
     \/ subject = "session" /\ CdcNext /\ UNCHANGED <<vars, switchVars, uiVars>>
     \/ subject = "events" /\ UiNext /\ UNCHANGED <<vars, switchVars, cdcVars>>

FirmwareSpec == FirmwareInit /\ [][FirmwareNext]_<<subject, vars, switchVars, cdcVars, uiVars>>
=============================================================================
