---------------------------- MODULE HdmiRecovery -----------------------------
(***************************************************************************)
(* The output service of the kiosk.  A panel may announce itself before it *)
(* can show a picture, and stays dark until its output is switched off and *)
(* on again.  The service does that after the start and after a hotplug,   *)
(* and stops kanshi meanwhile, which else owns the outputs.                *)
(*                                                                         *)
(* There is one panel.  Of time there is only whether a delay is over.     *)
(***************************************************************************)
EXTENDS Naturals

CONSTANTS MaxAttempts,   \* MAX_ATTEMPTS
          MaxPlugs,      \* bound on the changes of the panel
          MaxFaults      \* bound on commands that fail and processes that end

RecoveryAssumption ==
  MaxAttempts \in Nat \ {0} /\ {MaxPlugs, MaxFaults} \subseteq Nat

VARIABLES
  \* the panel, the compositor and the kernel
  panel,      \* the connector reports a panel
  shown,      \* Cage has published its output
  enabled,    \* that output is on
  lit,        \* it has been off and on since the panel came
  hotplug,    \* a notification waits in the monitor
  plugs, faults,
  \* the service
  pc,         \* where it is
  monitor,    \* it has the DRM monitor
  policy,     \* Policy.process: "none", "running" or "exited"
  connected,  \* RecoverySchedule.connected
  due,        \* RecoverySchedule.due: "none", "later" or "now"
  attempts    \* RecoverySchedule.attempts

panelVars    == <<panel, shown, lit>>
scheduleVars == <<connected, due, attempts>>
recoveryVars == <<panelVars, enabled, hotplug, plugs, faults, pc, monitor, policy, scheduleVars>>
-----------------------------------------------------------------------------
Rearming == {"query", "take", "off", "pause", "on"}

RecoveryTypeOK ==
  /\ {panel, shown, enabled, lit, hotplug, monitor, connected} \subseteq BOOLEAN
  /\ plugs \in 0 .. MaxPlugs /\ faults \in 0 .. MaxFaults
  /\ pc \in {"down", "watch", "succeeded", "failed"} \cup Rearming
  /\ policy \in {"none", "running", "exited"}
  /\ due \in {"none", "later", "now"} /\ attempts \in 0 .. MaxAttempts
  /\ due # "none" => connected /\ attempts < MaxAttempts

RecoveryInit ==
  /\ panel \in BOOLEAN /\ shown = FALSE /\ enabled = FALSE /\ lit = FALSE
  /\ hotplug = FALSE /\ plugs = 0 /\ faults = 0
  /\ pc = "down" /\ monitor = FALSE /\ policy = "none"
  /\ connected = FALSE /\ due = "none" /\ attempts = 0

Fault == faults < MaxFaults /\ faults' = faults + 1
-----------------------------------------------------------------------------
(***************************************************************************)
(* The panel comes or goes, or is off for too short a time for a check to  *)
(* see; each is notified.                                                  *)
(***************************************************************************)
Plug ==
  /\ plugs < MaxPlugs /\ plugs' = plugs + 1
  /\ panel' \in {~panel, TRUE} /\ shown' = (shown /\ panel /\ panel')
  /\ lit' = FALSE /\ hotplug' = TRUE
  /\ UNCHANGED <<enabled, faults, pc, monitor, policy, scheduleVars>>

Publish ==
  /\ panel /\ ~shown /\ shown' = TRUE
  /\ UNCHANGED <<panel, lit, enabled, hotplug, plugs, faults, pc, monitor, policy, scheduleVars>>

\* kanshi enables the output of a panel, and the virtual one without it.
PolicyApplies ==
  /\ policy = "running" /\ enabled # shown
  /\ enabled' = shown
  /\ UNCHANGED <<panelVars, hotplug, plugs, faults, pc, monitor, policy, scheduleVars>>

PolicyExits ==
  /\ policy = "running" /\ Fault
  /\ policy' = "exited"
  /\ UNCHANGED <<panelVars, enabled, hotplug, plugs, pc, monitor, scheduleVars>>
-----------------------------------------------------------------------------
(***************************************************************************)
(* The service.                                                            *)
(***************************************************************************)
\* systemd starts it, with or without a monitor; a new monitor is empty.
Start ==
  /\ pc = "down"
  /\ \/ policy' = "running" /\ pc' = "watch" /\ UNCHANGED faults
     \/ Fault /\ UNCHANGED <<policy, pc>>
  /\ monitor' \in BOOLEAN /\ hotplug' = FALSE
  /\ connected' = FALSE /\ due' = "none" /\ attempts' = 0
  /\ UNCHANGED <<panelVars, enabled, plugs>>

\* It leaves: kanshi is stopped with it.
Leave == pc' = "down" /\ policy' = "none" /\ UNCHANGED <<monitor, scheduleVars>>

\* drain_hotplug: what has been notified since the last pass.
Notified == monitor /\ hotplug

\* Mutant: what was notified during a recovery is taken for its own doing.
ObserveChange == panel # connected

\* RecoverySchedule.observe
Observe == panel # connected \/ Notified

\* One pass of the loop.
Watch ==
  /\ pc = "watch" /\ policy = "running"
  /\ hotplug' = (hotplug /\ ~monitor)
  /\ IF Observe
     THEN /\ connected' = panel /\ attempts' = 0
          /\ due' = IF panel THEN "later" ELSE "none"
          /\ UNCHANGED pc
     ELSE /\ pc' = IF due = "now" THEN "query" ELSE "watch"
          /\ UNCHANGED scheduleVars
  /\ UNCHANGED <<panelVars, enabled, plugs, faults, monitor, policy>>

Delay ==
  /\ due = "later" /\ due' = "now"
  /\ UNCHANGED <<panelVars, enabled, hotplug, plugs, faults, pc, monitor, policy, connected, attempts>>

\* kanshi has ended, or could not be started again.
WatchFails ==
  /\ pc = "watch" /\ policy # "running"
  /\ Leave
  /\ UNCHANGED <<panelVars, enabled, hotplug, plugs, faults>>

\* SIGTERM, or the monitor fails: the handlers give the outputs back to kanshi
\* and stop it.
Terminated ==
  /\ pc # "down" /\ Fault
  /\ Leave
  /\ UNCHANGED <<panelVars, enabled, hotplug, plugs>>

\* RecoverySchedule.complete
Completed(success) ==
  /\ pc' = "watch" /\ attempts' = attempts + 1
  /\ due' = IF ~success /\ attempts + 1 < MaxAttempts THEN "later" ELSE "none"
  /\ UNCHANGED connected

\* The outputs are listed, then the connectors are read.
Query ==
  /\ pc = "query"
  /\ \/ /\ panel /\ shown
        /\ pc' = "take" /\ UNCHANGED <<faults, scheduleVars>>
     \/ /\ ~(panel /\ shown)
        /\ Completed(~panel) /\ UNCHANGED faults
     \/ /\ Fault      \* wlr-randr fails, or there is no virtual output
        /\ Completed(FALSE)
  /\ UNCHANGED <<panelVars, enabled, hotplug, plugs, monitor, policy>>

\* Policy.stop; one that outlives SIGKILL for a second ends the attempt.
TakeOutputs ==
  /\ pc = "take"
  /\ \/ /\ policy' = "none" /\ pc' = "off" /\ UNCHANGED <<faults, scheduleVars>>
     \/ /\ policy' = "exited" /\ Fault /\ Completed(FALSE)
  /\ UNCHANGED <<panelVars, enabled, hotplug, plugs, monitor>>

\* A command that fails may have worked.
SwitchOff ==
  /\ pc = "off"
  /\ \/ enabled' = FALSE /\ pc' = "pause" /\ UNCHANGED faults
     \/ enabled' \in {enabled, FALSE} /\ pc' = "failed" /\ Fault
  /\ UNCHANGED <<panelVars, hotplug, plugs, monitor, policy, scheduleVars>>

Pause ==
  /\ pc = "pause"
  /\ pc' = IF panel THEN "on" ELSE "succeeded"
  /\ UNCHANGED <<panelVars, enabled, hotplug, plugs, faults, monitor, policy, scheduleVars>>

SwitchOn ==
  /\ pc = "on"
  /\ \/ enabled' = TRUE /\ lit' = panel /\ pc' = "succeeded" /\ UNCHANGED faults
     \/ enabled' \in {enabled, TRUE} /\ lit' = lit /\ pc' = "failed" /\ Fault
  /\ UNCHANGED <<panel, shown, hotplug, plugs, monitor, policy, scheduleVars>>

\* The finally of rearm_hdmi, which may fail to start kanshi.
GiveBack ==
  /\ pc \in {"succeeded", "failed"}
  /\ \/ policy' = "running" /\ Completed(pc = "succeeded") /\ UNCHANGED faults
     \/ policy' = "none" /\ Completed(FALSE) /\ Fault
  /\ UNCHANGED <<panelVars, enabled, hotplug, plugs, monitor>>

RecoveryStep ==
  \/ Start \/ Watch \/ WatchFails \/ Delay \/ Query \/ TakeOutputs \/ SwitchOff \/ Pause
  \/ SwitchOn \/ GiveBack

RecoveryNext ==
  \/ RecoveryStep \/ Plug \/ Publish \/ PolicyApplies \/ PolicyExits \/ Terminated

\* The service runs and is restarted (Restart=always); Cage and kanshi do
\* their part.
RecoveryFairness ==
  /\ WF_recoveryVars(RecoveryStep) /\ WF_recoveryVars(Delay)
  /\ WF_recoveryVars(Publish) /\ WF_recoveryVars(PolicyApplies)

RecoverySpec == RecoveryInit /\ [][RecoveryNext]_recoveryVars /\ RecoveryFairness
-----------------------------------------------------------------------------
\* Once panels stop coming and going, a panel that is there has its output on,
\* and has been switched off and on since it came, or MAX_ATTEMPTS attempts
\* after it came have failed; a hotplug in the middle of a recovery counts
\* (bosun-hdmi-recovery.py:31-51, 93-119).  Without the monitor a panel that is
\* off for less than a check is not noticed: then only the output is on again.
PanelSettled ==
  <>[](panel => enabled /\ (monitor => lit \/ attempts = MaxAttempts))
=============================================================================
