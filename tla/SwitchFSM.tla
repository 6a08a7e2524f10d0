----------------------------- MODULE SwitchFSM -----------------------------
(***************************************************************************)
(* One foot switch of the Captain: its contact is polled, bounces are left *)
(* out, and presses, holds and double taps become triggers, by the mode of *)
(* its binding.  Requests tap it too, patches and profiles come and go     *)
(* while it is held, and the Kemper tells the state of its effect.         *)
(*                                                                         *)
(* The code compares times of a clock that wraps.  Only differences from   *)
(* now matter, and they are what is kept here: modulo Span where a time    *)
(* may be long ago or still to come, and no further than Long where it is  *)
(* compared with limits (nothing is held or bounces for 2^32 ms).          *)
(***************************************************************************)
EXTENDS Integers, Sequences

CONSTANTS
  Span,        \* 2^32
  Debounce,    \* 5
  Window,      \* double_tap_window_ms
  LongPress,   \* long_press_ms
  HoldTime,    \* auto_momentary_ms
  MaxLate      \* bound on the time between two polls

ASSUME SwitchAssumption ==
  /\ {Span, Debounce, Window, LongPress, HoldTime, MaxLate} \subseteq Nat \ {0}
  /\ 2 * (Window + MaxLate) < Span

\* "hold" is a latched binding with auto_momentary_on_hold.
Modes == {"tap", "latched", "hold", "momentary", "long_press_alt", "double_tap"}
Latching == {"latched", "hold"}
Triggers == {"press", "release", "on", "off", "long", "double"}

Long == IF LongPress > HoldTime THEN LongPress ELSE HoldTime
Older(age, t, limit) == IF age + t < limit THEN age + t ELSE limit

VARIABLES
  mode,      \* the mode of the binding
  switch,    \* the state of the switch
  \* history
  gesture,   \* the last press: its mode, the triggers until its release, how long it
             \* lasts, and whether it passed LongPress only with the last poll
  taps       \* taps for which a trigger is still to come, the time since the last, whether
             \* the binding was edited meanwhile, and whether a press has just taken the
             \* place of one

switchVars == <<mode, switch, gesture, taps>>

SwitchTypeOK ==
  /\ mode \in Modes
  /\ switch \in [high : BOOLEAN, stable : BOOLEAN, fired : BOOLEAN, latched : BOOLEAN,
                 before : BOOLEAN, pending : BOOLEAN, still : 0..Debounce, held : 0..Long,
                 past : 0..(Span - 1), out : SUBSET Triggers]
  /\ gesture \in [mode : Modes \cup {"reset", "none"}, out : Seq(SUBSET Triggers),
                  time : 0..Long, late : BOOLEAN]
  /\ taps \in [due : Nat, age : 0..(Window + 1), edited : BOOLEAN, lost : BOOLEAN]

\* The last press is answered, or was disturbed; or every switch was reset since.
Over == [mode |-> "none", out |-> <<>>, time |-> Long, late |-> FALSE]
ResetHeld == [Over EXCEPT !.mode = "reset"]

\* high and stable: the contact is up, as last read and as debounced.  still, held
\* and past: time since last_raw_change_ms, press_start_ms and tap_pending_until_ms; past
\* is read only while a tap is pending, and 0 otherwise.
SwitchInit ==
  /\ mode \in Modes
  /\ switch = [high |-> TRUE, stable |-> TRUE, fired |-> FALSE, latched |-> FALSE,
               before |-> FALSE, pending |-> FALSE, still |-> Debounce, held |-> Long, past |-> 0, out |-> {}]
  /\ gesture = Over
  /\ taps = [due |-> 0, age |-> Window + 1, edited |-> FALSE, lost |-> FALSE]

(***************************************************************************)
(* The switch.                                                             *)
(***************************************************************************)
Signed(age) == IF 2 * age < Span THEN age ELSE age - Span

Fire(s, trigger) == [s EXCEPT !.out = @ \cup {trigger}]
Latch(s, on) == Fire([s EXCEPT !.latched = on], IF on THEN "on" ELSE "off")

InWindow(s) == s.pending /\ Signed(s.past) <= 0

Press(s, m) ==
  CASE m \in {"tap", "momentary"} -> Fire(s, "press")
    [] m \in Latching -> Latch([s EXCEPT !.before = s.latched, !.held = 0], ~s.latched)
    [] m = "long_press_alt" -> [s EXCEPT !.held = 0, !.fired = FALSE]
    [] m = "double_tap" /\ InWindow(s) -> Fire([s EXCEPT !.pending = FALSE], "double")
    [] OTHER -> [s EXCEPT !.pending = TRUE, !.past = Span - Window]

Release(s, m) ==
  CASE m = "momentary" -> Fire(s, "release")
    [] m = "long_press_alt" /\ ~s.fired /\ s.held < LongPress -> Fire(s, "press")
    [] m = "hold" /\ s.held >= HoldTime /\ s.latched # s.before -> Latch(s, s.before)
    [] OTHER -> s

Later(s, t) == [s EXCEPT !.still = Older(@, t, Debounce), !.held = Older(@, t, Long),
                         !.past = IF s.pending THEN (@ + t) % Span ELSE 0, !.out = {}]

Edge(s, m, high) ==
  LET read == IF high = s.high THEN s ELSE [s EXCEPT !.high = high, !.still = 0]
      seen == [read EXCEPT !.stable = high]
  IN  IF high = s.stable \/ read.still < Debounce THEN read
      ELSE IF high THEN Release(seen, m) ELSE Press(seen, m)

LongHeld(s, m) ==
  IF m = "long_press_alt" /\ ~s.stable /\ ~s.fired /\ s.held >= LongPress
  THEN Fire([s EXCEPT !.fired = TRUE], "long") ELSE s

TapAlone(s, m) ==
  IF m = "double_tap" /\ s.pending /\ Signed(s.past) > 0
  THEN Fire([s EXCEPT !.pending = FALSE], "press") ELSE s

Polled(s, m, high) == TapAlone(LongHeld(Edge(s, m, high), m), m)

\* A tap that is not of the foot: what is due first, then a press and a release.
Tapped(s, m) == Release(Press(Polled(s, m, TRUE), m), m)

\* Mutant: a switch that is held may fire its long press again.
ForgetHeld(s) ==
  [s EXCEPT !.held = Long, !.past = 0, !.fired = FALSE, !.latched = FALSE,
            !.before = FALSE, !.pending = FALSE, !.out = {}]

Forget(s) ==
  [s EXCEPT !.held = Long, !.past = 0, !.fired = ~s.stable, !.latched = FALSE,
            !.before = FALSE, !.pending = FALSE, !.out = {}]

(***************************************************************************)
(* What happens to it.                                                     *)
(***************************************************************************)
Outs(s) == IF s.out = {} THEN <<>> ELSE <<s.out>>

\* The taps due before a press count with it: "double" is for two, "press" for one.  A tap
\* that is lost is written off.
Counted(s, pressed, lost, t) ==
  LET answered == IF "double" \in s.out THEN 2 ELSE IF "press" \in s.out THEN 1 ELSE 0
      aged == [taps EXCEPT !.age = Older(@, t, Window + 1), !.edited = @ /\ switch.pending,
                           !.lost = lost]
      due == IF lost THEN 0 ELSE taps.due
  IN  IF mode # "double_tap" THEN aged
      ELSE [aged EXCEPT !.due = due + (IF pressed THEN 1 ELSE 0) - answered,
                        !.age = IF pressed /\ s.pending THEN 0 ELSE @]

Poll(high, t) ==
  LET new == Polled(Later(switch, t), mode, high)
      pressed == switch.stable /\ ~new.stable
      lasted == Older(gesture.time, t, Long)
      \* The press takes the place of a tap whose window has ended since the last poll.
      lost == /\ mode = "double_tap" /\ taps.due > 0
              /\ pressed /\ new.out = {} /\ Older(taps.age, t, Window + 1) > Window
  IN  /\ switch' = new
      /\ gesture' =
           IF pressed THEN [mode |-> mode, out |-> Outs(new), time |-> 0, late |-> FALSE]
           ELSE IF switch.stable \/ gesture.mode = "none" THEN Over
           ELSE [gesture EXCEPT !.out = @ \o Outs(new), !.time = lasted,
                                !.late = gesture.time < LongPress /\ lasted >= LongPress]
      /\ taps' = Counted(new, pressed, lost, t)
      /\ UNCHANGED mode

\* The foot is off the switch, and nothing waits to be sent.
RemoteTap(t) ==
  /\ switch.stable /\ switch.high
  /\ switch' = Tapped(Later(switch, t), mode)
  /\ taps' = Counted(switch', TRUE, FALSE, t)
  /\ UNCHANGED <<mode, gesture>>

\* The binding is edited: nothing is reset.
Edit(m) ==
  /\ m # mode
  /\ mode' = m
  /\ switch' = [switch EXCEPT !.out = {}]
  /\ gesture' = IF switch.stable THEN gesture ELSE Over
  /\ taps' = [taps EXCEPT !.edited = switch.pending, !.lost = FALSE]

\* Another patch, or another profile: every switch is reset, and one that follows an
\* effect may be set again at once.
SwitchPatch(m, on) ==
  /\ on => m \in Latching
  /\ mode' = m
  /\ switch' = [Forget(switch) EXCEPT !.latched = on]
  /\ gesture' = IF switch.stable THEN gesture
                ELSE IF on THEN Over ELSE ResetHeld
  /\ taps' = [due |-> 0, age |-> Window + 1, edited |-> FALSE, lost |-> FALSE]

\* The Kemper reports the effect that the switch follows.
MirrorEffect(on) ==
  /\ mode \in Latching /\ switch.latched # on
  /\ switch' = [switch EXCEPT !.latched = on, !.out = {}]
  /\ gesture' = IF switch.stable THEN gesture ELSE Over
  /\ UNCHANGED <<mode, taps>>

SwitchNext ==
  \/ \E t \in 0..MaxLate, high \in BOOLEAN : Poll(high, t)
  \/ \E t \in 0..MaxLate : RemoteTap(t)
  \/ \E m \in Modes : Edit(m) \/ \E on \in BOOLEAN : SwitchPatch(m, on)
  \/ \E on \in BOOLEAN : MirrorEffect(on)

SwitchSpec == SwitchInit /\ [][SwitchNext]_switchVars
-----------------------------------------------------------------------------
(***************************************************************************)
(* Properties.                                                             *)
(***************************************************************************)
One(trigger) == <<{trigger}>>
Toggles == {One("on"), One("off")}
BackAndForth == {One("on") \o One("off"), One("off") \o One("on")}

\* What a press and its release ask for: "a short press fires press; holding past the
\* threshold fires long_press instead" (editor/src/lib/help-text.ts:11-12).
Answers(g) ==
  CASE g.mode = "reset" -> {<<>>, One("release")}
    [] g.mode = "tap" -> {One("press")}
    [] g.mode = "momentary" -> {One("press") \o One("release")}
    [] g.mode = "latched" -> Toggles
    [] g.mode = "hold" -> IF g.time < HoldTime THEN Toggles ELSE BackAndForth
    [] g.mode = "long_press_alt" -> {One(IF g.time < LongPress THEN "press" ELSE "long")}
    [] OTHER -> {g.out}

\* A hold that passed the limit only with the poll that sees its release.
ReleasedLate(g) == g.mode = "long_press_alt" /\ g.late

\* A gesture fires the triggers it asks for, each once, by its true length, or none if it is
\* a long press released since the last poll; a switch that was held when the patch changed
\* fires nothing of the new one but its release.  An edit of the binding in the middle, and
\* a report of the Kemper that changes what is held, are left out (switch_fsm.c:24-86).
GestureFits ==
  switch.stable => \/ gesture.out \in Answers(gesture)
                   \/ ReleasedLate(gesture) /\ gesture.out = <<>>

\* The triggers of the taps: every tap waits for its trigger or had it, as half a double
\* only within the window and as a press only after it, whatever the time on the clock; or
\* it was lost to the press that came after its window (switch_fsm.c:41-48, 80-84).
TapsFit ==
  /\ taps.due = IF switch.pending THEN 1 ELSE 0
  /\ ~taps.edited => /\ "double" \in switch.out => taps.age <= Window
                     /\ mode = "double_tap" /\ switch.out = {"press"} /\ ~switch.pending =>
                          taps.age > Window

\* The switch has its types, and fires no trigger twice, for the wrong gesture or after a
\* reset.  That a gesture may be left without its trigger, in the two ways GestureFits and
\* TapsFit name, is what GesturesAnswered speaks of.
TriggersFit == SwitchTypeOK /\ GestureFits /\ TapsFit

\* No gesture is left without its trigger: a hold fires "press" or "long", and "a single press
\* still fires press" (editor/src/lib/help-text.ts:11-14) when another comes after its window.
GesturesAnswered ==
  /\ switch.stable => gesture.out \in Answers(gesture)
  /\ ~taps.edited => ~taps.lost
=============================================================================
