---------------------------- MODULE UpstreamLink ----------------------------
(***************************************************************************)
(* The link between the hub and the Captain: the thread that owns the      *)
(* serial port (or, against the emulator, a TCP connection), what callers  *)
(* in other threads do to it, and the port with the Captain behind it.     *)
(*                                                                         *)
(* A line is two fragments of bytes, the last of which ends it, so that    *)
(* lines can be cut anywhere.  A read returns all the bytes the driver has *)
(* at that moment.  Of time there is only whether a wait may be over.      *)
(***************************************************************************)
EXTENDS Naturals, Sequences, FiniteSetsExt

CONSTANTS
  MaxLines,        \* bound on the lines the hub sends
  Events,          \* the lines the Captain may send by itself, each once
  MaySend,         \* bound: those it may send through each port
  Ports,           \* the ports there are
  PortKind,        \* what is behind each
  Candidates,      \* the lists of candidates there may be, with a target and without
  NoPort,          \* no port
  Stale,           \* a line of an earlier session, left in the driver
  OutMax,          \* fragments the driver takes for the Captain
  InMax,           \* fragments the driver holds for the hub
  MaxOpens,        \* bound on the ports opened
  MaxFailing       \* bound on the ports that fail: the first ones opened

\* The protocol port, the console of the same device, and the emulator.
ASSUME PortsAssumption ==
  /\ PortKind \in [Ports -> {"data", "console", "tcp"}]
  /\ Candidates \in [{"none", "given"} -> SUBSET Seq(Ports)]
  /\ MaySend \in [Ports -> SUBSET Events]
  /\ NoPort \notin Ports
ASSUME SizesAssumption ==
  {OutMax, InMax} \subseteq Nat \ {0} /\ {MaxLines, MaxOpens, MaxFailing} \subseteq Nat

VARIABLES
  \* UpstreamLink and its thread
  pc,          \* where the thread is
  target,      \* whether a target is given
  candidates,  \* the candidates left to try in this round
  port,        \* the port opened last
  stop,        \* _stop
  activity,    \* _activity
  published,   \* _transport is that port
  connected,   \* _connected
  tx,          \* _tx
  pending,     \* what is left to write of the line begun
  rx,          \* _rx, or the buffer of the handshake
  \* its callers
  sender,      \* a caller of send: the step it has come to, and with which port
  stopper,     \* a caller of stop
  \* the port and the Captain
  opens,       \* ports opened so far
  open,        \* the port opened last is open still
  woken,       \* the byte of _ReadWakeup is there
  quiet,       \* nothing has come for STALL_S
  captain,     \* "alive", "dead", "wedged" or "gone", as the port shows it
  out,         \* fragments on the way to the Captain
  in,          \* fragments on the way from it
  partial,     \* the fragment of a line the Captain has got
  emit,        \* fragments the Captain has still to send
  events,      \* the lines it may still send by itself
  \* history of the session: the last are the lines handed on
  sent, accepted, got, heard

roundVars   == <<target, candidates, port, opens>>
sharedVars  == <<stop, activity, published, connected, tx>>
sessionVars == <<pending, rx, quiet>>
callerVars  == <<sender, stopper>>
captainVars == <<captain, partial, emit, events>>
portVars    == <<open, woken, captainVars, out, in>>
history     == <<sent, accepted, got, heard>>
vars == <<pc, roundVars, sharedVars, sessionVars, callerVars, portVars, history>>
-----------------------------------------------------------------------------
\* The lines of the hub are numbered as it sends them.
Lines == {<<"line", n>> : n \in 1 .. MaxLines}
Fragment(x, last) == [of |-> x, last |-> last]
Bytes(x) == <<Fragment(x, FALSE), Fragment(x, TRUE)>>
\* The hub's own pings: the sentinel of a handshake, and the keepalive.
Own == {<<"ping", n>> : n \in 0 .. MaxOpens}
Sentinel == <<"ping", opens>>
Keepalive == <<"ping", 0>>
Reply(x) == <<"reply", x>>
OwnReplies == {Reply(x) : x \in Own}

\* The lines that end in some bytes, whether such a line is all there, and what is left
\* after the last of them; mutant, it is forgotten.
Ends(b) == {i \in 1 .. Len(b) : b[i].last}
Whole(b, i) == i > 1 /\ b[i - 1] = Fragment(b[i].of, FALSE)
NoRest(b) == <<>>
Rest(b) == SubSeq(b, Max({0} \cup Ends(b)) + 1, Len(b))

\* "read" comes after a pass that wrote nothing, "read on" after one that wrote.
ThreadSteps == {"choose", "opened", "kept", "sync", "handshake", "top", "write", "read",
                "read on", "wait", "raised", "close", "backoff", "ended"}

Words == Lines \cup Own
Answers == Events \cup {Stale} \cup {Reply(x) : x \in Words}
\* What the Captain sends by itself, and what it has left, are no replies.
ASSUME KindsAssumption ==
  /\ Stale \notin Events
  /\ \A x \in Events \cup {Stale} : x \notin {"reply"} \X ({"line", "ping"} \X Nat)
Fragments(S) == [of : S, last : BOOLEAN]

TypeOK ==
  /\ pc \in ThreadSteps
  /\ target \in {"none", "given"}
  /\ candidates \in Seq(Ports) /\ port \in Ports \cup {NoPort}
  /\ {stop, activity, published, connected, open, woken, quiet} \subseteq BOOLEAN
  /\ tx \in Seq(Lines)
  /\ pending \in Seq(Fragments(Words)) /\ out \in Seq(Fragments(Words))
  /\ {rx, in, emit} \subseteq Seq(Fragments(Answers))
  /\ sender \in {"idle", "accepted", "set"} \X (0 .. MaxOpens)
  /\ stopper \in {"idle", "set", "closed"}
  /\ opens \in 0 .. MaxOpens
  /\ captain \in {"alive", "dead", "wedged", "gone"}
  /\ partial \in Seq(Fragments(Words))
  /\ events \subseteq Events /\ sent \in 0 .. MaxLines
  /\ accepted \in Seq(Lines) /\ got \in Seq(Lines)
  /\ heard \subseteq [of : Answers, whole : BOOLEAN, after : SUBSET Answers]
  /\ Len(out) <= OutMax /\ Len(in) <= InMax /\ Len(pending) <= 2

Init ==
  /\ pc = "backoff" /\ target \in {"none", "given"} /\ candidates = <<>> /\ port = NoPort
  /\ stop = FALSE /\ activity = FALSE /\ published = FALSE /\ connected = FALSE
  /\ tx = <<>> /\ pending = <<>> /\ rx = <<>>
  /\ sender = <<"idle", 0>> /\ stopper = "idle"
  /\ opens = 0 /\ open = FALSE /\ woken = FALSE /\ quiet = FALSE
  /\ captain = "alive" /\ out = <<>> /\ in = <<>> /\ partial = <<>> /\ emit = <<>>
  /\ events = Events
  /\ sent = 0 /\ accepted = <<>> /\ got = <<>> /\ heard = {}
-----------------------------------------------------------------------------
(* What the steps are built from.                                          *)

\* A closed port raises, and so does one whose device is gone; a wedged device
\* keeps the thread in the call until the port is closed.
CanIO == open /\ captain \in {"alive", "dead"}
IOFails == ~open \/ captain = "gone"

ClosePort ==
  /\ open' = FALSE /\ woken' = FALSE
  /\ out' = <<>> /\ in' = <<>> /\ partial' = <<>> /\ emit' = <<>>
  /\ captain' = "alive"
  /\ UNCHANGED events
PortStays == UNCHANGED portVars

\* All the driver has is read, half a line written or not (mutant: not then), and
\* each line completed by it is handed on, but for the replies to the hub's pings.
OnlyBetweenLines == IF pending = <<>> THEN in ELSE <<>>
Chunk == in
HandedOn(b) == {i \in Ends(b) : ~(Whole(b, i) /\ b[i].of \in OwnReplies)}
Handed(b, i) ==
  [of |-> b[i].of, whole |-> Whole(b, i),
   after |-> {l.of : l \in heard} \cup {b[j].of : j \in HandedOn(b) \cap 1 .. i - 1}]
Feed ==
  /\ heard' = heard \cup {Handed(rx \o Chunk, i) : i \in HandedOn(rx \o Chunk)}
  /\ rx' = Rest(rx \o Chunk)
  /\ in' = SubSeq(in, Len(Chunk) + 1, Len(in))
  /\ quiet' = (quiet /\ Chunk = <<>>)

\* A port takes what fits of a line; mutant, it is taken to be all.  A TCP connection
\* is written to until it has all of it, or for too long.
Tcp == PortKind[port] = "tcp"
Room == OutMax - Len(out)
AllFits(b) == Len(b)
Fits(b) == IF Len(b) <= Room THEN Len(b) ELSE Room
Wrote(b) ==
  /\ out' = out \o SubSeq(b, 1, Fits(b))
  /\ pending' = SubSeq(b, Fits(b) + 1, Len(b))

Goes(from, to) == pc = from /\ pc' = to
-----------------------------------------------------------------------------
(* The thread: a round over the candidates (_open_and_sync).               *)

OpenFails ==
  /\ Goes("choose", "choose")
  /\ ~stop /\ candidates # <<>>
  /\ candidates' = Tail(candidates)
  /\ PortStays
  /\ UNCHANGED <<target, port, opens, sharedVars, sessionVars, callerVars, history>>

\* What an earlier session has left in the driver may be the end of a line.
OpenPort ==
  /\ Goes("choose", "opened")
  /\ ~stop /\ candidates # <<>>
  /\ opens < MaxOpens
  /\ opens' = opens + 1
  /\ port' = Head(candidates) /\ candidates' = Tail(candidates)
  /\ open' = TRUE /\ woken' = FALSE /\ quiet' = FALSE
  /\ captain' = "alive"
  /\ in' \in {<<>>, <<Fragment(Stale, TRUE)>>}
  /\ UNCHANGED <<target, pending, rx, partial, emit, out, events, sharedVars,
                 callerVars, history>>

NoneAnswered ==
  /\ Goes("choose", "raised")
  /\ stop \/ candidates = <<>>
  /\ PortStays
  /\ UNCHANGED <<roundVars, sharedVars, sessionVars, callerVars, history>>

\* The stop that came while the port was opened has not seen it; nor has one that
\* comes before the port is published.
Abandon ==
  /\ Goes("opened", "raised")
  /\ stop
  /\ ClosePort
  /\ UNCHANGED <<roundVars, sharedVars, sessionVars, callerVars, history>>

KeepPort ==
  /\ Goes("opened", "kept")
  /\ ~stop
  /\ PortStays
  /\ UNCHANGED <<roundVars, sharedVars, sessionVars, callerVars, history>>

Publish ==
  /\ Goes("kept", "sync")
  /\ published' = TRUE
  /\ pending' = Bytes(Sentinel)
  /\ PortStays
  /\ UNCHANGED <<stop, activity, connected, tx, rx, quiet, roundVars, callerVars,
                 history>>

\* The loop of the handshake looks at _stop and at the deadline; mutant, at the
\* deadline only.
NoStopCheck == Goes("sync", "handshake")
GoOn == Goes("sync", "handshake") /\ ~stop
SyncGoesOn ==
  /\ GoOn
  /\ PortStays
  /\ UNCHANGED <<roundVars, sharedVars, sessionVars, callerVars, history>>

\* It writes what fits and reads what there is, and ends with the ACK that bears the
\* sentinel's id, once the sentinel is out; what was read with it is dropped.
Acked(left) ==
  /\ left = <<>>
  /\ \E i \in Ends(rx \o in) : Whole(rx \o in, i) /\ (rx \o in)[i].of = Reply(Sentinel)
Handshake ==
  /\ pc = "handshake" /\ CanIO
  /\ Wrote(pending)
  /\ in' = <<>>
  /\ \/ /\ Acked(pending')
        /\ pc' = "top" /\ rx' = <<>>
        /\ connected' = TRUE
     \/ /\ ~Acked(pending')
        /\ pc' = "sync" /\ rx' = Rest(rx \o in)
        /\ UNCHANGED connected
  /\ woken' = FALSE
  /\ UNCHANGED <<stop, activity, published, tx, open, quiet, roundVars, callerVars,
                 captainVars, history>>

\* Stopped, too late, or the port fails: the next candidate.
SyncFails ==
  /\ \/ Goes("sync", "choose")
     \/ Goes("handshake", "choose") /\ IOFails
  /\ ClosePort
  /\ published' = FALSE
  /\ pending' = <<>> /\ rx' = <<>>
  /\ UNCHANGED <<stop, activity, connected, tx, quiet, roundVars, callerVars, history>>

-----------------------------------------------------------------------------
(* The thread: a session (_pump).                                          *)

\* Notifications are taken back before tx is looked at; mutant, after.
AfterLooking == "read"
TakenBackAt == "top"
Notified == activity /\ pc # TakenBackAt

\* A pass begins: what the driver has is read, without a wait.
NextPass ==
  /\ Goes("top", "write")
  /\ ~stop /\ CanIO
  /\ activity' = Notified
  /\ Feed
  /\ UNCHANGED <<stop, published, connected, tx, pending, open, woken, got, out, sent,
                 accepted, roundVars, callerVars, captainVars>>

WritePass(b) ==
  /\ pc = "write" /\ CanIO
  /\ Wrote(b)
  /\ pc' = IF Tcp /\ pending' # <<>> THEN "write"
           ELSE IF b # <<>> /\ Fits(b) > 0 THEN "read on" ELSE "read"
  /\ UNCHANGED <<stop, activity, published, connected, rx, open, woken, quiet, in, roundVars,
                 callerVars, captainVars, history>>

Resume == pending # <<>> /\ WritePass(pending) /\ UNCHANGED tx
WriteNext ==
  /\ pending = <<>> /\ tx # <<>>
  /\ WritePass(Bytes(Head(tx)))
  /\ tx' = Tail(tx)
\* After KEEPALIVE_S without traffic: a Captain that is alive has done all it had to.
Idle == captain = "alive" => out = <<>> /\ emit = <<>> /\ in = <<>>
KeepAlive == pending = <<>> /\ tx = <<>> /\ Idle /\ WritePass(Bytes(Keepalive)) /\ UNCHANGED tx
WriteNothing == pending = <<>> /\ tx = <<>> /\ WritePass(<<>>) /\ UNCHANGED tx
Write == Resume \/ WriteNext \/ KeepAlive \/ WriteNothing

\* A wait for bytes takes back the byte that ends it; a serial port with something to
\* read does not wait.
WokenAfterRead == woken /\ in # <<>> /\ ~Tcp
Read ==
  /\ pc \in {"read", "read on"} /\ CanIO
  /\ Feed
  /\ woken' = WokenAfterRead
  /\ activity' = Notified
  /\ \/ Chunk # <<>> /\ pc' = "top"
     \/ Chunk = <<>> /\ ~quiet /\ pc' = IF pc = "read" THEN "wait" ELSE "top"
     \/ Chunk = <<>> /\ quiet /\ pc' = "raised"
  /\ UNCHANGED <<stop, published, connected, tx, pending, open, got, out, sent, accepted, roundVars,
                 callerVars, captainVars>>

Wait ==
  /\ Goes("wait", "top")
  /\ PortStays
  /\ UNCHANGED <<roundVars, sharedVars, sessionVars, callerVars, history>>

\* Stopped, or the port fails, or a TCP connection does not take a line in time.
Raise ==
  /\ \/ pc \in {"top", "write", "read", "read on"} /\ IOFails
     \/ pc = "top" /\ stop
     \/ pc = "write" /\ Tcp /\ pending # <<>>
  /\ pc' = "raised"
  /\ PortStays
  /\ UNCHANGED <<roundVars, sharedVars, sessionVars, callerVars, history>>

\* Down, and what was not written is dropped, at once for the callers.  Mutant: it
\* is kept.
KeepQueue == connected' = FALSE /\ UNCHANGED tx
Discard == connected' = FALSE /\ tx' = <<>>
Down ==
  /\ Goes("raised", "close")
  /\ Discard
  /\ pending' = <<>>
  /\ PortStays
  /\ UNCHANGED <<stop, activity, published, rx, quiet, roundVars, callerVars, history>>

Close ==
  /\ pc = "close"
  /\ ClosePort
  /\ published' = FALSE /\ rx' = <<>> /\ quiet' = FALSE
  /\ pc' = IF stop THEN "ended" ELSE "backoff"
  /\ accepted' = <<>> /\ got' = <<>> /\ heard' = {}
  /\ UNCHANGED <<stop, activity, connected, tx, pending, sent, roundVars, callerVars>>

Discovered == Candidates[target]
Backoff ==
  /\ pc = "backoff"
  /\ \/ stop /\ pc' = "ended" /\ UNCHANGED candidates
     \/ ~stop /\ pc' = "choose" /\ candidates' \in Discovered
  /\ PortStays
  /\ UNCHANGED <<target, port, opens, sharedVars, sessionVars, callerVars, history>>
-----------------------------------------------------------------------------
(* The callers.                                                            *)

\* A full queue or a link that is down refuses the line and changes nothing.
Send ==
  /\ sender[1] = "idle"
  /\ connected
  /\ sent < MaxLines
  /\ sent' = sent + 1
  /\ tx' = Append(tx, <<"line", sent'>>)
  /\ accepted' = Append(accepted, <<"line", sent'>>)
  /\ sender' = <<"accepted", opens>>
  /\ PortStays
  /\ UNCHANGED <<pc, stop, activity, published, connected, stopper, got, heard,
                 roundVars, sessionVars>>

SetActivity ==
  /\ sender[1] = "accepted"
  /\ sender' = <<"set", sender[2]>>
  /\ activity' = TRUE
  /\ PortStays
  /\ UNCHANGED <<pc, stop, published, connected, tx, stopper, roundVars, sessionVars,
                 history>>

\* Only the port of the session the line was accepted in.
WakeRead ==
  /\ sender[1] = "set"
  /\ sender' = <<"idle", 0>>
  /\ woken' = (woken \/ (open /\ sender[2] = opens))
  /\ UNCHANGED <<pc, stopper, open, out, in, roundVars, sharedVars, sessionVars,
                 captainVars, history>>

StopSets ==
  /\ stopper = "idle"
  /\ stopper' = "set"
  /\ stop' = TRUE /\ activity' = TRUE
  /\ PortStays
  /\ UNCHANGED <<pc, published, connected, tx, sender, roundVars, sessionVars, history>>

StopCloses ==
  /\ stopper = "set"
  /\ stopper' = "closed"
  /\ IF published THEN ClosePort ELSE PortStays
  /\ UNCHANGED <<pc, sender, roundVars, sharedVars, sessionVars, history>>

-----------------------------------------------------------------------------
(* The port and the Captain.                                               *)

Serves == open /\ captain = "alive"

\* The Captain takes its input while it has nothing to send, and answers each line,
\* except on the console.  It got a line if both fragments came, one after the other.
Take ==
  /\ Serves /\ emit = <<>> /\ out # <<>>
  /\ out' = Tail(out)
  /\ LET f == Head(out)
     IN /\ partial' = IF f.last THEN <<>> ELSE <<f>>
        /\ got' = IF f.last /\ f.of \in Lines /\ partial = <<Fragment(f.of, FALSE)>>
                  THEN Append(got, f.of) ELSE got
        /\ emit' = IF f.last /\ PortKind[port] # "console" THEN Bytes(Reply(f.of)) ELSE emit
  /\ UNCHANGED <<pc, open, woken, captain, events, in, sent, accepted, heard, roundVars,
                 sharedVars, sessionVars, callerVars>>

Emit ==
  /\ Serves /\ emit # <<>> /\ Len(in) < InMax
  /\ in' = Append(in, Head(emit))
  /\ emit' = Tail(emit)
  /\ UNCHANGED <<pc, open, woken, captain, partial, events, out, roundVars, sharedVars,
                 sessionVars, callerVars, history>>

Event(e) ==
  /\ Serves /\ emit = <<>> /\ e \in events \cap MaySend[port]
  /\ emit' = Bytes(e) /\ events' = events \ {e}
  /\ UNCHANGED <<pc, open, woken, captain, partial, out, in, roundVars, sharedVars,
                 sessionVars, callerVars, history>>

\* It hangs, its driver hangs, or it is unplugged.
Fails ==
  /\ Serves /\ opens <= MaxFailing
  /\ captain' \in {"dead", "wedged", "gone"}
  /\ UNCHANGED <<pc, open, woken, partial, emit, events, out, in, roundVars, sharedVars,
                 sessionVars, callerVars, history>>

\* STALL_S without a byte, of a Captain that does not answer the keepalives.
TimePasses ==
  /\ open /\ captain = "dead" /\ in = <<>> /\ connected
  /\ ~quiet /\ quiet' = TRUE
  /\ PortStays
  /\ UNCHANGED <<pc, pending, rx, roundVars, sharedVars, callerVars, history>>
-----------------------------------------------------------------------------
Thread ==
  \/ OpenFails \/ OpenPort \/ NoneAnswered \/ Abandon \/ KeepPort \/ Publish
  \/ SyncGoesOn \/ Handshake \/ SyncFails
  \/ NextPass \/ Write \/ Read \/ Wait \/ Raise
  \/ Down \/ Close \/ Backoff
Captain == Take \/ Emit

Next ==
  \/ Thread
  \/ Send \/ SetActivity \/ WakeRead
  \/ StopSets \/ StopCloses
  \/ Captain \/ Fails \/ TimePasses
  \/ \E e \in Events : Event(e)

Spec == Init /\ [][Next]_vars

\* Every wait of the thread has a timeout, a caller of stop goes on, a Captain that
\* is alive takes and sends what it can, and time passes.
Fairness ==
  /\ WF_vars(Thread)
  /\ WF_vars(StopCloses)
  /\ WF_vars(Captain)
  /\ WF_vars(TimePasses)

FairSpec == Spec /\ Fairness
-----------------------------------------------------------------------------
(* What makes it correct.                                                  *)

\* The thread is never put to sleep with a line to write and nothing to wake it,
\* wherever a caller interrupts a pass (link.py:497-508, 652-655).
NoLostWakeup ==
  /\ tx # <<>> /\ pending = <<>> /\ sender[1] = "idle" /\ open
  => /\ pc = "read" => woken
     /\ pc = "wait" => activity

\* What is handed on, here each line with those before it, is what the Captain has
\* sent after the handshake, in order and without the hub's own replies, and is whole
\* but for the first line, which the end of the handshake may have cut.
OnlyFirstCut ==
  \A l \in heard :
    /\ l.after # {} => l.whole
    /\ l.of # Stale
    /\ l.of \in OwnReplies => ~l.whole
    /\ l.of \notin l.after
    /\ \A m, n \in DOMAIN accepted :
         m < n /\ l.of = Reply(accepted[m]) => Reply(accepted[n]) \notin l.after

\* "reads bytes, splits on newlines, hands each complete line to on_line": what it
\* hands on are lines of the Captain (link.py:28-29).
EveryLineWhole == \A l \in heard : l.whole

\* A link that is told to stop ends its thread, with no port left open, wherever the
\* thread is and whatever the port does.
StopEnds == stop ~> pc = "ended" /\ ~open

\* An accepted line is written, or the session is over, unless the driver itself
\* hangs: neither a full queue in both directions nor a silent Captain holds it up.
Owing == Len(got) < Len(accepted)
AcceptedSettled == Owing ~> (~Owing \/ captain = "wedged")

\* Partial writes, retries, lost sessions and reconnections are invisible to those who
\* send lines.
Session == INSTANCE SessionLines WITH up <- connected
LinesInSession == Session!Spec
=============================================================================
