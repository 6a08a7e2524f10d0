----------------------------- MODULE CdcSession -----------------------------
(***************************************************************************)
(* The Captain's end of the USB data connection, on the RP2040.  The USB   *)
(* stack calls back as the cable, the host's DTR and packets change; the   *)
(* callbacks tell sessions apart.  The application's loop finds out later, *)
(* between two calls of the USB stack, and while it writes the flash it    *)
(* lets the stack run in the middle of its work.                           *)
(*                                                                         *)
(* Bytes are in pieces, each no longer than one read or write: the part of *)
(* a line, its end, and the newline that separates sessions.  A piece is   *)
(* of the session in which it was sent or whose request it answers.        *)
(***************************************************************************)
EXTENDS Integers, Sequences

CONSTANTS
  Fifo,            \* pieces each of TinyUSB's two queues takes
  MaxOpens,        \* bound on how often the host opens the port
  MaxGeneration    \* bound on generations

ASSUME CdcAssumption == {Fifo, MaxOpens, MaxGeneration} \subseteq Nat \ {0}

VARIABLES
  usb,       \* the stack: configured, suspended, and the host's DTR
  opened,    \* how often the host has raised it: the number of its session
  cdc,       \* cdc_session.c, and the stack's queues
  app,       \* application.c, and what protocol.c keeps of a session
  pc,        \* where the loop is: calling the stack, in handle(), or after it
  busy,      \* inside bosun_board_task
  \* history
  request,   \* in handle(): the sessions of the bytes of the request, and the session at its start
  heard,     \* the last newline between sessions on the wire, and the last piece after it
  amid       \* sessions that began in the middle of the loop's work

cdcVars == <<usb, opened, cdc, app, pc, busy, request, heard, amid>>

Sessions == 0..MaxOpens
Pieces == [of : Sessions, kind : {"part", "end", "boundary"}]
Piece(s, kind) == [of |-> s, kind |-> kind]

CdcTypeOK ==
  /\ usb \in [mounted : BOOLEAN, dtr : BOOLEAN, suspended : BOOLEAN]
  /\ opened \in Sessions
  /\ cdc \in [connected : BOOLEAN, generation : 0..(MaxGeneration + 1), boundary : BOOLEAN,
              rx : Seq(Pieces), tx : Seq(Pieces), packet : Seq(Pieces)]
  /\ {Len(cdc.rx), Len(cdc.tx)} \subseteq 0..Fifo /\ Len(cdc.packet) <= 1
  /\ app \in [connected : BOOLEAN, generation : 0..(MaxGeneration + 1), session : Sessions,
              input : Seq(Pieces), partial : SUBSET Sessions, discarding : BOOLEAN,
              out : Seq(Pieces)]
  /\ pc \in {"usb", "handle", "save"} /\ busy \in BOOLEAN
  /\ request \in [of : SUBSET Sessions, session : Sessions]
  /\ heard \in [since : Sessions, of : Sessions]
  /\ amid \subseteq Sessions

CdcInit ==
  /\ usb = [mounted |-> FALSE, dtr |-> FALSE, suspended |-> FALSE]
  /\ opened = 0
  /\ cdc = [connected |-> FALSE, generation |-> 0, boundary |-> FALSE,
            rx |-> <<>>, tx |-> <<>>, packet |-> <<>>]
  /\ app = [connected |-> FALSE, generation |-> 0, session |-> 0,
            input |-> <<>>, partial |-> {}, discarding |-> FALSE, out |-> <<>>]
  /\ pc = "usb" /\ busy = TRUE
  /\ request = [of |-> {}, session |-> 0]
  /\ heard = [since |-> 0, of |-> 0]
  /\ amid = {}

Open == usb.mounted /\ usb.dtr
Connected == cdc.connected /\ Open    \* bosun_board_usb_connected
-----------------------------------------------------------------------------
(* cdc_session.c: what its functions make of the session and the queues.   *)

\* reset_session: a packet under way to the host cannot be taken back.
Reset(c, on) == [c EXCEPT !.connected = on, !.generation = @ + 1, !.boundary = on,
                          !.rx = <<>>, !.tx = <<>>]

\* write_boundary, when there is room.
Bounded(c) == IF c.boundary /\ Len(c.tx) < Fifo
              THEN [c EXCEPT !.boundary = FALSE, !.tx = Append(@, Piece(opened, "boundary"))]
              ELSE c

\* The stack sends one packet at a time, with or without DTR.
Flushed(c) == IF c.packet = <<>> /\ c.tx # <<>>
              THEN [c EXCEPT !.packet = <<Head(c.tx)>>, !.tx = Tail(@)]
              ELSE c

Writable(c) == Connected /\ ~usb.suspended /\ ~Bounded(c).boundary
Accepts(c) == Writable(c) /\ Len(Bounded(c).tx) < Fifo
Written(c, piece) ==
  IF Accepts(c) THEN Flushed([Bounded(c) EXCEPT !.tx = Append(@, piece)])
  ELSE IF Writable(c) THEN Flushed(Bounded(c))
  ELSE c
-----------------------------------------------------------------------------
(* Inside tud_task: any number of these, in any order, before              *)
(* bosun_cdc_task.  The loop calls bosun_board_task at its top, and the    *)
(* flash calls it for every page, in a request and in an autosave.         *)
InStack == /\ pc = "usb" => busy
           /\ busy' = TRUE
           /\ UNCHANGED <<app, pc, request>>

MayReset == cdc.generation < MaxGeneration

\* Another state of DTR.
LineState(on) ==
  /\ InStack /\ MayReset
  /\ usb.mounted /\ usb.dtr # on
  /\ on => opened < MaxOpens
  /\ usb' = [usb EXCEPT !.dtr = on]
  /\ opened' = IF on THEN opened + 1 ELSE opened
  /\ cdc' = IF on # cdc.connected THEN Reset(cdc, on) ELSE cdc
  /\ amid' = IF on /\ pc # "usb" THEN amid \cup {opened + 1} ELSE amid
  /\ UNCHANGED heard

\* A bus reset calls nothing back until the host has configured the device again.
BusReset ==
  /\ InStack
  /\ usb.mounted
  /\ usb' = [mounted |-> FALSE, dtr |-> FALSE, suspended |-> FALSE]
  /\ cdc' = [cdc EXCEPT !.packet = <<>>]
  /\ UNCHANGED <<opened, heard, amid>>

Configured ==
  /\ InStack /\ MayReset
  /\ ~usb.mounted
  /\ usb' = [usb EXCEPT !.mounted = TRUE]
  /\ cdc' = Reset(cdc, FALSE)
  /\ UNCHANGED <<opened, heard, amid>>

Unplugged ==
  /\ InStack /\ MayReset
  /\ usb.mounted
  /\ usb' = [mounted |-> FALSE, dtr |-> FALSE, suspended |-> FALSE]
  /\ cdc' = [Reset(cdc, FALSE) EXCEPT !.packet = <<>>]
  /\ UNCHANGED <<opened, heard, amid>>

SuspendOrResume ==
  /\ InStack
  /\ usb.mounted
  /\ usb' = [usb EXCEPT !.suspended = ~@]
  /\ UNCHANGED <<opened, cdc, heard, amid>>

\* Bytes from the host, perhaps after DTR fell; tud_cdc_rx_cb.
Arrives(kind) ==
  /\ InStack
  /\ usb.mounted /\ ~usb.suspended /\ opened > 0 /\ Len(cdc.rx) < Fifo
  /\ cdc' = [cdc EXCEPT !.rx = IF cdc.connected THEN Append(@, Piece(opened, kind)) ELSE <<>>]
  /\ UNCHANGED <<usb, opened, heard, amid>>

\* The host has the packet, and the next one goes.
Delivered ==
  /\ InStack
  /\ usb.mounted /\ ~usb.suspended /\ cdc.packet # <<>>
  /\ cdc' = Flushed([cdc EXCEPT !.packet = <<>>])
  /\ heard' = LET piece == Head(cdc.packet)
              IN IF piece.kind = "boundary" THEN [since |-> piece.of, of |-> piece.of]
                 ELSE [heard EXCEPT !.of = piece.of]
  /\ UNCHANGED <<usb, opened, amid>>

CdcTask ==
  /\ busy /\ busy' = FALSE
  /\ LET c == IF Open # cdc.connected THEN Reset(cdc, Open) ELSE cdc
     IN cdc' = IF Open /\ ~usb.suspended THEN Flushed(Bounded(c)) ELSE c
  /\ UNCHANGED <<usb, opened, app, pc, request, heard, amid>>
-----------------------------------------------------------------------------
(* application.c: the loop.                                                *)

ChangedConnection(a) == a.connected # Connected
Changed(a) == a.connected # Connected \/ a.generation # cdc.generation

\* bosun_protocol_session: nothing is kept of the session before.
Fresh == [connected |-> Connected, generation |-> cdc.generation, session |-> opened,
          input |-> <<>>, partial |-> {}, discarding |-> FALSE, out |-> <<>>]

Answer(s, n) == [i \in 1..n |-> Piece(s, IF i = n THEN "end" ELSE "part")]

\* flush_protocol.
Left(a, c) == IF a.out # <<>> /\ Accepts(c) THEN [a EXCEPT !.out = Tail(@)] ELSE a
Sent(a, c) == IF a.out # <<>> THEN Written(c, Head(a.out)) ELSE c

SessionsOf(s) == {s[i].of : i \in DOMAIN s}

\* bosun_protocol_feed: the input up to the end of a line, when no answer is under way.
Feed(a) ==
  LET ends == {i \in DOMAIN a.input : a.input[i].kind = "end"}
      last == CHOOSE i \in ends : \A j \in ends : i <= j
      line == IF ends = {} THEN a.input ELSE SubSeq(a.input, 1, last)
      rest == SubSeq(a.input, Len(line) + 1, Len(a.input))
      bytes == a.partial \cup SessionsOf(line)
  IN IF a.out # <<>> THEN app' = a /\ pc' = "save" /\ UNCHANGED request
     ELSE IF ends = {} THEN
       /\ app' = [a EXCEPT !.input = <<>>, !.partial = IF a.discarding THEN {} ELSE bytes]
       /\ pc' = "save" /\ UNCHANGED request
     ELSE IF a.discarding THEN    \* request_too_large
       /\ app' = [a EXCEPT !.input = rest, !.discarding = FALSE, !.out = Answer(a.session, 1)]
       /\ pc' = "save" /\ UNCHANGED request
     ELSE
       /\ app' = [a EXCEPT !.input = rest, !.partial = {}]
       /\ pc' = "handle" /\ request' = [of |-> bytes, session |-> opened]

ProtocolInput ==
  /\ pc = "usb" /\ ~busy
  /\ LET a0 == IF Changed(app) THEN Fresh ELSE app
         a1 == Left(a0, cdc)
         c1 == Sent(a0, cdc)
         reads == a1.input = <<>> /\ ~usb.suspended
         a2 == IF reads THEN [a1 EXCEPT !.input = c1.rx] ELSE a1
     IN IF Connected
        THEN Feed(a2) /\ cdc' = IF reads THEN [c1 EXCEPT !.rx = <<>>] ELSE c1
        ELSE app' = a0 /\ pc' = "save" /\ UNCHANGED <<cdc, request>>
  /\ UNCHANGED <<usb, opened, busy, heard, amid>>

\* handle() is done, after the flash and the calls of the stack it needed.
Handled ==
  /\ pc = "handle" /\ ~busy
  /\ pc' = "save"
  /\ \E n \in 1..2 : app' = [app EXCEPT !.out = Answer(request.session, n)]
  /\ request' = [of |-> {}, session |-> 0]
  /\ UNCHANGED <<usb, opened, cdc, busy, heard, amid>>

\* bosun_protocol_tick: a line that does not go on, an event, or nothing.
Ticked(a) ==
  IF ~a.connected \/ a.input # <<>> \/ a.out # <<>> THEN {a}
  ELSE {a} \cup IF a.partial # {}
                THEN {[a EXCEPT !.partial = {}, !.discarding = TRUE, !.out = Answer(a.session, 1)]}
                ELSE IF a.discarding THEN {}
                ELSE {[a EXCEPT !.out = Answer(a.session, n)] : n \in 1..2}

\* The rest of bosun_application_tick, after bosun_config_tick, and its next call.
Tick ==
  /\ pc = "save" /\ ~busy
  /\ \E a \in Ticked(app) :
       /\ app' = IF a.connected THEN Left(a, cdc) ELSE a
       /\ cdc' = IF a.connected THEN Sent(a, cdc) ELSE cdc
  /\ pc' = "usb" /\ busy' = TRUE
  /\ UNCHANGED <<usb, opened, request, heard, amid>>

CdcNext ==
  \/ \E on \in BOOLEAN : LineState(on)
  \/ BusReset \/ Configured \/ Unplugged \/ SuspendOrResume
  \/ \E kind \in {"part", "end"} : Arrives(kind)
  \/ Delivered \/ CdcTask
  \/ ProtocolInput \/ Handled \/ Tick

CdcSpec == CdcInit /\ [][CdcNext]_cdcVars
-----------------------------------------------------------------------------
(***************************************************************************)
(* Properties.                                                             *)
(***************************************************************************)

\* A request is made of bytes of one session and executed in it, although a session ends
\* and another begins between two looks of the loop (cdc_session.c:26, application.c:131-138).
RequestsOwn == pc = "handle" => request.of = {request.session}

\* After the newline that begins a session the host gets answers and events of that
\* session only.  One that begins while the loop writes the flash is left out: the
\* loop sends it the rest of an answer to the one before (application.c:329).
AnswersInSession == heard.of = heard.since \/ heard.since \in amid

SessionsApart == CdcTypeOK /\ RequestsOwn /\ AnswersInSession
=============================================================================
