--------------------------- MODULE FirmwareProof ---------------------------
(***************************************************************************)
(* What holds of the firmware's loop for any number of sessions and pieces *)
(* of its USB data connection, of a foot switch for any timing, and of the *)
(* events for any number of locations and changes.                         *)
(*   1. No request and no answer is carried from one session to another,   *)
(*      although the loop learns of the end of one only when the next may  *)
(*      have begun: SessionsAlwaysApart.                                   *)
(*   2. A foot switch fires nothing twice or for the wrong gesture, and    *)
(*      leaves nothing out but in two cases, over a clock that wraps, with *)
(*      edits and other patches at any moment: TriggersAlwaysFit.          *)
(*   3. What the firmware has still to tell is true, and a client that was *)
(*      told everything knows what it keeps: EventsAlwaysTell.             *)
(***************************************************************************)
EXTENDS CdcSession, SwitchFSM, UiEvents, SequenceTheorems, FiniteSetTheorems,
        WellFoundedInduction, TLAPS

-----------------------------------------------------------------------------
(* The USB sessions: the invariant.                                        *)

\* While the device is configured the stack's callbacks follow DTR at once.
UsbInv ==
  /\ usb.mounted => (cdc.connected <=> usb.dtr)
  /\ ~usb.mounted => ~usb.dtr
  /\ cdc.generation > MaxGeneration => ~cdc.connected

\* What the host takes a piece for that comes after the packet under way, and what it
\* may get there.
IsBoundary(piece) == piece.kind = "boundary"
Front(c, since) == IF c.packet # <<>> /\ IsBoundary(c.packet[1]) THEN c.packet[1].of ELSE since
Belongs(s, since, excepted) == s = since \/ since \in excepted

\* The newline of a session is in front of what is queued for it, or already further on.
Parted(c, mounted, session, since, excepted) ==
  /\ c.packet # <<>> /\ ~IsBoundary(c.packet[1]) => Belongs(c.packet[1].of, since, excepted)
  /\ \A i \in 1 .. Len(c.tx) :
       /\ IsBoundary(c.tx[i]) => i = 1 /\ c.tx[i].of = session
       /\ ~IsBoundary(c.tx[i]) => Belongs(c.tx[i].of, session, excepted)
  /\ ~mounted => c.packet = <<>>
  /\ ~c.connected \/ c.boundary => c.tx = <<>>
  /\ ~c.connected => ~c.boundary
  /\ mounted /\ c.connected /\ ~c.boundary =>
       Front(c, since) = session \/ (c.tx # <<>> /\ IsBoundary(c.tx[1]))
WireInv == AnswersInSession /\ Parted(cdc, usb.mounted, opened, heard.since, amid)

\* What the application keeps is of the session it knows, which is the host's unless the
\* generation says otherwise; and while it works, unless one began in between.
AllOf(s, session) == \A i \in 1 .. Len(s) : s[i].of = session
AppInv ==
  /\ app.generation <= cdc.generation
  /\ app.generation = cdc.generation => app.session = opened
  /\ AllOf(cdc.rx, opened) /\ AllOf(app.input, app.session)
  /\ app.partial \subseteq {app.session}
  /\ AllOf(app.out, app.session) /\ \A i \in 1 .. Len(app.out) : ~IsBoundary(app.out[i])
  /\ pc = "handle" => request.session = app.session /\ request.of = {app.session}
  /\ pc # "usb" => Belongs(app.session, opened, amid)

SessionInv == CdcTypeOK /\ UsbInv /\ WireInv /\ AppInv
-----------------------------------------------------------------------------
(* The USB sessions: queues and records.                                   *)

CdcType == [connected : BOOLEAN, generation : 0..(MaxGeneration + 1), boundary : BOOLEAN,
            rx : Seq(Pieces), tx : Seq(Pieces), packet : Seq(Pieces)]
AppType == [connected : BOOLEAN, generation : 0..(MaxGeneration + 1), session : Sessions,
            input : Seq(Pieces), partial : SUBSET Sessions, discarding : BOOLEAN,
            out : Seq(Pieces)]
Sized(c) == c \in CdcType /\ {Len(c.rx), Len(c.tx)} \subseteq 0..Fifo /\ Len(c.packet) <= 1

LEMMA PieceType ==
  \A s \in Sessions, kind \in {"part", "end", "boundary"} :
    /\ Piece(s, kind) \in Pieces
    /\ Piece(s, kind).of = s /\ (IsBoundary(Piece(s, kind)) <=> kind = "boundary")
BY DEF Piece, Pieces, IsBoundary

\* A session of the stack ends or begins: its queues are empty.
LEMMA ResetIs ==
  ASSUME NEW c, Sized(c), NEW on \in BOOLEAN, c.generation <= MaxGeneration
  PROVE  LET d == Reset(c, on)
         IN  /\ Sized(d) /\ d.connected = on /\ d.generation = c.generation + 1
             /\ d.boundary = on /\ d.rx = <<>> /\ d.tx = <<>> /\ d.packet = c.packet
<1>1. c.generation + 1 \in 0 .. (MaxGeneration + 1) /\ 0 \in 0 .. Fifo /\ Len(<<>>) = 0
  BY CdcAssumption DEF Sized, CdcType
<1>2. PICK g \in 0 .. (MaxGeneration + 1) : g = c.generation + 1
  BY <1>1
<1>3. <<>> \in Seq(Pieces)
  OBVIOUS
<1>4. Reset(c, on) = [c EXCEPT !.connected = on, !.generation = g, !.boundary = on,
                                !.rx = <<>>, !.tx = <<>>]
  BY <1>2 DEF Reset, Sized, CdcType
<1>5. QED
  BY <1>1, <1>2, <1>3, <1>4 DEF Sized, CdcType

LEMMA ResetParted ==
  ASSUME NEW c, Sized(c), NEW on \in BOOLEAN, c.generation <= MaxGeneration,
         NEW m, NEW n, NEW s, NEW t, NEW since, NEW A, NEW B,
         Parted(c, m, s, since, A), A \subseteq B, m => n
  PROVE  Parted(Reset(c, on), n, t, since, B)
<1>1. PICK d : d = Reset(c, on)
  OBVIOUS
<1>2. d.connected = on /\ d.boundary = on /\ d.tx = <<>> /\ d.packet = c.packet
  BY <1>1, ResetIs
<1>3. 1 .. Len(d.tx) = {}
  BY <1>2
<1>4. QED
  BY <1>1, <1>2, <1>3 DEF Parted, Belongs

LEMMA FlushedIs ==
  ASSUME NEW c, Sized(c)
  PROVE  LET d == Flushed(c)
         IN  /\ Sized(d) /\ d.connected = c.connected /\ d.generation = c.generation
             /\ d.boundary = c.boundary /\ d.rx = c.rx
             /\ \/ d = c
                \/ /\ c.packet = <<>> /\ c.tx # <<>> /\ Len(d.packet) = 1
                   /\ d.packet[1] = c.tx[1] /\ Len(d.tx) = Len(c.tx) - 1
                   /\ \A i \in 1 .. Len(d.tx) : d.tx[i] = c.tx[i + 1]
<1>1. CASE ~(c.packet = <<>> /\ c.tx # <<>>)
  BY <1>1 DEF Flushed
<1>2. CASE c.packet = <<>> /\ c.tx # <<>>
  <2>1. PICK p, q : p = <<Head(c.tx)>> /\ q = Tail(c.tx)
    OBVIOUS
  <2>2. c.tx \in Seq(Pieces) /\ Len(c.tx) \in 0 .. Fifo
    BY DEF Sized, CdcType
  <2>3. Len(c.tx) \in Nat /\ Fifo \in Nat
    BY <2>2, CdcAssumption
  <2>4. /\ p \in Seq(Pieces) /\ Len(p) = 1 /\ p[1] = c.tx[1]
        /\ q \in Seq(Pieces) /\ Len(q) = Len(c.tx) - 1
        /\ \A i \in 1 .. Len(q) : q[i] = c.tx[i + 1]
    BY <1>2, <2>1, <2>2
  <2>5. Len(q) \in 0 .. Fifo
    BY <2>2, <2>3, <2>4
  <2>6. PICK d : d = [c EXCEPT !.packet = p, !.tx = q]
    OBVIOUS
  <2>7. /\ d.connected = c.connected /\ d.generation = c.generation
        /\ d.boundary = c.boundary /\ d.rx = c.rx /\ d.packet = p /\ d.tx = q /\ d \in CdcType
    BY <2>4, <2>6 DEF Sized, CdcType
  <2>8. Flushed(c) = d
    BY <1>2, <2>1, <2>6 DEF Flushed, Sized, CdcType
  <2>9. Sized(d)
    <3>1. d.packet = p /\ d.tx = q /\ d.rx = c.rx /\ d \in CdcType /\ Len(p) = 1 /\ 1 <= 1
      BY <2>4, <2>7
    <3>2. QED
      BY <2>5, <3>1 DEF Sized
  <2>10. QED
    BY <1>2, <2>4, <2>7, <2>8, <2>9
<1>3. QED
  BY <1>1, <1>2

\* The packet under way is followed by what is queued first.
LEMMA FlushedParted ==
  ASSUME NEW c, Sized(c), NEW s, NEW since, NEW A, Parted(c, TRUE, s, since, A)
  PROVE  Parted(Flushed(c), TRUE, s, since, A)
<1>1. PICK d : d = Flushed(c)
  OBVIOUS
<1>2. CASE d = c
  BY <1>1, <1>2
<1>3. CASE d # c
  <2>1. /\ d.connected = c.connected /\ d.boundary = c.boundary
        /\ c.packet = <<>> /\ c.tx # <<>> /\ Len(d.packet) = 1
        /\ d.packet[1] = c.tx[1] /\ Len(d.tx) = Len(c.tx) - 1
        /\ \A i \in 1 .. Len(d.tx) : d.tx[i] = c.tx[i + 1]
    BY <1>1, <1>3, FlushedIs
  <2>2. Len(c.tx) \in Nat /\ 1 \in 1 .. Len(c.tx) /\ d.packet # <<>>
    <3>1. c.tx \in Seq(Pieces)
      BY DEF Sized, CdcType
    <3>2. Len(c.tx) \in Nat /\ Len(c.tx) # 0
      BY <2>1, <3>1, EmptySeq
    <3>3. Len(<<>>) = 0
      OBVIOUS
    <3>4. QED
      BY <2>1, <3>2, <3>3
  <2>3. c.connected /\ ~c.boundary
    BY <2>1 DEF Parted
  <2>4. Front(c, since) = since
    BY <2>1 DEF Front
  <2>5. since = s \/ IsBoundary(c.tx[1])
    BY <2>3, <2>4 DEF Parted
  <2>6. /\ IsBoundary(c.tx[1]) => c.tx[1].of = s
        /\ ~IsBoundary(c.tx[1]) => Belongs(c.tx[1].of, s, A)
    BY <2>2 DEF Parted
  <2>7. Front(d, since) = s
    BY <2>1, <2>2, <2>5, <2>6 DEF Front
  <2>8. ~IsBoundary(d.packet[1]) => Belongs(d.packet[1].of, since, A)
    BY <2>1, <2>5, <2>6
  <2>9. \A i \in 1 .. Len(d.tx) : i + 1 \in 1 .. Len(c.tx) /\ i + 1 # 1
    BY <2>1, <2>2
  <2>10. \A i \in 1 .. Len(d.tx) : ~IsBoundary(d.tx[i]) /\ Belongs(d.tx[i].of, s, A)
    BY <2>1, <2>9 DEF Parted
  <2>11. QED
    BY <1>1, <2>1, <2>3, <2>7, <2>8, <2>10 DEF Parted
<1>4. QED
  BY <1>2, <1>3

\* A piece is queued: the newline of the session first, and after it only what belongs to it.
Queued(c, piece) == [c EXCEPT !.boundary = FALSE, !.tx = Append(@, piece)]
LEMMA QueuedIs ==
  ASSUME NEW c, Sized(c), Len(c.tx) < Fifo, NEW piece \in Pieces,
         NEW d, d = Queued(c, piece)
  PROVE  /\ Sized(d) /\ d.connected = c.connected /\ d.generation = c.generation
         /\ ~d.boundary /\ d.rx = c.rx /\ d.packet = c.packet
         /\ Len(d.tx) = Len(c.tx) + 1 /\ d.tx[Len(c.tx) + 1] = piece /\ Len(c.tx) \in Nat
         /\ \A i \in 1 .. Len(c.tx) : d.tx[i] = c.tx[i]
<1>1. PICK q : q = Append(c.tx, piece)
  OBVIOUS
<1>2. c.tx \in Seq(Pieces) /\ Len(c.tx) \in Nat /\ Fifo \in Nat
  BY CdcAssumption DEF Sized, CdcType
<1>3. /\ q \in Seq(Pieces) /\ Len(q) = Len(c.tx) + 1 /\ q[Len(c.tx) + 1] = piece
      /\ \A i \in 1 .. Len(c.tx) : q[i] = c.tx[i]
  BY <1>1, <1>2
<1>4. Len(q) \in 0 .. Fifo
  BY <1>2, <1>3
<1>5. d = [c EXCEPT !.boundary = FALSE, !.tx = q]
  BY <1>1 DEF Queued, Sized, CdcType
<1>6. /\ d.connected = c.connected /\ d.generation = c.generation /\ ~d.boundary
      /\ d.rx = c.rx /\ d.packet = c.packet /\ d.tx = q /\ d \in CdcType
  BY <1>3, <1>5 DEF Sized, CdcType
<1>7. Sized(d)
  BY <1>4, <1>6 DEF Sized
<1>8. QED
  BY <1>2, <1>3, <1>6, <1>7

LEMMA QueuedParted ==
  ASSUME NEW c, Sized(c), Len(c.tx) < Fifo, NEW m, NEW s, NEW since, NEW A, c.connected,
         Parted(c, m, s, since, A), NEW piece \in Pieces,
         \/ c.boundary /\ IsBoundary(piece) /\ piece.of = s
         \/ ~c.boundary /\ ~IsBoundary(piece) /\ Belongs(piece.of, s, A)
  PROVE  Parted(Queued(c, piece), m, s, since, A)
<1>1. PICK d : d = Queued(c, piece)
  OBVIOUS
<1>2. PICK k : k = Len(c.tx)
  OBVIOUS
<1>3. /\ d.connected = c.connected /\ ~d.boundary /\ d.packet = c.packet
      /\ Len(d.tx) = k + 1 /\ d.tx[k + 1] = piece /\ k \in Nat
      /\ \A i \in 1 .. k : d.tx[i] = c.tx[i]
  <2>1. /\ d.connected = c.connected /\ ~d.boundary /\ d.packet = c.packet
        /\ Len(d.tx) = Len(c.tx) + 1 /\ d.tx[Len(c.tx) + 1] = piece /\ Len(c.tx) \in Nat
        /\ \A i \in 1 .. Len(c.tx) : d.tx[i] = c.tx[i]
    <3>1. Sized(c) /\ Len(c.tx) < Fifo /\ piece \in Pieces /\ d = Queued(c, piece)
      BY <1>1
    <3>2. QED
      BY ONLY <3>1, QueuedIs
  <2>2. QED
    BY <1>2, <2>1
<1>4. \A i \in 1 .. Len(d.tx) : i \in 1 .. k \/ i = k + 1
  BY <1>3
<1>5. Front(d, since) = Front(c, since)
  BY <1>3 DEF Front
<1>6. Len(<<>>) = 0 /\ d.tx # <<>>
  BY <1>3
<1>7. CASE c.boundary
  <2>1. c.tx = <<>> /\ IsBoundary(piece) /\ piece.of = s
    BY <1>7 DEF Parted
  <2>2. k = 0
    BY <1>2, <1>6, <2>1
  <2>3. \A i \in 1 .. Len(d.tx) : i = 1 /\ d.tx[i] = piece
    BY <1>3, <2>2
  <2>4. d.tx[1] = piece
    BY <1>3, <2>2
  <2>5. Parted(d, m, s, since, A)
    <3>1. \A i \in 1 .. Len(d.tx) : IsBoundary(d.tx[i]) /\ i = 1 /\ d.tx[i].of = s
      BY <2>1, <2>3
    <3>2. d.tx # <<>> /\ IsBoundary(d.tx[1])
      BY <1>6, <2>1, <2>4
    <3>3. d.connected /\ ~d.boundary /\ d.packet = c.packet
      BY <1>3
    <3>4. QED
      BY <3>1, <3>2, <3>3 DEF Parted
  <2>6. QED
    BY <1>1, <2>5
<1>8. CASE ~c.boundary
  <2>1. ~IsBoundary(piece) /\ Belongs(piece.of, s, A)
    BY <1>8
  <2>2. \A i \in 1 .. Len(d.tx) : /\ IsBoundary(d.tx[i]) => i = 1 /\ d.tx[i].of = s
                                  /\ ~IsBoundary(d.tx[i]) => Belongs(d.tx[i].of, s, A)
    BY <1>2, <1>3, <1>4, <2>1 DEF Parted
  <2>3. c.tx # <<>> => d.tx[1] = c.tx[1]
    <3>1. c.tx \in Seq(Pieces)
      BY DEF Sized, CdcType
    <3>2. c.tx # <<>> => 1 \in 1 .. k
      BY <1>2, <1>3, <3>1, EmptySeq
    <3>3. QED
      BY <1>3, <3>2
  <2>4. m => Front(d, since) = s \/ IsBoundary(d.tx[1])
    BY <1>5, <1>8, <2>3 DEF Parted
  <2>5. QED
    BY <1>1, <1>3, <1>6, <2>2, <2>4 DEF Parted
<1>9. QED
  BY <1>7, <1>8

LEMMA BoundedIs ==
  ASSUME NEW c, Sized(c), opened \in Sessions
  PROVE  LET d == Bounded(c)
         IN  /\ Sized(d) /\ d.connected = c.connected /\ d.generation = c.generation
             /\ d.rx = c.rx /\ (d.boundary => c.boundary)
<1>1. CASE c.boundary /\ Len(c.tx) < Fifo
  <2>1. PICK piece \in Pieces : piece = Piece(opened, "boundary")
    BY PieceType
  <2>2. Bounded(c) = Queued(c, piece)
    BY <1>1, <2>1 DEF Bounded, Queued, Sized, CdcType
  <2>3. PICK d : d = Queued(c, piece)
    OBVIOUS
  <2>4. /\ Sized(d) /\ d.connected = c.connected /\ d.generation = c.generation
        /\ ~d.boundary /\ d.rx = c.rx
    BY <1>1, <2>3, QueuedIs
  <2>5. QED
    BY <2>2, <2>3, <2>4
<1>2. CASE ~(c.boundary /\ Len(c.tx) < Fifo)
  BY <1>2 DEF Bounded
<1>3. QED
  BY <1>1, <1>2

LEMMA BoundedParted ==
  ASSUME NEW c, Sized(c), opened \in Sessions, NEW m, NEW since, NEW A, c.connected,
         Parted(c, m, opened, since, A)
  PROVE  Parted(Bounded(c), m, opened, since, A)
<1>1. CASE c.boundary /\ Len(c.tx) < Fifo
  <2>1. PICK piece \in Pieces : piece = Piece(opened, "boundary")
    BY PieceType
  <2>2. piece.of = opened /\ IsBoundary(piece)
    BY <2>1, PieceType
  <2>3. Bounded(c) = Queued(c, piece)
    BY <1>1, <2>1 DEF Bounded, Queued, Sized, CdcType
  <2>4. QED
    BY <1>1, <2>2, <2>3, QueuedParted
<1>2. CASE ~(c.boundary /\ Len(c.tx) < Fifo)
  BY <1>2 DEF Bounded
<1>3. QED
  BY <1>1, <1>2

\* What is written is queued behind the newline of the session, or not at all.
LEMMA WrittenIs ==
  ASSUME CdcTypeOK, NEW since, NEW A, Parted(cdc, usb.mounted, opened, since, A),
         NEW piece \in Pieces, ~IsBoundary(piece), Belongs(piece.of, opened, A)
  PROVE  LET d == Written(cdc, piece)
         IN  /\ Sized(d) /\ d.connected = cdc.connected /\ d.generation = cdc.generation
             /\ d.rx = cdc.rx /\ Parted(d, usb.mounted, opened, since, A)
<1>1. Sized(cdc) /\ opened \in Sessions
  BY DEF CdcTypeOK, Sized, CdcType
<1>2. CASE ~Writable(cdc)
  BY <1>1, <1>2 DEF Written, Accepts
<1>3. CASE Writable(cdc)
  <2>1. usb.mounted = TRUE /\ cdc.connected
    BY <1>3 DEF Writable, Connected, Open, CdcTypeOK
  <2>2. PICK b : b = Bounded(cdc)
    OBVIOUS
  <2>3. /\ Sized(b) /\ b.connected /\ b.connected = cdc.connected
        /\ b.generation = cdc.generation /\ b.rx = cdc.rx /\ ~b.boundary
        /\ Parted(b, TRUE, opened, since, A)
    BY <1>1, <1>3, <2>1, <2>2, BoundedIs, BoundedParted DEF Writable
  <2>4. CASE ~Accepts(cdc)
    <3>1. Written(cdc, piece) = Flushed(b)
      BY <1>3, <2>2, <2>4 DEF Written
    <3>2. QED
      BY <2>1, <2>3, <3>1, FlushedIs, FlushedParted
  <2>5. CASE Accepts(cdc)
    <3>1. PICK d : d = Queued(b, piece)
      OBVIOUS
    <3>2. Len(b.tx) < Fifo
      BY <2>2, <2>5 DEF Accepts
    <3>3. Written(cdc, piece) = Flushed(d)
      <4>1. [b EXCEPT !.tx = Append(@, piece)] = d
        BY <2>3, <3>1 DEF Queued, Sized, CdcType
      <4>2. QED
        BY <2>2, <2>5, <4>1 DEF Written
    <3>4. /\ Sized(d) /\ d.connected = b.connected /\ d.generation = b.generation /\ d.rx = b.rx
      <4>1. Sized(b) /\ Len(b.tx) < Fifo /\ piece \in Pieces /\ d = Queued(b, piece)
        BY <2>3, <3>1, <3>2
      <4>2. QED
        BY ONLY <4>1, QueuedIs
    <3>5. Parted(d, TRUE, opened, since, A)
      BY <2>3, <3>1, <3>2, QueuedParted
    <3>6. QED
      BY Zenon, <2>1, <2>3, <3>3, <3>4, <3>5, FlushedIs, FlushedParted
  <2>6. QED
    BY <2>4, <2>5
<1>4. QED
  BY <1>2, <1>3

-----------------------------------------------------------------------------
(* The USB sessions: the stack.                                            *)

LEMMA PartedSame ==
  ASSUME NEW c, NEW d, NEW m, NEW s, NEW since, NEW A, Parted(c, m, s, since, A),
         d.connected = c.connected, d.boundary = c.boundary, d.tx = c.tx, d.packet = c.packet
  PROVE  Parted(d, m, s, since, A)
BY DEF Parted, Front

\* Without its packet under way.
LEMMA UnsentIs ==
  ASSUME NEW c, Sized(c)
  PROVE  LET d == [c EXCEPT !.packet = <<>>]
         IN  /\ Sized(d) /\ d.connected = c.connected /\ d.generation = c.generation
             /\ d.boundary = c.boundary /\ d.rx = c.rx /\ d.tx = c.tx /\ d.packet = <<>>
<1>1. <<>> \in Seq(Pieces) /\ Len(<<>>) = 0 /\ 0 <= 1
  OBVIOUS
<1>2. PICK d : d = [c EXCEPT !.packet = <<>>]
  OBVIOUS
<1>3. /\ d \in CdcType /\ d.connected = c.connected /\ d.generation = c.generation
      /\ d.boundary = c.boundary /\ d.rx = c.rx /\ d.tx = c.tx /\ d.packet = <<>>
  BY <1>1, <1>2 DEF Sized, CdcType
<1>4. Sized(d)
  BY <1>1, <1>3 DEF Sized
<1>5. QED
  BY <1>2, <1>3, <1>4

LEMMA UnmountedParted ==
  ASSUME NEW c, NEW d, NEW m, NEW s, NEW since, NEW A, Parted(c, m, s, since, A),
         d.connected = c.connected, d.boundary = c.boundary, d.tx = c.tx, d.packet = <<>>
  PROVE  Parted(d, FALSE, s, since, A)
BY DEF Parted

\* The application stands still while the stack calls back: what it keeps is of the
\* session it knows, and a new session has a new generation.
LEMMA StackStep ==
  ASSUME SessionInv, UNCHANGED <<app, pc, request>>, busy' \in BOOLEAN,
         usb' \in [mounted : BOOLEAN, dtr : BOOLEAN, suspended : BOOLEAN],
         opened' \in Sessions, Sized(cdc'), heard' \in [since : Sessions, of : Sessions],
         amid' \subseteq Sessions, amid \subseteq amid',
         cdc'.generation >= cdc.generation,
         cdc'.generation = cdc.generation => opened' = opened,
         AllOf(cdc'.rx, opened'),
         pc # "usb" => opened' = opened \/ opened' \in amid',
         UsbInv', WireInv'
  PROVE  SessionInv'
<1>1. CdcTypeOK'
  BY DEF SessionInv, CdcTypeOK, Sized, CdcType
<1>2. app.generation \in Nat /\ cdc.generation \in Nat /\ cdc'.generation \in Nat
  BY CdcAssumption DEF SessionInv, CdcTypeOK, Sized, CdcType
<1>3. app.generation <= cdc.generation /\ (app.generation = cdc.generation => app.session = opened)
  BY DEF SessionInv, AppInv
<1>4. app'.generation <= cdc'.generation
  BY <1>2, <1>3
<1>5. app'.generation = cdc'.generation => app'.session = opened'
  BY <1>2, <1>3
<1>6. pc' # "usb" => Belongs(app'.session, opened', amid')
  BY DEF SessionInv, AppInv, Belongs
<1>7. AppInv'
  BY <1>4, <1>5, <1>6 DEF SessionInv, AppInv
<1>8. QED
  BY <1>1, <1>7 DEF SessionInv

LEMMA UsbFacts ==
  ASSUME SessionInv
  PROVE  /\ Sized(cdc) /\ opened \in Sessions /\ cdc.generation \in Nat /\ MaxGeneration \in Nat
         /\ usb \in [mounted : BOOLEAN, dtr : BOOLEAN, suspended : BOOLEAN]
         /\ heard \in [since : Sessions, of : Sessions] /\ amid \subseteq Sessions
         /\ Parted(cdc, usb.mounted, opened, heard.since, amid) /\ AnswersInSession
         /\ AllOf(cdc.rx, opened) /\ UsbInv /\ AllOf(<<>>, opened) /\ AllOf(<<>>, opened')
<1>1. 1 .. Len(<<>>) = {}
  OBVIOUS
<1>2. QED
  BY <1>1, CdcAssumption DEF SessionInv, CdcTypeOK, Sized, CdcType, WireInv, AppInv, AllOf

LEMMA LineStateStep ==
  ASSUME SessionInv, NEW on \in BOOLEAN, LineState(on)
  PROVE  SessionInv'
<1>1. /\ usb.mounted /\ usb.dtr # on /\ cdc.generation <= MaxGeneration
      /\ cdc.generation + 1 <= MaxGeneration
  BY UsbFacts DEF LineState, MayReset
<1>2. usb' \in [mounted : BOOLEAN, dtr : BOOLEAN, suspended : BOOLEAN]
      /\ usb'.mounted = usb.mounted /\ usb'.dtr = on
  BY UsbFacts DEF LineState
<1>3. cdc' = Reset(cdc, on)
  BY <1>1, UsbFacts DEF LineState, UsbInv, Sized, CdcType
<1>4. /\ Sized(cdc') /\ cdc'.connected = on /\ cdc'.generation = cdc.generation + 1
      /\ cdc'.rx = <<>>
  BY <1>1, <1>3, UsbFacts, ResetIs
<1>5. opened' \in Sessions /\ amid' \subseteq Sessions /\ amid \subseteq amid'
      /\ (pc # "usb" => opened' = opened \/ opened' \in amid')
  <2>1. CASE on
    <3>1. opened' = opened + 1 /\ opened < MaxOpens
      BY <2>1 DEF LineState
    <3>2. opened' \in Sessions
      BY <3>1, UsbFacts, CdcAssumption DEF Sessions
    <3>3. QED
      BY <2>1, <3>1, <3>2, UsbFacts DEF LineState
  <2>2. CASE ~on
    BY <2>2, UsbFacts DEF LineState
  <2>3. QED
    BY <2>1, <2>2
<1>6. Parted(cdc', usb'.mounted, opened', heard'.since, amid')
  <2>1. /\ Sized(cdc) /\ Parted(cdc, usb.mounted, opened, heard.since, amid)
        /\ cdc.generation <= MaxGeneration /\ amid \subseteq amid' /\ heard' = heard
        /\ usb.mounted => usb'.mounted
    BY <1>1, <1>2, <1>5, UsbFacts DEF LineState
  <2>2. Parted(Reset(cdc, on), usb'.mounted, opened', heard.since, amid')
    BY <2>1, ResetParted
  <2>3. QED
    BY <1>3, <2>1, <2>2
<1>7. UsbInv'
  BY <1>1, <1>2, <1>4, UsbFacts DEF UsbInv
<1>8. WireInv'
  BY <1>5, <1>6, UsbFacts DEF WireInv, AnswersInSession, LineState
<1>9. cdc'.generation >= cdc.generation /\ cdc'.generation # cdc.generation
  BY <1>4, UsbFacts
<1>10. QED
  BY <1>2, <1>4, <1>5, <1>7, <1>8, <1>9, UsbFacts, StackStep DEF LineState, InStack

LEMMA BusResetStep ==
  ASSUME SessionInv, BusReset
  PROVE  SessionInv'
<1>1. usb' \in [mounted : BOOLEAN, dtr : BOOLEAN, suspended : BOOLEAN]
      /\ usb'.mounted = FALSE /\ usb'.dtr = FALSE
  BY DEF BusReset
<1>2. /\ Sized(cdc') /\ cdc'.connected = cdc.connected /\ cdc'.generation = cdc.generation
      /\ cdc'.boundary = cdc.boundary /\ cdc'.rx = cdc.rx /\ cdc'.tx = cdc.tx
      /\ cdc'.packet = <<>>
  BY UsbFacts, UnsentIs DEF BusReset
<1>3. Parted(cdc', usb'.mounted, opened', heard'.since, amid')
  BY <1>1, <1>2, UsbFacts, UnmountedParted DEF BusReset
<1>4. UsbInv'
  BY <1>1, <1>2, UsbFacts DEF UsbInv
<1>5. WireInv'
  BY <1>3, UsbFacts DEF WireInv, AnswersInSession, BusReset
<1>6. cdc'.generation >= cdc.generation
  BY <1>2, UsbFacts
<1>7. QED
  BY <1>1, <1>2, <1>4, <1>5, <1>6, UsbFacts, StackStep DEF BusReset, InStack

LEMMA ConfiguredStep ==
  ASSUME SessionInv, Configured
  PROVE  SessionInv'
<1>1. usb' \in [mounted : BOOLEAN, dtr : BOOLEAN, suspended : BOOLEAN]
      /\ usb'.mounted = TRUE /\ usb'.dtr = FALSE /\ ~usb.mounted
  BY UsbFacts DEF Configured, UsbInv
<1>2. cdc.generation <= MaxGeneration /\ cdc.generation + 1 <= MaxGeneration
  BY UsbFacts DEF Configured, MayReset
<1>3. /\ Sized(cdc') /\ cdc'.connected = FALSE /\ cdc'.generation = cdc.generation + 1
      /\ cdc'.rx = <<>>
  BY <1>2, UsbFacts, ResetIs DEF Configured
<1>4. Parted(cdc', usb'.mounted, opened', heard'.since, amid')
  BY <1>1, <1>2, UsbFacts, ResetParted DEF Configured
<1>5. UsbInv'
  BY <1>1, <1>3 DEF UsbInv
<1>6. WireInv'
  BY <1>4, UsbFacts DEF WireInv, AnswersInSession, Configured
<1>7. cdc'.generation >= cdc.generation
  BY <1>3, UsbFacts
<1>8. QED
  BY <1>1, <1>3, <1>5, <1>6, <1>7, UsbFacts, StackStep DEF Configured, InStack

LEMMA UnpluggedStep ==
  ASSUME SessionInv, Unplugged
  PROVE  SessionInv'
<1>1. usb' \in [mounted : BOOLEAN, dtr : BOOLEAN, suspended : BOOLEAN]
      /\ usb'.mounted = FALSE /\ usb'.dtr = FALSE /\ usb.mounted
  BY DEF Unplugged
<1>2. cdc.generation <= MaxGeneration /\ cdc.generation + 1 <= MaxGeneration
  BY UsbFacts DEF Unplugged, MayReset
<1>3. PICK d : d = Reset(cdc, FALSE)
  OBVIOUS
<1>4. Sized(d) /\ d.connected = FALSE /\ d.generation = cdc.generation + 1 /\ d.rx = <<>>
  BY <1>2, <1>3, UsbFacts, ResetIs
<1>5. Parted(d, usb.mounted, opened', heard'.since, amid')
  BY <1>2, <1>3, UsbFacts, ResetParted DEF Unplugged
<1>6. cdc' = [d EXCEPT !.packet = <<>>]
  BY <1>3 DEF Unplugged
<1>7. /\ Sized(cdc') /\ cdc'.connected = FALSE /\ cdc'.generation = cdc.generation + 1
      /\ cdc'.rx = <<>> /\ cdc'.boundary = d.boundary /\ cdc'.tx = d.tx
      /\ cdc'.packet = <<>> /\ cdc'.connected = d.connected
  BY <1>4, <1>6, UnsentIs
<1>8. Parted(cdc', usb'.mounted, opened', heard'.since, amid')
  BY <1>1, <1>5, <1>7, UnmountedParted
<1>9. UsbInv'
  BY <1>1, <1>7 DEF UsbInv
<1>10. WireInv'
  BY <1>8, UsbFacts DEF WireInv, AnswersInSession, Unplugged
<1>11. cdc'.generation >= cdc.generation
  BY <1>7, UsbFacts
<1>12. QED
  BY <1>1, <1>7, <1>9, <1>10, <1>11, UsbFacts, StackStep DEF Unplugged, InStack

LEMMA SuspendOrResumeStep ==
  ASSUME SessionInv, SuspendOrResume
  PROVE  SessionInv'
<1>1. usb' \in [mounted : BOOLEAN, dtr : BOOLEAN, suspended : BOOLEAN]
      /\ usb'.mounted = usb.mounted /\ usb'.dtr = usb.dtr
  BY UsbFacts DEF SuspendOrResume
<1>2. UNCHANGED <<opened, cdc, heard, amid>>
  BY DEF SuspendOrResume
<1>3. UsbInv'
  BY <1>1, <1>2, UsbFacts DEF UsbInv
<1>4. WireInv'
  BY <1>1, <1>2, UsbFacts DEF WireInv, AnswersInSession
<1>5. cdc'.generation >= cdc.generation /\ Sized(cdc') /\ AllOf(cdc'.rx, opened')
  BY <1>2, UsbFacts
<1>6. QED
  BY <1>1, <1>2, <1>3, <1>4, <1>5, UsbFacts, StackStep DEF SuspendOrResume, InStack

LEMMA ArrivesStep ==
  ASSUME SessionInv, NEW kind \in {"part", "end"}, Arrives(kind)
  PROVE  SessionInv'
<1>1. PICK r : r = IF cdc.connected THEN Append(cdc.rx, Piece(opened, kind)) ELSE <<>>
  OBVIOUS
<1>2. Piece(opened, kind) \in Pieces /\ Piece(opened, kind).of = opened
  BY UsbFacts, PieceType
<1>3. cdc.rx \in Seq(Pieces) /\ Len(cdc.rx) \in Nat /\ Len(cdc.rx) < Fifo /\ Fifo \in Nat
  BY UsbFacts, CdcAssumption DEF Sized, CdcType, Arrives
<1>4. r \in Seq(Pieces) /\ Len(r) \in 0 .. Fifo /\ AllOf(r, opened)
  <2>1. CASE cdc.connected
    <3>1. /\ r \in Seq(Pieces) /\ Len(r) = Len(cdc.rx) + 1
          /\ r[Len(cdc.rx) + 1] = Piece(opened, kind)
          /\ \A i \in 1 .. Len(cdc.rx) : r[i] = cdc.rx[i]
      BY <1>1, <1>2, <1>3, <2>1
    <3>2. \A i \in 1 .. Len(r) : i \in 1 .. Len(cdc.rx) \/ i = Len(cdc.rx) + 1
      BY <1>3, <3>1
    <3>3. Len(r) \in 0 .. Fifo
      BY <1>3, <3>1
    <3>4. QED
      BY <1>2, <3>1, <3>2, <3>3, UsbFacts DEF AllOf
  <2>2. CASE ~cdc.connected
    <3>1. r = <<>> /\ r \in Seq(Pieces) /\ Len(r) = 0
      BY <1>1, <2>2
    <3>2. QED
      BY <1>3, <3>1, UsbFacts
  <2>3. QED
    BY <2>1, <2>2
<1>5. cdc' = [cdc EXCEPT !.rx = r]
  BY <1>1 DEF Arrives
<1>6. /\ Sized(cdc') /\ cdc'.connected = cdc.connected /\ cdc'.generation = cdc.generation
      /\ cdc'.boundary = cdc.boundary /\ cdc'.rx = r /\ cdc'.tx = cdc.tx
      /\ cdc'.packet = cdc.packet
  BY <1>4, <1>5, UsbFacts DEF Sized, CdcType
<1>7. UNCHANGED <<usb, opened, heard, amid>>
  BY DEF Arrives
<1>8. Parted(cdc', usb.mounted, opened, heard.since, amid)
  BY <1>6, UsbFacts, PartedSame
<1>9. WireInv'
  BY <1>7, <1>8, UsbFacts DEF WireInv, AnswersInSession
<1>10. UsbInv'
  BY <1>6, <1>7, UsbFacts DEF UsbInv
<1>11. cdc'.generation >= cdc.generation
  BY <1>6, UsbFacts
<1>12. QED
  BY <1>4, <1>6, <1>7, <1>9, <1>10, <1>11, UsbFacts, StackStep DEF Arrives, InStack

\* The host hears a newline, or what belongs to the session of the last one.
LEMMA DeliveredStep ==
  ASSUME SessionInv, Delivered
  PROVE  SessionInv'
<1>1. usb.mounted = TRUE /\ cdc.packet # <<>> /\ UNCHANGED <<usb, opened, amid>>
  BY UsbFacts DEF Delivered
<1>2. PICK d : d = [cdc EXCEPT !.packet = <<>>]
  OBVIOUS
<1>3. PICK piece : piece = Head(cdc.packet)
  OBVIOUS
<1>4. piece = cdc.packet[1] /\ piece \in Pieces
  BY <1>1, <1>3, UsbFacts DEF Sized, CdcType
<1>5. heard' = IF IsBoundary(piece) THEN [since |-> piece.of, of |-> piece.of]
               ELSE [heard EXCEPT !.of = piece.of]
  BY <1>3 DEF Delivered, IsBoundary
<1>6. /\ heard' \in [since : Sessions, of : Sessions]
      /\ heard'.since = Front(cdc, heard.since) /\ heard'.of = piece.of
      /\ ~IsBoundary(piece) => heard'.since = heard.since
      /\ IsBoundary(piece) => heard'.since = piece.of
  BY <1>1, <1>4, <1>5, UsbFacts DEF Pieces, Front
<1>7. ~IsBoundary(piece) => Belongs(piece.of, heard.since, amid)
  BY <1>1, <1>4, UsbFacts DEF Parted
<1>8. AnswersInSession'
  BY <1>1, <1>6, <1>7 DEF AnswersInSession, Belongs
<1>9. /\ Sized(d) /\ d.connected = cdc.connected /\ d.generation = cdc.generation
      /\ d.boundary = cdc.boundary /\ d.rx = cdc.rx /\ d.tx = cdc.tx /\ d.packet = <<>>
  BY <1>2, UsbFacts, UnsentIs
<1>10. Parted(d, TRUE, opened, heard'.since, amid)
  <2>1. Parted(cdc, TRUE, opened, heard.since, amid)
    BY <1>1, UsbFacts
  <2>2. Front(d, heard'.since) = Front(cdc, heard.since)
    BY <1>6, <1>9 DEF Front
  <2>3. QED
    BY <1>9, <2>1, <2>2 DEF Parted
<1>11. cdc' = Flushed(d)
  BY <1>2 DEF Delivered
<1>12. /\ Sized(cdc') /\ cdc'.connected = cdc.connected /\ cdc'.generation = cdc.generation
       /\ cdc'.rx = cdc.rx
  BY <1>9, <1>11, FlushedIs
<1>13. WireInv'
  BY <1>1, <1>8, <1>9, <1>10, <1>11, FlushedParted DEF WireInv
<1>14. UsbInv'
  BY <1>1, <1>12, UsbFacts DEF UsbInv
<1>15. cdc'.generation >= cdc.generation
  BY <1>12, UsbFacts
<1>16. QED
  BY <1>1, <1>6, <1>12, <1>13, <1>14, <1>15, UsbFacts, StackStep DEF Delivered, InStack

\* bosun_cdc_task finds a session only ended, and otherwise sends its newline.
LEMMA CdcTaskStep ==
  ASSUME SessionInv, CdcTask
  PROVE  SessionInv'
<1>1. UNCHANGED <<usb, opened, app, pc, request, heard, amid>> /\ busy' = FALSE
  BY DEF CdcTask
<1>2. ASSUME Sized(cdc'), cdc'.generation >= cdc.generation, AllOf(cdc'.rx, opened),
             Parted(cdc', usb.mounted, opened, heard.since, amid), UsbInv'
      PROVE  SessionInv'
  <2>1. WireInv'
    BY <1>1, <1>2, UsbFacts DEF WireInv, AnswersInSession
  <2>2. QED
    BY <1>1, <1>2, <2>1, UsbFacts, StackStep
<1>3. CASE Open
  <2>1. usb.mounted = TRUE /\ cdc.connected = TRUE /\ cdc.connected = Open
    BY <1>3, UsbFacts DEF Open, UsbInv, Sized, CdcType
  <2>2. PICK b : b = Bounded(cdc)
    OBVIOUS
  <2>3. cdc' = Flushed(b) \/ cdc' = cdc
    BY <1>3, <2>1, <2>2 DEF CdcTask
  <2>4. /\ Sized(b) /\ b.connected = cdc.connected /\ b.generation = cdc.generation
        /\ b.rx = cdc.rx /\ Parted(b, TRUE, opened, heard.since, amid)
    BY <2>1, <2>2, UsbFacts, BoundedIs, BoundedParted
  <2>5. /\ Sized(cdc') /\ cdc'.connected = cdc.connected /\ cdc'.generation = cdc.generation
        /\ cdc'.rx = cdc.rx
    BY <2>3, <2>4, UsbFacts, FlushedIs
  <2>6. Parted(cdc', usb.mounted, opened, heard.since, amid)
    <3>1. Parted(Flushed(b), TRUE, opened, heard.since, amid)
      BY <2>4, FlushedParted
    <3>2. Parted(cdc, TRUE, opened, heard.since, amid)
      BY <2>1, UsbFacts
    <3>3. QED
      BY <2>1, <2>3, <3>1, <3>2
  <2>7. UsbInv'
    BY <1>1, <2>5, UsbFacts DEF UsbInv
  <2>8. QED
    BY <1>2, <2>5, <2>6, <2>7, UsbFacts
<1>4. CASE ~Open /\ ~cdc.connected
  <2>1. cdc' = cdc
    BY <1>4, UsbFacts DEF CdcTask, Open, Sized, CdcType
  <2>2. UsbInv'
    BY <1>1, <2>1, UsbFacts DEF UsbInv
  <2>3. QED
    BY <1>2, <2>1, <2>2, UsbFacts
<1>5. CASE ~Open /\ cdc.connected
  <2>1. Open = FALSE /\ cdc.connected = TRUE
    BY <1>5, UsbFacts DEF Open, Sized, CdcType
  <2>2. cdc.generation <= MaxGeneration
    BY <1>5, UsbFacts DEF UsbInv
  <2>3. cdc' = Reset(cdc, FALSE)
    BY <2>1 DEF CdcTask
  <2>4. /\ Sized(cdc') /\ cdc'.connected = FALSE /\ cdc'.generation = cdc.generation + 1
        /\ cdc'.rx = <<>>
    BY <2>2, <2>3, UsbFacts, ResetIs
  <2>5. Parted(cdc', usb.mounted, opened, heard.since, amid)
    <3>1. /\ Sized(cdc) /\ Parted(cdc, usb.mounted, opened, heard.since, amid)
          /\ amid \subseteq amid /\ (usb.mounted => usb.mounted)
      BY UsbFacts
    <3>2. Parted(Reset(cdc, FALSE), usb.mounted, opened, heard.since, amid)
      BY <2>2, <3>1, ResetParted
    <3>3. QED
      BY <2>3, <3>2
  <2>6. UsbInv'
    BY <1>1, <2>1, <2>4, UsbFacts DEF UsbInv, Open
  <2>7. cdc'.generation >= cdc.generation
    BY <2>4, UsbFacts
  <2>8. QED
    BY <1>2, <2>4, <2>5, <2>6, <2>7, UsbFacts
<1>6. QED
  BY <1>3, <1>4, <1>5
-----------------------------------------------------------------------------
(* The USB sessions: the application.                                      *)

LEMMA Smallest ==
  ASSUME NEW S, S \subseteq Nat, S # {}
  PROVE  \E m \in S : \A n \in S : m <= n
<1>1. IsWellFoundedOn(OpToRel(<, Nat), Nat)
  BY NatLessThanWellFounded
<1>2. PICK m \in S : \A n \in S : ~(<<n, m>> \in OpToRel(<, Nat))
  BY <1>1, WFMin
<1>3. \A n \in S : ~(n < m)
  BY <1>2 DEF OpToRel
<1>4. \A n \in S : n \in Nat /\ m \in Nat
  OBVIOUS
<1>5. QED
  BY <1>3, <1>4

LEMMA AnswerIs ==
  ASSUME NEW s \in Sessions, NEW n \in 1 .. 2
  PROVE  /\ Answer(s, n) \in Seq(Pieces) /\ AllOf(Answer(s, n), s)
         /\ \A i \in 1 .. Len(Answer(s, n)) : ~IsBoundary(Answer(s, n)[i])
<1>1. PICK q : q = Answer(s, n)
  OBVIOUS
<1>2. \A i \in 1 .. n : Piece(s, IF i = n THEN "end" ELSE "part") \in Pieces
  BY PieceType
<1>3. q = [i \in 1 .. n |-> Piece(s, IF i = n THEN "end" ELSE "part")] /\ n \in Nat
  BY <1>1 DEF Answer
<1>4. q \in Seq(Pieces) /\ Len(q) = n
  <2>1. q \in [1 .. n -> Pieces]
    BY <1>2, <1>3
  <2>2. QED
    BY <1>3, <2>1
<1>5. \A i \in 1 .. n : q[i].of = s /\ ~IsBoundary(q[i])
  BY <1>3, PieceType
<1>6. QED
  BY <1>1, <1>4, <1>5 DEF AllOf

\* What the application keeps is of the session it knows.
Kept(a) ==
  /\ a \in AppType
  /\ AllOf(a.input, a.session) /\ a.partial \subseteq {a.session}
  /\ AllOf(a.out, a.session) /\ \A i \in 1 .. Len(a.out) : ~IsBoundary(a.out[i])

LEMMA AppFacts ==
  ASSUME SessionInv
  PROVE  /\ Kept(app) /\ Kept(Fresh) /\ Fresh.session = opened
         /\ Fresh.generation = cdc.generation
         /\ request \in [of : SUBSET Sessions, session : Sessions]
<1>1. Kept(app)
  BY DEF SessionInv, CdcTypeOK, AppInv, Kept, AppType
<1>2. Connected \in BOOLEAN
  BY UsbFacts DEF Connected, Open, Sized, CdcType
<1>3. <<>> \in Seq(Pieces) /\ 1 .. Len(<<>>) = {}
  OBVIOUS
<1>4. Fresh \in AppType
  BY <1>2, <1>3, UsbFacts DEF Fresh, AppType, Sized, CdcType
<1>5. Fresh.input = <<>> /\ Fresh.out = <<>> /\ Fresh.partial = {}
  BY DEF Fresh
<1>6. Kept(Fresh)
  BY <1>3, <1>4, <1>5 DEF Kept, AllOf
<1>7. QED
  BY <1>1, <1>6 DEF Fresh, SessionInv, CdcTypeOK

\* flush_protocol.
LEMMA LeftIs ==
  ASSUME NEW a, Kept(a), NEW c
  PROVE  LET b == Left(a, c)
         IN  Kept(b) /\ b.session = a.session /\ b.generation = a.generation
<1>1. CASE ~(a.out # <<>> /\ Accepts(c))
  BY <1>1 DEF Left
<1>2. CASE a.out # <<>> /\ Accepts(c)
  <2>1. PICK q : q = Tail(a.out)
    OBVIOUS
  <2>2. a.out \in Seq(Pieces)
    BY DEF Kept, AppType
  <2>3. q \in Seq(Pieces) /\ Len(q) = Len(a.out) - 1 /\ Len(a.out) \in Nat
        /\ \A i \in 1 .. Len(q) : q[i] = a.out[i + 1]
    BY <1>2, <2>1, <2>2
  <2>4. \A i \in 1 .. Len(q) : i + 1 \in 1 .. Len(a.out)
    BY <2>3
  <2>5. PICK b : b = [a EXCEPT !.out = q]
    OBVIOUS
  <2>6. /\ b \in AppType /\ b.session = a.session /\ b.generation = a.generation
        /\ b.input = a.input /\ b.partial = a.partial /\ b.out = q
    BY <2>3, <2>5 DEF Kept, AppType
  <2>7. \A i \in 1 .. Len(q) : q[i].of = a.session /\ ~IsBoundary(q[i])
    BY <2>3, <2>4 DEF Kept, AllOf
  <2>8. Left(a, c) = b
    BY <1>2, <2>1, <2>5 DEF Left, Kept, AppType
  <2>9. QED
    BY <2>6, <2>7, <2>8 DEF Kept, AllOf
<1>3. QED
  BY <1>1, <1>2

LEMMA SentIs ==
  ASSUME SessionInv, NEW a, Kept(a), Belongs(a.session, opened, amid)
  PROVE  LET d == Sent(a, cdc)
         IN  /\ Sized(d) /\ d.connected = cdc.connected /\ d.generation = cdc.generation
             /\ d.rx = cdc.rx /\ Parted(d, usb.mounted, opened, heard.since, amid)
<1>1. CASE a.out = <<>>
  BY <1>1, UsbFacts DEF Sent
<1>2. CASE a.out # <<>>
  <2>1. PICK piece : piece = Head(a.out)
    OBVIOUS
  <2>2. a.out \in Seq(Pieces)
    BY DEF Kept, AppType
  <2>3. piece = a.out[1] /\ piece \in Pieces /\ 1 \in 1 .. Len(a.out)
    BY <1>2, <2>1, <2>2
  <2>4. ~IsBoundary(piece) /\ Belongs(piece.of, opened, amid)
    BY <2>3 DEF Kept, AllOf
  <2>5. Sent(a, cdc) = Written(cdc, piece)
    BY <1>2, <2>1 DEF Sent
  <2>6. CdcTypeOK
    BY DEF SessionInv
  <2>7. QED
    BY <2>3, <2>4, <2>5, <2>6, UsbFacts, WrittenIs
<1>3. QED
  BY <1>1, <1>2

LEMMA Cut ==
  ASSUME NEW q \in Seq(Pieces), NEW s, AllOf(q, s), NEW k \in 0 .. Len(q)
  PROVE  /\ Len(SubSeq(q, 1, k)) = k /\ DOMAIN SubSeq(q, 1, k) = 1 .. k
         /\ AllOf(SubSeq(q, 1, k), s)
         /\ SubSeq(q, k + 1, Len(q)) \in Seq(Pieces) /\ AllOf(SubSeq(q, k + 1, Len(q)), s)
<1>1. PICK f, g : f = SubSeq(q, 1, k) /\ g = SubSeq(q, k + 1, Len(q))
  OBVIOUS
<1>2. Len(q) \in Nat /\ k \in Nat /\ k <= Len(q)
  OBVIOUS
<1>3. f \in Seq(Pieces) /\ Len(f) = k /\ \A i \in 1 .. k : f[i] = q[i]
  BY <1>1, <1>2
<1>4. DOMAIN f = 1 .. k
  BY <1>3
<1>5. /\ g \in Seq(Pieces) /\ Len(g) = Len(q) - k
      /\ \A i \in 1 .. Len(g) : g[i] = q[k + i]
  BY <1>1, <1>2
<1>6. \A i \in 1 .. k : i \in 1 .. Len(q)
  BY <1>2
<1>7. \A i \in 1 .. Len(g) : k + i \in 1 .. Len(q)
  BY <1>2, <1>5
<1>8. QED
  BY <1>1, <1>3, <1>4, <1>5, <1>6, <1>7 DEF AllOf

\* The bytes of a request are of the session its line is of.
LEMMA FeedIs ==
  ASSUME NEW a, Kept(a), Feed(a), request \in [of : SUBSET Sessions, session : Sessions],
         opened \in Sessions
  PROVE  /\ Kept(app') /\ app'.session = a.session /\ app'.generation = a.generation
         /\ pc' \in {"handle", "save"}
         /\ request' \in [of : SUBSET Sessions, session : Sessions]
         /\ pc' = "handle" => request'.of = {a.session} /\ request'.session = opened
<1> DEFINE ends == {i \in DOMAIN a.input : a.input[i].kind = "end"}
           final == CHOOSE i \in ends : \A j \in ends : i <= j
           line == IF ends = {} THEN a.input ELSE SubSeq(a.input, 1, final)
           rest == SubSeq(a.input, Len(line) + 1, Len(a.input))
           bytes == a.partial \cup SessionsOf(line)
<1>1. a.input \in Seq(Pieces) /\ Len(a.input) \in Nat /\ DOMAIN a.input = 1 .. Len(a.input)
      /\ a.session \in Sessions /\ AllOf(a.input, a.session) /\ a.partial \subseteq {a.session}
  BY DEF Kept, AppType
<1>2. ends # {} => final \in 1 .. Len(a.input)
  <2>1. ends \subseteq Nat /\ ends \subseteq 1 .. Len(a.input)
    BY <1>1
  <2>2. ends # {} => \E i \in ends : \A j \in ends : i <= j
    BY <2>1, Smallest
  <2>3. QED
    BY <2>1, <2>2
<1>3. PICK k \in 0 .. Len(a.input) :
        /\ ends = {} => k = Len(a.input) /\ line = a.input
        /\ ends # {} => k # 0 /\ line = SubSeq(a.input, 1, k)
  <2> HIDE DEF ends, final
  <2>1. CASE ends = {}
    BY <1>1, <2>1
  <2>2. CASE ends # {}
    <3>1. final \in 1 .. Len(a.input)
      BY <1>2, <2>2
    <3>2. final \in 0 .. Len(a.input) /\ final # 0 /\ line = SubSeq(a.input, 1, final)
      BY <1>1, <2>2, <3>1
    <3>3. QED
      BY <2>2, <3>2
  <2>3. QED
    BY <2>1, <2>2
<1>4. /\ rest = SubSeq(a.input, Len(line) + 1, Len(a.input))
      /\ bytes = a.partial \cup SessionsOf(line)
  OBVIOUS
<1>5. Feed(a) <=>
        IF a.out # <<>> THEN app' = a /\ pc' = "save" /\ UNCHANGED request
        ELSE IF ends = {} THEN
          /\ app' = [a EXCEPT !.input = <<>>, !.partial = IF a.discarding THEN {} ELSE bytes]
          /\ pc' = "save" /\ UNCHANGED request
        ELSE IF a.discarding THEN
          /\ app' = [a EXCEPT !.input = rest, !.discarding = FALSE, !.out = Answer(a.session, 1)]
          /\ pc' = "save" /\ UNCHANGED request
        ELSE
          /\ app' = [a EXCEPT !.input = rest, !.partial = {}]
          /\ pc' = "handle" /\ request' = [of |-> bytes, session |-> opened]
  BY DEF Feed
<1> HIDE DEF ends, final, line, rest, bytes
<1>6. /\ Len(line) = k /\ DOMAIN line = 1 .. k /\ AllOf(line, a.session)
      /\ rest \in Seq(Pieces) /\ AllOf(rest, a.session) /\ (ends # {} => 1 \in 1 .. k)
  <2>1. /\ ends = {} => k = Len(a.input) /\ line = a.input
        /\ ends # {} => k # 0 /\ line = SubSeq(a.input, 1, k)
    BY <1>3
  <2>2. Len(line) = k /\ DOMAIN line = 1 .. k /\ AllOf(line, a.session)
    <3>1. CASE ends = {}
      BY <1>1, <2>1, <3>1
    <3>2. CASE ends # {}
      <4>1. /\ Len(SubSeq(a.input, 1, k)) = k /\ DOMAIN SubSeq(a.input, 1, k) = 1 .. k
            /\ AllOf(SubSeq(a.input, 1, k), a.session)
        BY <1>1, Cut
      <4>2. QED
        BY <2>1, <3>2, <4>1
    <3>3. QED
      BY <3>1, <3>2
  <2>3. rest = SubSeq(a.input, k + 1, Len(a.input))
    BY <1>4, <2>2
  <2>4. rest \in Seq(Pieces) /\ AllOf(rest, a.session)
    BY <1>1, <2>3, Cut
  <2>5. ends # {} => 1 \in 1 .. k
    BY <1>1, <2>1
  <2>6. QED
    BY <2>2, <2>4, <2>5
<1>7. bytes \subseteq {a.session} /\ (ends # {} => bytes = {a.session})
  <2>1. \A i \in 1 .. k : line[i].of = a.session
    BY <1>6 DEF AllOf
  <2>2. SessionsOf(line) \subseteq {a.session}
    BY <1>6, <2>1 DEF SessionsOf
  <2>3. ends # {} => a.session \in SessionsOf(line)
    BY <1>6, <2>1 DEF SessionsOf
  <2>4. QED
    BY <1>1, <1>4, <2>2, <2>3
<1>8. CASE a.out # <<>>
  BY <1>5, <1>8
<1>9. CASE a.out = <<>> /\ ends = {}
  <2>1. PICK r \in {{}, bytes} : app' = [a EXCEPT !.input = <<>>, !.partial = r]
    BY <1>5, <1>9
  <2>2. <<>> \in Seq(Pieces) /\ 1 .. Len(<<>>) = {} /\ r \subseteq {a.session}
    BY <1>7, <2>1
  <2>3. /\ app' \in AppType /\ app'.session = a.session /\ app'.generation = a.generation
        /\ app'.input = <<>> /\ app'.partial = r /\ app'.out = a.out
    BY <1>1, <2>1, <2>2 DEF Kept, AppType
  <2>4. Kept(app')
    BY <2>2, <2>3 DEF Kept, AllOf
  <2>5. QED
    BY <1>5, <1>9, <2>3, <2>4
<1>10. CASE a.out = <<>> /\ ends # {} /\ a.discarding
  <2>1. PICK o : o = Answer(a.session, 1)
    OBVIOUS
  <2>2. app' = [a EXCEPT !.input = rest, !.discarding = FALSE, !.out = o]
    BY <1>5, <1>10, <2>1
  <2>3. o \in Seq(Pieces) /\ AllOf(o, a.session) /\ \A i \in 1 .. Len(o) : ~IsBoundary(o[i])
    BY <1>1, <2>1, AnswerIs
  <2>4. /\ app' \in AppType /\ app'.session = a.session /\ app'.generation = a.generation
        /\ app'.input = rest /\ app'.partial = a.partial /\ app'.out = o
    BY <1>6, <2>2, <2>3 DEF Kept, AppType
  <2>5. Kept(app')
    BY <1>1, <1>6, <2>3, <2>4 DEF Kept
  <2>6. QED
    BY <1>5, <1>10, <2>4, <2>5
<1>11. CASE a.out = <<>> /\ ends # {} /\ ~a.discarding
  <2>1. /\ app' = [a EXCEPT !.input = rest, !.partial = {}] /\ pc' = "handle"
        /\ request' = [of |-> bytes, session |-> opened]
    BY <1>5, <1>11
  <2>2. /\ app' \in AppType /\ app'.session = a.session /\ app'.generation = a.generation
        /\ app'.input = rest /\ app'.partial = {} /\ app'.out = a.out
    BY <1>6, <2>1 DEF Kept, AppType
  <2>3. Kept(app')
    BY <1>6, <2>2 DEF Kept
  <2>4. bytes = {a.session} /\ bytes \in SUBSET Sessions
    BY <1>1, <1>7, <1>11
  <2>5. QED
    BY <2>1, <2>2, <2>3, <2>4
<1>12. QED
  BY <1>8, <1>9, <1>10, <1>11

\* The loop's own steps leave the sessions of the host as they are.
LEMMA LoopStep ==
  ASSUME SessionInv, UNCHANGED <<usb, opened, heard, amid>>, busy' \in BOOLEAN,
         pc' \in {"usb", "handle", "save"}, Sized(cdc'),
         cdc'.connected = cdc.connected, cdc'.generation = cdc.generation,
         AllOf(cdc'.rx, opened), Parted(cdc', usb.mounted, opened, heard.since, amid),
         Kept(app'), app'.generation <= cdc.generation,
         app'.generation = cdc.generation => app'.session = opened,
         request' \in [of : SUBSET Sessions, session : Sessions],
         pc' = "handle" => request'.session = app'.session /\ request'.of = {app'.session},
         pc' # "usb" => Belongs(app'.session, opened, amid)
  PROVE  SessionInv'
<1>1. CdcTypeOK'
  BY UsbFacts DEF CdcTypeOK, Sized, CdcType, Kept, AppType
<1>2. UsbInv'
  BY UsbFacts DEF UsbInv
<1>3. WireInv'
  BY UsbFacts DEF WireInv, AnswersInSession
<1>4. AppInv'
  BY DEF AppInv, Kept
<1>5. QED
  BY <1>1, <1>2, <1>3, <1>4 DEF SessionInv

LEMMA ProtocolInputStep ==
  ASSUME SessionInv, ProtocolInput
  PROVE  SessionInv'
<1>1. UNCHANGED <<usb, opened, busy, heard, amid>> /\ busy \in BOOLEAN /\ pc = "usb"
  BY DEF ProtocolInput, SessionInv, CdcTypeOK
<1>2. PICK a0 : a0 = IF Changed(app) THEN Fresh ELSE app
  OBVIOUS
<1>3. Kept(a0) /\ a0.session = opened /\ a0.generation = cdc.generation
  <2>1. CASE Changed(app)
    BY <1>2, <2>1, AppFacts
  <2>2. CASE ~Changed(app)
    BY <1>2, <2>2, AppFacts DEF Changed, SessionInv, AppInv
  <2>3. QED
    BY <2>1, <2>2
<1>4. PICK a1 : a1 = Left(a0, cdc)
  OBVIOUS
<1>5. PICK c1 : c1 = Sent(a0, cdc)
  OBVIOUS
<1>6. Kept(a1) /\ a1.session = opened /\ a1.generation = cdc.generation
  BY <1>3, <1>4, LeftIs
<1>7. Belongs(opened, opened, amid)
  BY DEF Belongs
<1>8. /\ Sized(c1) /\ c1.connected = cdc.connected /\ c1.generation = cdc.generation
      /\ c1.rx = cdc.rx /\ Parted(c1, usb.mounted, opened, heard.since, amid)
  BY <1>3, <1>5, <1>7, SentIs
<1>9. CASE ~Connected
  <2>1. app' = a0 /\ pc' = "save" /\ UNCHANGED <<cdc, request>>
    BY <1>2, <1>9 DEF ProtocolInput
  <2>2. cdc.generation <= cdc.generation
    BY UsbFacts
  <2>3. QED
    BY <1>1, <1>3, <1>7, <2>1, <2>2, UsbFacts, AppFacts, LoopStep
<1>10. CASE Connected
  <2>1. PICK reads : reads = (a1.input = <<>> /\ ~usb.suspended)
    OBVIOUS
  <2>2. PICK a2 : a2 = IF reads THEN [a1 EXCEPT !.input = c1.rx] ELSE a1
    OBVIOUS
  <2>3. Feed(a2) /\ cdc' = IF reads THEN [c1 EXCEPT !.rx = <<>>] ELSE c1
    BY <1>2, <1>4, <1>5, <1>10, <2>1, <2>2 DEF ProtocolInput
  <2>4. Kept(a2) /\ a2.session = opened /\ a2.generation = cdc.generation
    <3>1. CASE reads
      <4>1. a2 = [a1 EXCEPT !.input = c1.rx] /\ c1.rx \in Seq(Pieces) /\ AllOf(c1.rx, opened)
        BY <1>8, <2>2, <3>1, UsbFacts DEF Sized, CdcType
      <4>2. /\ a2 \in AppType /\ a2.session = a1.session /\ a2.generation = a1.generation
            /\ a2.input = c1.rx /\ a2.partial = a1.partial /\ a2.out = a1.out
        BY <1>6, <4>1 DEF Kept, AppType
      <4>3. QED
        BY <1>6, <4>1, <4>2 DEF Kept
    <3>2. CASE ~reads
      BY <1>6, <2>2, <3>2
    <3>3. QED
      BY <3>1, <3>2
  <2>5. /\ Sized(cdc') /\ cdc'.connected = cdc.connected /\ cdc'.generation = cdc.generation
        /\ AllOf(cdc'.rx, opened) /\ Parted(cdc', usb.mounted, opened, heard.since, amid)
    <3>1. CASE reads
      <4>1. cdc' = [c1 EXCEPT !.rx = <<>>]
        BY <2>3, <3>1
      <4>2. <<>> \in Seq(Pieces) /\ Len(<<>>) = 0 /\ 0 \in 0 .. Fifo
        BY CdcAssumption
      <4>3. /\ Sized(cdc') /\ cdc'.connected = c1.connected /\ cdc'.generation = c1.generation
            /\ cdc'.rx = <<>> /\ cdc'.boundary = c1.boundary /\ cdc'.tx = c1.tx
            /\ cdc'.packet = c1.packet
        BY <1>8, <4>1, <4>2 DEF Sized, CdcType
      <4>4. Parted(cdc', usb.mounted, opened, heard.since, amid)
        BY <1>8, <4>3, PartedSame
      <4>5. QED
        BY <1>8, <4>3, <4>4, UsbFacts
    <3>2. CASE ~reads
      BY <1>8, <2>3, <3>2, UsbFacts
    <3>3. QED
      BY <3>1, <3>2
  <2>6. /\ Kept(app') /\ app'.session = opened /\ app'.generation = cdc.generation
        /\ pc' \in {"handle", "save"}
        /\ request' \in [of : SUBSET Sessions, session : Sessions]
        /\ pc' = "handle" => request'.of = {opened} /\ request'.session = opened
    BY <2>3, <2>4, UsbFacts, AppFacts, FeedIs
  <2>7. cdc.generation <= cdc.generation
    BY UsbFacts
  <2>8. QED
    BY <1>1, <1>7, <2>5, <2>6, <2>7, LoopStep
<1>11. QED
  BY <1>9, <1>10

\* An answer is written where there was none.
LEMMA AnsweredIs ==
  ASSUME NEW a, Kept(a), NEW n \in 1 .. 2, NEW p \in {{}, a.partial}, NEW d \in BOOLEAN
  PROVE  LET b == [a EXCEPT !.partial = p, !.discarding = d, !.out = Answer(a.session, n)]
         IN  /\ Kept(b) /\ b.session = a.session /\ b.generation = a.generation
             /\ b.connected = a.connected
<1>1. PICK o : o = Answer(a.session, n)
  OBVIOUS
<1>2. a.session \in Sessions
  BY DEF Kept, AppType
<1>3. o \in Seq(Pieces) /\ AllOf(o, a.session) /\ \A i \in 1 .. Len(o) : ~IsBoundary(o[i])
  BY <1>1, <1>2, AnswerIs
<1>4. PICK b : b = [a EXCEPT !.partial = p, !.discarding = d, !.out = o]
  OBVIOUS
<1>5. /\ b \in AppType /\ b.session = a.session /\ b.generation = a.generation
      /\ b.connected = a.connected /\ b.input = a.input /\ b.partial = p /\ b.out = o
  BY <1>3, <1>4 DEF Kept, AppType
<1>6. Kept(b)
  BY <1>3, <1>5 DEF Kept
<1>7. QED
  BY <1>1, <1>4, <1>5, <1>6

LEMMA HandledStep ==
  ASSUME SessionInv, Handled
  PROVE  SessionInv'
<1>1. pc = "handle" /\ pc' = "save" /\ UNCHANGED <<usb, opened, cdc, busy, heard, amid>>
      /\ busy \in BOOLEAN /\ request' = [of |-> {}, session |-> 0]
  BY DEF Handled, SessionInv, CdcTypeOK
<1>2. PICK n \in 1 .. 2 : app' = [app EXCEPT !.out = Answer(request.session, n)]
  BY DEF Handled
<1>3. request.session = app.session /\ Belongs(app.session, opened, amid)
      /\ app.generation <= cdc.generation
      /\ (app.generation = cdc.generation => app.session = opened)
  BY <1>1 DEF SessionInv, AppInv
<1>4. Kept(app) /\ app.discarding \in BOOLEAN
  BY AppFacts DEF Kept, AppType
<1>5. app' = [app EXCEPT !.partial = app.partial, !.discarding = app.discarding,
                         !.out = Answer(app.session, n)]
  BY <1>2, <1>3, <1>4 DEF Kept, AppType
<1>6. Kept(app') /\ app'.session = app.session /\ app'.generation = app.generation
  BY <1>4, <1>5, AnsweredIs
<1>7. 0 \in Sessions
  BY CdcAssumption DEF Sessions
<1>8. request' \in [of : SUBSET Sessions, session : Sessions]
  BY <1>1, <1>7
<1>9. QED
  BY <1>1, <1>3, <1>6, <1>8, UsbFacts, LoopStep

LEMMA TickStep ==
  ASSUME SessionInv, Tick
  PROVE  SessionInv'
<1>1. pc = "save" /\ pc' = "usb" /\ busy' = TRUE
      /\ UNCHANGED <<usb, opened, request, heard, amid>>
  BY DEF Tick
<1>2. PICK a \in Ticked(app) : /\ app' = IF a.connected THEN Left(a, cdc) ELSE a
                               /\ cdc' = IF a.connected THEN Sent(a, cdc) ELSE cdc
  BY DEF Tick
<1>3. Belongs(app.session, opened, amid) /\ app.generation <= cdc.generation
      /\ (app.generation = cdc.generation => app.session = opened)
  BY <1>1 DEF SessionInv, AppInv
<1>4. Kept(app) /\ app.discarding \in BOOLEAN /\ app \in AppType
  BY AppFacts DEF Kept, AppType
<1>5. Kept(a) /\ a.session = app.session /\ a.generation = app.generation
  <2>1. \/ a = app
        \/ a = [app EXCEPT !.partial = {}, !.discarding = TRUE, !.out = Answer(app.session, 1)]
        \/ \E n \in 1 .. 2 : a = [app EXCEPT !.out = Answer(app.session, n)]
    BY <1>2 DEF Ticked
  <2>2. CASE a = app
    BY <1>4, <2>2
  <2>3. CASE a = [app EXCEPT !.partial = {}, !.discarding = TRUE, !.out = Answer(app.session, 1)]
    <3>1. a = [app EXCEPT !.partial = {}, !.discarding = TRUE, !.out = Answer(app.session, 1)]
          /\ 1 \in 1 .. 2 /\ {} \in {{}, app.partial} /\ TRUE \in BOOLEAN
      BY <2>3
    <3>2. QED
      BY <1>4, <3>1, AnsweredIs
  <2>4. CASE \E n \in 1 .. 2 : a = [app EXCEPT !.out = Answer(app.session, n)]
    <3>1. PICK n \in 1 .. 2 : a = [app EXCEPT !.out = Answer(app.session, n)]
      BY <2>4
    <3>2. a = [app EXCEPT !.partial = app.partial, !.discarding = app.discarding,
                          !.out = Answer(app.session, n)]
      BY <1>4, <3>1 DEF AppType
    <3>3. QED
      BY <1>4, <3>2, AnsweredIs
  <2>5. QED
    BY <2>1, <2>2, <2>3, <2>4
<1>6. Kept(app') /\ app'.session = app.session /\ app'.generation = app.generation
  BY <1>2, <1>5, LeftIs
<1>7. /\ Sized(cdc') /\ cdc'.connected = cdc.connected /\ cdc'.generation = cdc.generation
      /\ cdc'.rx = cdc.rx /\ Parted(cdc', usb.mounted, opened, heard.since, amid)
  BY <1>2, <1>3, <1>5, UsbFacts, SentIs
<1>8. QED
  BY <1>1, <1>3, <1>6, <1>7, UsbFacts, AppFacts, LoopStep

LEMMA SessionInit ==
  ASSUME CdcInit
  PROVE  SessionInv
<1>1. /\ 0 \in Sessions /\ Fifo \in Nat /\ 0 \in 0 .. Fifo /\ 0 \in 0 .. (MaxGeneration + 1)
      /\ MaxGeneration \in Nat
  BY CdcAssumption DEF Sessions
<1>2. <<>> \in Seq(Pieces) /\ Len(<<>>) = 0 /\ 1 .. Len(<<>>) = {}
  OBVIOUS
<1>3. CdcTypeOK
  BY <1>1, <1>2 DEF CdcInit, CdcTypeOK
<1>4. UsbInv
  BY <1>1 DEF CdcInit, UsbInv
<1>5. WireInv
  BY <1>2 DEF CdcInit, WireInv, AnswersInSession, Parted, Front
<1>6. AppInv
  BY <1>2 DEF CdcInit, AppInv, AllOf
<1>7. QED
  BY <1>3, <1>4, <1>5, <1>6 DEF SessionInv

LEMMA SessionNext ==
  ASSUME SessionInv, [CdcNext]_cdcVars
  PROVE  SessionInv'
<1>1. CASE UNCHANGED cdcVars
  BY <1>1 DEF cdcVars, SessionInv, CdcTypeOK, UsbInv, WireInv, AnswersInSession, AppInv
<1>2. CASE CdcNext
  BY <1>2, LineStateStep, BusResetStep, ConfiguredStep, UnpluggedStep, SuspendOrResumeStep,
     ArrivesStep, DeliveredStep, CdcTaskStep, ProtocolInputStep, HandledStep, TickStep
     DEF CdcNext
<1>3. QED
  BY <1>1, <1>2

\* A request is made of bytes of one session and executed in it, and what a session gets
\* after its newline is of that session, but for one that begins while the loop works
\* (cdc_session.c:26, application.c:131-138), for any number of sessions and any size of
\* the queues.
THEOREM SessionsAlwaysApart == CdcSpec => []SessionsApart
<1>1. SessionInv => SessionsApart
  BY DEF SessionInv, WireInv, AppInv, SessionsApart, RequestsOwn
<1>2. CdcInit => SessionInv
  BY SessionInit
<1>3. SessionInv /\ [CdcNext]_cdcVars => SessionInv'
  BY SessionNext
<1>4. QED
  BY <1>1, <1>2, <1>3, PTL DEF CdcSpec

-----------------------------------------------------------------------------
(* A foot switch: the invariant.                                           *)

\* When a tap was made tells when the window for a second one ends.
PastIs(age) == IF age < Window THEN Span - Window + age ELSE 0

\* A tap is pending no longer than its window, but for one whose binding was edited.
TapInv ==
  /\ switch.pending /\ taps.age <= Window => switch.past = PastIs(taps.age)
  /\ switch.pending /\ ~taps.edited => taps.age <= Window /\ mode = "double_tap"
  /\ TapsFit

\* What a switch that is held has fired, and what it keeps of it.
Holding ==
  /\ mode \in {"tap", "momentary"} => gesture.out = One("press")
  /\ mode \in Latching => gesture.out = One(IF switch.latched THEN "on" ELSE "off")
  /\ mode = "hold" => switch.latched # switch.before /\ switch.held = gesture.time
  /\ mode = "long_press_alt" =>
       /\ switch.held = gesture.time /\ (switch.fired <=> gesture.time >= LongPress)
       /\ gesture.out = IF switch.fired THEN One("long") ELSE <<>>
HeldOver ==
  /\ gesture.mode = "reset" /\ gesture.out = <<>>
  /\ switch.fired /\ ~switch.pending /\ switch.latched = switch.before
HoldInv ==
  /\ GestureFits
  /\ ~switch.stable => gesture.mode = "none" \/ HeldOver \/ (gesture.mode = mode /\ Holding)

SwitchInv == SwitchTypeOK /\ TapInv /\ HoldInv
-----------------------------------------------------------------------------
(* A foot switch: what its functions do to its record.                     *)

SwitchType == [high : BOOLEAN, stable : BOOLEAN, fired : BOOLEAN, latched : BOOLEAN,
               before : BOOLEAN, pending : BOOLEAN, still : 0..Debounce, held : 0..Long,
               past : 0..(Span - 1), out : SUBSET Triggers]

\* All but the contact and the triggers.
Rest(s, d) ==
  /\ d.fired = s.fired /\ d.latched = s.latched /\ d.before = s.before
  /\ d.pending = s.pending /\ d.held = s.held /\ d.past = s.past
Contact(s, d) == d.high = s.high /\ d.stable = s.stable

LEMMA Limits ==
  /\ {Span, Debounce, Window, LongPress, HoldTime, MaxLate, Long} \subseteq Nat \ {0}
  /\ LongPress <= Long /\ HoldTime <= Long /\ 2 * (Window + MaxLate) < Span
  /\ 2 * MaxLate < Span /\ 2 * Window < Span /\ Span - Window \in 0 .. (Span - 1)
  /\ Window + 1 \in Nat
BY SwitchAssumption DEF Long

LEMMA OlderIs ==
  ASSUME NEW limit \in Nat, NEW age \in 0 .. limit, NEW t \in Nat
  PROVE  /\ Older(age, t, limit) \in 0 .. limit
         /\ \A n \in 0 .. limit : Older(age, t, limit) >= n <=> age + t >= n
         /\ age + t < limit => Older(age, t, limit) = age + t
BY DEF Older

\* The clock wraps.
LEMMA WrapIs ==
  ASSUME NEW x \in 0 .. (Span - 1), NEW t \in 0 .. MaxLate
  PROVE  (x + t) % Span = IF x + t < Span THEN x + t ELSE x + t - Span
<1>1. Span \in Nat \ {0} /\ MaxLate \in Nat /\ 2 * MaxLate < Span
  BY Limits
<1>2. CASE x + t < Span
  BY <1>1, <1>2
<1>3. CASE x + t >= Span
  <2>1. PICK y \in Nat : y = x + t /\ Span <= y /\ y < 2 * Span
    BY <1>1, <1>3
  <2>2. PICK n \in Nat : n = Span /\ n > 0
    BY <1>1
  <2>3. y % n = y - n
    BY <2>1, <2>2
  <2>4. QED
    BY <1>1, <1>3, <2>1, <2>2, <2>3
<1>4. QED
  BY <1>1, <1>2, <1>3

LEMMA LaterIs ==
  ASSUME NEW s \in SwitchType, NEW t \in 0 .. MaxLate, NEW d, d = Later(s, t)
  PROVE  /\ d \in SwitchType /\ Contact(s, d) /\ d.out = {} /\ d.held = Older(s.held, t, Long)
         /\ d.fired = s.fired /\ d.latched = s.latched /\ d.before = s.before
         /\ d.pending = s.pending
         /\ s.pending => d.past = IF s.past + t < Span THEN s.past + t ELSE s.past + t - Span
<1>1. t \in Nat /\ Debounce \in Nat /\ Long \in Nat /\ Span \in Nat \ {0} /\ t < Span
  BY Limits
<1>2. s.still \in 0 .. Debounce /\ s.held \in 0 .. Long /\ s.past \in 0 .. (Span - 1)
  BY DEF SwitchType
<1>3. PICK a \in 0 .. Debounce : a = Older(s.still, t, Debounce)
  BY <1>1, <1>2, OlderIs
<1>4. PICK b \in 0 .. Long : b = Older(s.held, t, Long)
  BY <1>1, <1>2, OlderIs
<1>5. (s.past + t) % Span = IF s.past + t < Span THEN s.past + t ELSE s.past + t - Span
  BY <1>2, WrapIs
<1>6. PICK c \in 0 .. (Span - 1) : c = IF s.pending THEN (s.past + t) % Span ELSE 0
  BY <1>1, <1>2, <1>5
<1>7. d = [s EXCEPT !.still = a, !.held = b, !.past = c, !.out = {}]
  BY <1>3, <1>4, <1>6 DEF Later, SwitchType
<1>8. /\ d \in SwitchType /\ Contact(s, d) /\ d.out = {} /\ d.held = b /\ d.past = c
      /\ d.fired = s.fired /\ d.latched = s.latched /\ d.before = s.before
      /\ d.pending = s.pending
  BY <1>7 DEF SwitchType, Contact
<1>9. QED
  BY <1>4, <1>5, <1>6, <1>8

LEMMA FireIs ==
  ASSUME NEW s \in SwitchType, NEW x \in Triggers, NEW d, d = Fire(s, x)
  PROVE  d \in SwitchType /\ Contact(s, d) /\ Rest(s, d) /\ d.out = s.out \cup {x}
BY DEF Fire, SwitchType, Contact, Rest

LEMMA LatchIs ==
  ASSUME NEW s \in SwitchType, NEW on \in BOOLEAN, NEW d, d = Latch(s, on)
  PROVE  /\ d \in SwitchType /\ Contact(s, d) /\ d.latched = on
         /\ d.out = s.out \cup {IF on THEN "on" ELSE "off"}
         /\ d.fired = s.fired /\ d.before = s.before /\ d.pending = s.pending
         /\ d.held = s.held /\ d.past = s.past
<1>1. PICK c : c = [s EXCEPT !.latched = on]
  OBVIOUS
<1>2. /\ c \in SwitchType /\ c.latched = on /\ Contact(s, c) /\ c.out = s.out
      /\ c.fired = s.fired /\ c.before = s.before /\ c.pending = s.pending
      /\ c.held = s.held /\ c.past = s.past
  BY <1>1 DEF SwitchType, Contact
<1>3. PICK x \in Triggers : x = IF on THEN "on" ELSE "off"
  BY DEF Triggers
<1>4. d = Fire(c, x)
  BY <1>1, <1>3 DEF Latch
<1>5. QED
  BY <1>2, <1>3, <1>4, FireIs DEF Contact, Rest

LEMMA PressIs ==
  ASSUME NEW s \in SwitchType, NEW m \in Modes, NEW d, d = Press(s, m)
  PROVE  /\ d \in SwitchType /\ Contact(s, d)
         /\ m # "double_tap" => d.pending = s.pending /\ d.past = s.past
         /\ m # "double_tap" /\ "double" \in d.out => "double" \in s.out
         /\ m \in {"tap", "momentary"} => d.out = s.out \cup {"press"}
         /\ m \in Latching => /\ d.latched # d.before /\ d.held = 0
                              /\ d.out = s.out \cup {IF d.latched THEN "on" ELSE "off"}
         /\ m = "long_press_alt" => d.held = 0 /\ ~d.fired /\ d.out = s.out
         /\ m = "double_tap" /\ InWindow(s) =>
              ~d.pending /\ d.past = s.past /\ d.out = s.out \cup {"double"}
         /\ m = "double_tap" /\ ~InWindow(s) =>
              d.pending /\ d.past = Span - Window /\ d.out = s.out
<1>0. 0 \in 0 .. Long
  BY Limits
<1>1. m \in {"tap", "momentary"} \/ m \in Latching \/ m = "long_press_alt" \/ m = "double_tap"
  BY DEF Modes, Latching
<1>2. CASE m \in {"tap", "momentary"}
  <2>1. d = Fire(s, "press") /\ "press" \in Triggers
    BY <1>2 DEF Press, Triggers, Latching
  <2>2. QED
    BY <1>2, <2>1, FireIs DEF Rest, Latching
<1>3. CASE m \in Latching
  <2>1. PICK c : c = [s EXCEPT !.before = s.latched, !.held = 0]
    OBVIOUS
  <2>2. c \in SwitchType /\ Contact(s, c) /\ c.before = s.latched /\ c.held = 0
        /\ c.pending = s.pending /\ c.past = s.past /\ c.out = s.out
    BY <1>0, <2>1 DEF SwitchType, Contact
  <2>3. PICK on \in BOOLEAN : on = ~s.latched
    OBVIOUS
  <2>4. d = Latch(c, on)
    BY <1>3, <2>1, <2>3 DEF Press, Latching
  <2>5. /\ d \in SwitchType /\ Contact(c, d) /\ d.latched = on
        /\ d.out = c.out \cup {IF on THEN "on" ELSE "off"}
        /\ d.before = c.before /\ d.pending = c.pending /\ d.held = c.held /\ d.past = c.past
    BY <2>2, <2>4, LatchIs
  <2>6. d.latched # d.before
    BY <2>2, <2>3, <2>5 DEF SwitchType
  <2>7. QED
    BY <1>3, <2>2, <2>5, <2>6 DEF Contact, Latching
<1>4. CASE m = "long_press_alt"
  <2>1. d = [s EXCEPT !.held = 0, !.fired = FALSE]
    BY <1>4 DEF Press, Latching
  <2>2. /\ d \in SwitchType /\ Contact(s, d) /\ d.held = 0 /\ ~d.fired /\ d.out = s.out
        /\ d.pending = s.pending /\ d.past = s.past
    BY <1>0, <2>1 DEF SwitchType, Contact
  <2>3. QED
    BY <1>4, <2>2 DEF Latching
<1>5. CASE m = "double_tap" /\ InWindow(s)
  <2>1. PICK c : c = [s EXCEPT !.pending = FALSE]
    OBVIOUS
  <2>2. c \in SwitchType /\ Contact(s, c) /\ ~c.pending /\ c.past = s.past /\ c.out = s.out
    BY <2>1 DEF SwitchType, Contact
  <2>3. d = Fire(c, "double") /\ "double" \in Triggers
    BY <1>5, <2>1 DEF Press, Latching, Triggers
  <2>4. d \in SwitchType /\ Contact(c, d) /\ Rest(c, d) /\ d.out = c.out \cup {"double"}
    BY <2>2, <2>3, FireIs
  <2>5. QED
    BY <1>5, <2>2, <2>4 DEF Contact, Rest, Latching
<1>6. CASE m = "double_tap" /\ ~InWindow(s)
  <2>1. d = [s EXCEPT !.pending = TRUE, !.past = Span - Window]
    BY <1>6 DEF Press, Latching
  <2>2. PICK x \in 0 .. (Span - 1) : x = Span - Window
    BY Limits
  <2>3. d \in SwitchType /\ Contact(s, d) /\ d.pending /\ d.past = x /\ d.out = s.out
    BY <2>1, <2>2 DEF SwitchType, Contact
  <2>4. QED
    BY <1>6, <2>2, <2>3 DEF Latching
<1>7. QED
  BY <1>1, <1>2, <1>3, <1>4, <1>5, <1>6

LEMMA ReleaseIs ==
  ASSUME NEW s \in SwitchType, NEW m \in Modes, NEW d, d = Release(s, m)
  PROVE  /\ d \in SwitchType /\ Contact(s, d) /\ d.pending = s.pending /\ d.past = s.past
         /\ "double" \in d.out => "double" \in s.out
         /\ m \in {"tap", "latched", "double_tap"} => d = s
         /\ m = "momentary" => d.out = s.out \cup {"release"}
         /\ m = "long_press_alt" /\ ~s.fired /\ s.held < LongPress => d.out = s.out \cup {"press"}
         /\ m = "long_press_alt" /\ (s.fired \/ s.held >= LongPress) => d = s
         /\ m = "hold" /\ s.held >= HoldTime /\ s.latched # s.before =>
              d.out = s.out \cup {IF s.latched THEN "off" ELSE "on"}
         /\ m = "hold" /\ (s.held < HoldTime \/ s.latched = s.before) => d = s
<1>1. Contact(s, s) /\ s.held \in Nat /\ LongPress \in Nat /\ HoldTime \in Nat
  BY Limits DEF Contact, SwitchType
<1>2. CASE m \in {"tap", "latched", "double_tap"}
  <2>1. d = s
    BY <1>2 DEF Release
  <2>2. QED
    BY <1>1, <1>2, <2>1
<1>3. CASE m = "momentary"
  <2>1. d = Fire(s, "release") /\ "release" \in Triggers
    BY <1>3 DEF Release, Triggers
  <2>2. QED
    BY <1>3, <2>1, FireIs DEF Rest
<1>4. CASE m = "long_press_alt" /\ ~s.fired /\ s.held < LongPress
  <2>1. d = Fire(s, "press") /\ "press" \in Triggers
    BY <1>4 DEF Release, Triggers
  <2>2. d \in SwitchType /\ Contact(s, d) /\ Rest(s, d) /\ d.out = s.out \cup {"press"}
    BY <2>1, FireIs
  <2>3. ~(s.held >= LongPress)
    BY <1>1, <1>4
  <2>4. QED
    BY <1>4, <2>2, <2>3 DEF Rest
<1>5. CASE m = "long_press_alt" /\ (s.fired \/ s.held >= LongPress)
  <2>1. ~(~s.fired /\ s.held < LongPress)
    BY <1>1, <1>5
  <2>2. d = s
    BY <1>5, <2>1 DEF Release
  <2>3. QED
    BY <1>1, <1>5, <2>1, <2>2
<1>6. CASE m = "hold" /\ s.held >= HoldTime /\ s.latched # s.before
  <2>1. PICK on \in BOOLEAN : on = s.before
    BY DEF SwitchType
  <2>2. d = Latch(s, on)
    BY <1>6, <2>1 DEF Release
  <2>3. /\ d \in SwitchType /\ Contact(s, d) /\ d.out = s.out \cup {IF on THEN "on" ELSE "off"}
        /\ d.pending = s.pending /\ d.past = s.past
    BY <2>2, LatchIs
  <2>4. (IF on THEN "on" ELSE "off") = IF s.latched THEN "off" ELSE "on"
    BY <1>6, <2>1 DEF SwitchType
  <2>5. ~(s.held < HoldTime)
    BY <1>1, <1>6
  <2>6. QED
    BY <1>6, <2>3, <2>4, <2>5
<1>7. CASE m = "hold" /\ (s.held < HoldTime \/ s.latched = s.before)
  <2>1. ~(s.held >= HoldTime /\ s.latched # s.before)
    BY <1>1, <1>7
  <2>2. d = s
    BY <1>7, <2>1 DEF Release
  <2>3. QED
    BY <1>1, <1>7, <2>1, <2>2
<1>8. CASE m \notin {"tap", "latched", "double_tap", "momentary", "long_press_alt", "hold"}
  BY <1>8 DEF Modes
<1>9. QED
  BY <1>1, <1>2, <1>3, <1>4, <1>5, <1>6, <1>7, <1>8

\* The debounced contact stays, or goes down or up.
LEMMA EdgeIs ==
  ASSUME NEW s \in SwitchType, NEW m \in Modes, NEW high \in BOOLEAN
  PROVE  \E v \in SwitchType :
           /\ Rest(s, v) /\ v.out = s.out
           /\ \/ v.stable = s.stable /\ Edge(s, m, high) = v
              \/ s.stable /\ ~v.stable /\ Edge(s, m, high) = Press(v, m)
              \/ ~s.stable /\ v.stable /\ Edge(s, m, high) = Release(v, m)
<1>1. PICK read : read = IF high = s.high THEN s ELSE [s EXCEPT !.high = high, !.still = 0]
  OBVIOUS
<1>2. read \in SwitchType /\ Rest(s, read) /\ read.stable = s.stable /\ read.out = s.out
  <2>1. CASE high = s.high
    BY <1>1, <2>1 DEF Rest
  <2>2. CASE high # s.high
    <3>1. 0 \in 0 .. Debounce
      BY Limits
    <3>2. read = [s EXCEPT !.high = high, !.still = 0]
      BY <1>1, <2>2
    <3>3. QED
      BY <3>1, <3>2 DEF SwitchType, Rest
  <2>3. QED
    BY <2>1, <2>2
<1>3. PICK seen : seen = [read EXCEPT !.stable = high]
  OBVIOUS
<1>4. seen \in SwitchType /\ Rest(s, seen) /\ seen.stable = high /\ seen.out = s.out
  BY <1>2, <1>3 DEF SwitchType, Rest
<1>5. CASE high = s.stable \/ read.still < Debounce
  <2>1. Edge(s, m, high) = read
    BY <1>1, <1>5 DEF Edge
  <2>2. QED
    BY <1>2, <2>1
<1>6. CASE ~(high = s.stable \/ read.still < Debounce) /\ high
  <2>1. Edge(s, m, high) = Release(seen, m)
    BY <1>1, <1>3, <1>6 DEF Edge
  <2>2. ~s.stable /\ seen.stable
    BY <1>4, <1>6 DEF SwitchType
  <2>3. QED
    BY <1>4, <2>1, <2>2
<1>7. CASE ~(high = s.stable \/ read.still < Debounce) /\ ~high
  <2>1. Edge(s, m, high) = Press(seen, m)
    BY <1>1, <1>3, <1>7 DEF Edge
  <2>2. s.stable /\ ~seen.stable
    BY <1>4, <1>7 DEF SwitchType
  <2>3. QED
    BY <1>4, <2>1, <2>2
<1>8. QED
  BY <1>5, <1>6, <1>7

\* A hold that gets long, and a tap that stays alone.
Due(e, m) == TapAlone(LongHeld(e, m), m)
LEMMA DueIs ==
  ASSUME NEW e \in SwitchType, NEW m \in Modes, NEW d, d = Due(e, m)
  PROVE  /\ d \in SwitchType /\ Contact(e, d) /\ ("double" \in d.out => "double" \in e.out)
         /\ m \notin {"long_press_alt", "double_tap"} => d = e
         /\ m = "long_press_alt" /\ ~e.stable /\ ~e.fired /\ e.held >= LongPress =>
              /\ d.fired /\ d.out = e.out \cup {"long"} /\ d.held = e.held
              /\ d.pending = e.pending /\ d.past = e.past
         /\ m = "long_press_alt" /\ ~(~e.stable /\ ~e.fired /\ e.held >= LongPress) => d = e
         /\ m = "double_tap" /\ e.pending /\ Signed(e.past) > 0 =>
              ~d.pending /\ d.out = e.out \cup {"press"}
         /\ m = "double_tap" /\ ~(e.pending /\ Signed(e.past) > 0) => d = e
<1>1. Contact(e, e)
  BY DEF Contact
<1>2. CASE m \notin {"long_press_alt", "double_tap"}
  <2>1. d = e
    BY <1>2 DEF Due, TapAlone, LongHeld
  <2>2. QED
    BY <1>1, <1>2, <2>1
<1>3. CASE m = "long_press_alt" /\ ~e.stable /\ ~e.fired /\ e.held >= LongPress
  <2>1. PICK c : c = [e EXCEPT !.fired = TRUE]
    OBVIOUS
  <2>2. /\ c \in SwitchType /\ Contact(e, c) /\ c.fired /\ c.held = e.held
        /\ c.pending = e.pending /\ c.past = e.past /\ c.out = e.out
    BY <2>1 DEF SwitchType, Contact
  <2>3. d = Fire(c, "long") /\ "long" \in Triggers
    BY <1>3, <2>1 DEF Due, TapAlone, LongHeld, Triggers
  <2>4. d \in SwitchType /\ Contact(c, d) /\ Rest(c, d) /\ d.out = c.out \cup {"long"}
    BY <2>2, <2>3, FireIs
  <2>5. QED
    BY <1>3, <2>2, <2>4 DEF Contact, Rest
<1>4. CASE m = "long_press_alt" /\ ~(~e.stable /\ ~e.fired /\ e.held >= LongPress)
  <2>1. d = e
    BY <1>4 DEF Due, TapAlone, LongHeld
  <2>2. QED
    BY <1>1, <1>4, <2>1
<1>5. CASE m = "double_tap" /\ e.pending /\ Signed(e.past) > 0
  <2>1. PICK c : c = [e EXCEPT !.pending = FALSE]
    OBVIOUS
  <2>2. c \in SwitchType /\ Contact(e, c) /\ ~c.pending /\ c.out = e.out
    BY <2>1 DEF SwitchType, Contact
  <2>3. d = Fire(c, "press") /\ "press" \in Triggers
    BY <1>5, <2>1 DEF Due, TapAlone, LongHeld, Triggers
  <2>4. d \in SwitchType /\ Contact(c, d) /\ Rest(c, d) /\ d.out = c.out \cup {"press"}
    BY <2>2, <2>3, FireIs
  <2>5. QED
    BY <1>5, <2>2, <2>4 DEF Contact, Rest
<1>6. CASE m = "double_tap" /\ ~(e.pending /\ Signed(e.past) > 0)
  <2>1. d = e
    BY <1>6 DEF Due, TapAlone, LongHeld
  <2>2. QED
    BY <1>1, <1>6, <2>1
<1>7. QED
  BY <1>2, <1>3, <1>4, <1>5, <1>6


LEMMA SignedIs ==
  /\ \A age \in 0 .. (Window + MaxLate) :
       LET past == IF age < Window THEN Span - Window + age ELSE age - Window
       IN  past \in 0 .. (Span - 1) /\ (Signed(past) > 0 <=> age > Window)
                                    /\ (Signed(past) <= 0 <=> age <= Window)
  /\ \A past \in 0 .. (Span - 1) : Signed(past) \in Int
  /\ ~(Signed(Span - Window) > 0)
BY Limits DEF Signed

TapsType == [due : Nat, age : 0..(Window + 1), edited : BOOLEAN, lost : BOOLEAN]

SwitchFacts ==
  /\ mode \in Modes /\ switch \in SwitchType
  /\ gesture.mode \in Modes \cup {"reset", "none"} /\ gesture.out \in Seq(SUBSET Triggers)
  /\ gesture.time \in 0 .. Long /\ gesture.late \in BOOLEAN
  /\ gesture = [mode |-> gesture.mode, out |-> gesture.out, time |-> gesture.time,
                late |-> gesture.late]
  /\ taps \in TapsType

LEMMA SwitchTyped == SwitchTypeOK <=> SwitchFacts
BY DEF SwitchTypeOK, SwitchFacts, SwitchType, TapsType

\* What waits to be sent of a tap, t after the last poll.
LEMMA PastLater ==
  ASSUME SwitchInv, NEW t \in 0 .. MaxLate, NEW u, u = Later(switch, t), switch.pending
  PROVE  /\ u.past \in 0 .. (Span - 1)
         /\ ~taps.edited => (Signed(u.past) > 0 <=> taps.age + t > Window)
         /\ Signed(u.past) > 0 => taps.age + t > Window
         /\ ~(Signed(u.past) > 0) /\ taps.age + t <= Window => u.past = PastIs(taps.age + t)
<1>1. /\ switch \in SwitchType /\ taps.age \in 0 .. (Window + 1)
      /\ taps.age <= Window => switch.past = PastIs(taps.age)
      /\ ~taps.edited => taps.age <= Window
  BY SwitchTyped DEF SwitchInv, TapInv, SwitchFacts, TapsType
<1>2. /\ u \in SwitchType /\ switch.past \in 0 .. (Span - 1)
      /\ u.past = IF switch.past + t < Span THEN switch.past + t ELSE switch.past + t - Span
  BY <1>1, LaterIs DEF SwitchType
<1>3. u.past \in 0 .. (Span - 1)
  BY <1>2 DEF SwitchType
<1>4. Window \in Nat /\ MaxLate \in Nat /\ Span \in Nat /\ 2 * (Window + MaxLate) < Span
  BY Limits
<1>5. CASE taps.age <= Window
  <2>1. switch.past = IF taps.age < Window THEN Span - Window + taps.age ELSE 0
    BY <1>1, <1>5 DEF PastIs
  <2>2. PICK age \in 0 .. (Window + MaxLate) : age = taps.age + t
    BY <1>1, <1>4, <1>5
  <2>3. u.past = IF age < Window THEN Span - Window + age ELSE age - Window
    BY <1>1, <1>2, <1>4, <1>5, <2>1, <2>2
  <2>4. (Signed(u.past) > 0 <=> age > Window)
    BY <2>3, SignedIs
  <2>5. age <= Window => u.past = PastIs(age)
    BY <1>4, <2>3 DEF PastIs
  <2>6. QED
    BY <1>3, <2>2, <2>4, <2>5
<1>6. CASE taps.age > Window
  BY <1>1, <1>3, <1>4, <1>6
<1>7. QED
  BY <1>1, <1>4, <1>5, <1>6
-----------------------------------------------------------------------------
(* A foot switch: a poll.                                                  *)

\* What a poll makes of the switch: first of the time, then of the contact, then what is due.
LEMMA PollIs ==
  ASSUME SwitchInv, NEW t \in 0 .. MaxLate, NEW high \in BOOLEAN,
         switch' = Polled(Later(switch, t), mode, high)
  PROVE  \E u \in SwitchType, v \in SwitchType, e \in SwitchType :
           /\ u = Later(switch, t) /\ Rest(u, v) /\ v.out = {}
           /\ \/ v.stable = switch.stable /\ e = v
              \/ switch.stable /\ ~v.stable /\ e = Press(v, mode)
              \/ ~switch.stable /\ v.stable /\ e = Release(v, mode)
           /\ e.stable = v.stable /\ switch' = Due(e, mode)
<1>1. mode \in Modes /\ switch \in SwitchType
  BY SwitchTyped DEF SwitchInv, SwitchFacts
<1>2. PICK u : u = Later(switch, t)
  OBVIOUS
<1>3. u \in SwitchType /\ u.stable = switch.stable /\ u.out = {}
  BY <1>1, <1>2, LaterIs DEF Contact
<1>4. PICK e : e = Edge(u, mode, high)
  OBVIOUS
<1>5. PICK v \in SwitchType :
        /\ Rest(u, v) /\ v.out = u.out
        /\ \/ v.stable = u.stable /\ e = v
           \/ u.stable /\ ~v.stable /\ e = Press(v, mode)
           \/ ~u.stable /\ v.stable /\ e = Release(v, mode)
  BY <1>1, <1>3, <1>4, EdgeIs
<1>6. e \in SwitchType /\ e.stable = v.stable
  BY <1>1, <1>5, PressIs, ReleaseIs DEF Contact
<1>7. switch' = Due(e, mode)
  BY <1>2, <1>4 DEF Polled, Due
<1>8. QED
  BY <1>2, <1>3, <1>5, <1>6, <1>7

LEMMA TapsExcept ==
  ASSUME NEW r \in TapsType,
         NEW g \in 0..(Window + 1), NEW ed \in BOOLEAN, NEW lost \in BOOLEAN
  PROVE  [r EXCEPT !.age = g, !.edited = ed, !.lost = lost]
           = [due |-> r.due, age |-> g, edited |-> ed, lost |-> lost]
<1>1. PICK a, b : /\ a = [r EXCEPT !.age = g, !.edited = ed, !.lost = lost]
                  /\ b = [due |-> r.due, age |-> g, edited |-> ed, lost |-> lost]
  OBVIOUS
<1>2. /\ a \in TapsType
      /\ a.due = r.due /\ a.age = g /\ a.edited = ed /\ a.lost = lost
  BY <1>1 DEF TapsType
<1>3. /\ b \in TapsType
      /\ b.due = r.due /\ b.age = g /\ b.edited = ed /\ b.lost = lost
  BY <1>1 DEF TapsType
<1>4. a = b
  BY <1>2, <1>3 DEF TapsType
<1>5. QED
  BY <1>1, <1>4

LEMMA TapsMake ==
  ASSUME NEW D \in Nat, NEW g \in 0 .. (Window + 1), NEW ed \in BOOLEAN,
         NEW lost \in BOOLEAN, taps' = [due |-> D, age |-> g, edited |-> ed, lost |-> lost],
         D = IF switch'.pending THEN 1 ELSE 0,
         switch'.pending => (g <= Window => switch'.past = PastIs(g))
                            /\ (~ed => g <= Window /\ mode' = "double_tap"),
         ~ed /\ "double" \in switch'.out => g <= Window,
         ~ed /\ mode' = "double_tap" /\ switch'.out = {"press"} /\ ~switch'.pending => g > Window
  PROVE  taps' \in TapsType /\ TapInv'
BY DEF TapInv, TapsFit, TapsType

\* The taps: what a poll adds is answered by what it fires.
LEMMA PollTaps ==
  ASSUME SwitchInv, NEW t \in 0 .. MaxLate, NEW high \in BOOLEAN, Poll(high, t)
  PROVE  taps' \in TapsType /\ TapInv'
<1>1. /\ mode \in Modes /\ switch \in SwitchType /\ taps.due \in Nat
      /\ taps.age \in 0 .. (Window + 1) /\ taps.edited \in BOOLEAN
      /\ taps \in TapsType
      /\ taps.due = IF switch.pending THEN 1 ELSE 0
      /\ switch.pending /\ taps.age <= Window => switch.past = PastIs(taps.age)
      /\ switch.pending /\ ~taps.edited => taps.age <= Window /\ mode = "double_tap"
  BY SwitchTyped DEF SwitchInv, TapInv, TapsFit, SwitchFacts, TapsType
<1>2. PICK u \in SwitchType, v \in SwitchType, e \in SwitchType :
        /\ u = Later(switch, t) /\ Rest(u, v) /\ v.out = {}
        /\ \/ v.stable = switch.stable /\ e = v
           \/ switch.stable /\ ~v.stable /\ e = Press(v, mode)
           \/ ~switch.stable /\ v.stable /\ e = Release(v, mode)
        /\ e.stable = v.stable /\ switch' = Due(e, mode)
  BY PollIs DEF Poll
<1>3. /\ t \in Nat /\ Window \in Nat /\ Window + 1 \in Nat /\ MaxLate \in Nat
      /\ taps.age + t \in Nat
  BY <1>1, Limits
<1>4. PICK age \in 0 .. (Window + 1) : age = Older(taps.age, t, Window + 1)
  BY <1>1, <1>3, OlderIs
<1>5. /\ age > Window <=> taps.age + t > Window
      /\ age <= Window => age = taps.age + t
  <2>1. Window + 1 \in 0 .. (Window + 1)
    BY <1>3
  <2>2. age >= Window + 1 <=> taps.age + t >= Window + 1
    BY <1>1, <1>3, <1>4, <2>1, OlderIs
  <2>3. taps.age + t < Window + 1 => age = taps.age + t
    BY <1>1, <1>3, <1>4, OlderIs
  <2>4. QED
    BY <1>1, <1>3, <2>2, <2>3
<1>6. /\ v.pending = switch.pending /\ v.past = u.past
      /\ switch.pending => /\ u.past \in 0 .. (Span - 1)
                           /\ Signed(u.past) > 0 => age > Window
                           /\ ~taps.edited => (Signed(u.past) > 0 <=> age > Window)
                           /\ ~(Signed(u.past) > 0) /\ age <= Window => u.past = PastIs(age)
  <2>1. v.pending = switch.pending /\ v.past = u.past
    BY <1>1, <1>2, LaterIs DEF Rest
  <2>2. QED
    BY <1>2, <1>3, <1>5, <2>1, PastLater
<1>7. PICK ed \in BOOLEAN : ed <=> (taps.edited /\ switch.pending)
  OBVIOUS
<1>8. PICK pressed \in BOOLEAN : pressed = (switch.stable /\ ~switch'.stable)
  OBVIOUS
<1>9. PICK lost \in BOOLEAN :
        lost = (/\ mode = "double_tap" /\ taps.due > 0
                /\ pressed /\ switch'.out = {} /\ age > Window)
  OBVIOUS
<1>10. taps' = Counted(switch', pressed, lost, t)
  BY <1>2, <1>4, <1>8, <1>9 DEF Poll
<1>11. [taps EXCEPT !.age = Older(@, t, Window + 1), !.edited = @ /\ switch.pending,
               !.lost = lost]
          = [due |-> taps.due, age |-> age, edited |-> ed, lost |-> lost]
  <2>1. (taps.edited /\ switch.pending) = ed
    BY <1>7
  <2>2. [taps EXCEPT !.age = Older(@, t, Window + 1), !.edited = @ /\ switch.pending,
               !.lost = lost]
          = [taps EXCEPT !.age = age, !.edited = ed, !.lost = lost]
    BY <1>1, <1>4, <2>1 DEF TapsType
  <2>3. [taps EXCEPT !.age = age, !.edited = ed, !.lost = lost] = [due |-> taps.due, age |-> age, edited |-> ed, lost |-> lost]
    BY <1>1, TapsExcept
  <2>4. QED
    BY <2>2, <2>3
<1>12. mode' = mode /\ age \in Nat
  BY DEF Poll
<1>13. CASE mode # "double_tap"
  <2>1. taps' = [due |-> taps.due, age |-> age, edited |-> ed, lost |-> lost]
    BY <1>10, <1>11, <1>13 DEF Counted
  <2>2. e.pending = v.pending /\ e.past = v.past
    BY <1>1, <1>2, <1>13, PressIs, ReleaseIs
  <2>3. switch'.pending = switch.pending /\ switch'.past = u.past
    BY <1>1, <1>2, <1>6, <1>13, <2>2, DueIs
  <2>4. switch'.pending => switch.pending /\ taps.edited /\ ed
    BY <1>1, <1>7, <1>13, <2>3
  <2>5. switch'.pending /\ age <= Window => switch'.past = PastIs(age)
    BY <1>3, <1>6, <2>3
  <2>6. "double" \notin switch'.out
    <3>1. "double" \notin v.out
      BY <1>2
    <3>2. "double" \notin e.out
      BY <1>1, <1>2, <1>13, <3>1, PressIs, ReleaseIs
    <3>3. QED
      BY <1>1, <1>2, <3>2, DueIs
  <2>7. QED
    BY <1>1, <1>12, <1>13, <2>1, <2>3, <2>4, <2>5, <2>6, TapsMake
<1>14. CASE mode = "double_tap"
  <2>1. PICK k \in 0 .. 2 :
          k = IF "double" \in switch'.out THEN 2 ELSE IF "press" \in switch'.out THEN 1 ELSE 0
    OBVIOUS
  <2>2. taps' = [due |-> (IF lost THEN 0 ELSE taps.due) + (IF pressed THEN 1 ELSE 0) - k,
                 age |-> IF pressed /\ switch'.pending THEN 0 ELSE age, edited |-> ed, lost |-> lost]
    <3>1. PICK aged : aged = [due |-> taps.due, age |-> age, edited |-> ed, lost |-> lost]
      OBVIOUS
    <3>2. taps' = [aged EXCEPT
                     !.due = (IF lost THEN 0 ELSE taps.due) + (IF pressed THEN 1 ELSE 0) - k,
                     !.age = IF pressed /\ switch'.pending THEN 0 ELSE @]
      BY <1>10, <1>11, <1>14, <2>1, <3>1 DEF Counted
    <3>3. QED
      BY <3>1, <3>2
  <2>3. CASE v.stable = switch.stable \/ (~switch.stable /\ v.stable /\ e = Release(v, mode))
    <3>1. e = v /\ e.out = {} /\ e.pending = switch.pending /\ e.past = u.past
      BY <1>1, <1>2, <1>6, <1>14, <2>3, ReleaseIs
    <3>2. ~pressed /\ ~lost
      BY <1>1, <1>2, <1>8, <1>9, <2>3, DueIs DEF Contact, SwitchType
    <3>3. taps' = [due |-> taps.due - k, age |-> age, edited |-> ed, lost |-> lost]
      BY <1>1, <2>1, <2>2, <3>2
    <3>4. CASE e.pending /\ Signed(e.past) > 0
      <4>1. ~switch'.pending /\ switch'.out = {"press"}
        BY <1>1, <1>2, <1>14, <3>1, <3>4, DueIs
      <4>2. taps.due = 1 /\ k = 1 /\ age > Window
        BY <1>1, <1>6, <2>1, <3>1, <3>4, <4>1
      <4>3. taps' = [due |-> 0, age |-> age, edited |-> ed, lost |-> lost]
        BY <3>3, <4>2
      <4>4. QED
        BY <1>12, <4>1, <4>2, <4>3, TapsMake
    <3>5. CASE ~(e.pending /\ Signed(e.past) > 0)
      <4>1. switch'.pending = switch.pending /\ switch'.out = {} /\ switch'.past = u.past
        BY <1>1, <1>2, <1>14, <3>1, <3>5, DueIs
      <4>2. k = 0 /\ taps' = [due |-> taps.due, age |-> age, edited |-> ed, lost |-> lost]
        BY <1>1, <2>1, <3>3, <4>1
      <4>3. switch'.pending => /\ age <= Window => switch'.past = PastIs(age)
                               /\ ~ed => age <= Window
        <5>1. switch'.pending => switch.pending /\ ~(Signed(u.past) > 0)
          BY <3>1, <3>5, <4>1
        <5>2. switch'.pending /\ age <= Window => switch'.past = PastIs(age)
          BY <1>6, <4>1, <5>1
        <5>3. switch'.pending /\ ~ed => ~(age > Window)
          BY <1>6, <1>7, <5>1
        <5>4. QED
          BY <1>3, <5>2, <5>3
      <4>4. taps.due = IF switch'.pending THEN 1 ELSE 0
        BY <1>1, <4>1
      <4>5. QED
        BY <1>1, <1>12, <1>14, <4>1, <4>2, <4>3, <4>4, TapsMake
    <3>6. QED
      BY <3>4, <3>5
  <2>4. CASE switch.stable /\ ~v.stable /\ e = Press(v, mode) /\ InWindow(v)
    <3>1. ~e.pending /\ e.out = {"double"}
      BY <1>1, <1>2, <1>14, <2>4, PressIs
    <3>2. switch' = e
      BY <1>1, <1>2, <1>14, <3>1, DueIs
    <3>3. pressed /\ ~lost /\ k = 2
      BY <1>2, <1>8, <1>9, <2>1, <2>4, <3>1, <3>2
    <3>4. switch.pending /\ Signed(u.past) <= 0
      BY <1>6, <2>4 DEF InWindow
    <3>5. ~(Signed(u.past) > 0) /\ taps.due = 1
      BY <1>1, <1>6, <3>4, SignedIs
    <3>6. taps' = [due |-> 0, age |-> age, edited |-> ed, lost |-> lost]
      BY <2>2, <3>1, <3>2, <3>3, <3>5
    <3>7. ~ed => age <= Window
      BY <1>3, <1>6, <1>7, <3>4, <3>5
    <3>8. QED
      BY <1>12, <3>1, <3>2, <3>6, <3>7, TapsMake
  <2>5. CASE switch.stable /\ ~v.stable /\ e = Press(v, mode) /\ ~InWindow(v)
    <3>1. e.pending /\ e.past = Span - Window /\ e.out = {}
      BY <1>1, <1>2, <1>14, <2>5, PressIs
    <3>2. switch' = e
      BY <1>1, <1>2, <1>14, <3>1, DueIs, SignedIs
    <3>3. pressed /\ k = 0 /\ (lost <=> taps.due > 0 /\ age > Window)
      BY <1>2, <1>8, <1>9, <1>14, <2>1, <2>5, <3>1, <3>2
    <3>4. switch.pending => Signed(u.past) > 0
      BY <1>6, <2>5, SignedIs DEF InWindow
    <3>5. ~lost => taps.due = 0
      BY <1>1, <1>6, <3>3, <3>4
    <3>6. taps' = [due |-> 1, age |-> 0, edited |-> ed, lost |-> lost]
      BY <2>2, <3>1, <3>2, <3>3, <3>5
    <3>7. 0 < Window /\ 0 \in 0 .. (Window + 1) /\ switch'.past = PastIs(0)
      BY <3>1, <3>2, Limits DEF PastIs
    <3>8. QED
      <4>1. switch'.pending /\ switch'.out = {} /\ 1 = IF switch'.pending THEN 1 ELSE 0
        BY <3>1, <3>2
      <4>2. 0 <= Window /\ 1 \in Nat /\ mode' = "double_tap"
        BY <1>12, <1>14, <3>7, Limits
      <4>3. QED
        BY <3>6, <3>7, <4>1, <4>2, TapsMake
  <2>6. QED
    BY <1>2, <2>3, <2>4, <2>5
<1>15. QED
  BY <1>13, <1>14


GestureType == [mode : Modes \cup {"reset", "none"}, out : Seq(SUBSET Triggers),
                time : 0..Long, late : BOOLEAN]

\* The triggers of a poll after those before it.
LEMMA OutsIs ==
  ASSUME NEW s \in SwitchType, NEW q \in Seq(SUBSET Triggers)
  PROVE  /\ Outs(s) \in Seq(SUBSET Triggers) /\ q \o Outs(s) \in Seq(SUBSET Triggers)
         /\ s.out = {} => Outs(s) = <<>> /\ q \o Outs(s) = q
         /\ \A x \in Triggers : s.out = {x} => /\ Outs(s) = One(x) /\ q \o Outs(s) = q \o One(x)
                                               /\ q = <<>> => q \o Outs(s) = One(x)
<1>1. s.out \in SUBSET Triggers
  BY DEF SwitchType
<1>2. CASE s.out = {}
  <2>1. Outs(s) = <<>> /\ <<>> \in Seq(SUBSET Triggers)
    BY <1>2 DEF Outs
  <2>2. q \o <<>> = q
    BY ConcatEmptySeq
  <2>3. QED
    BY <1>2, <2>1, <2>2
<1>3. CASE s.out # {}
  <2>1. PICK r : r = <<s.out>>
    OBVIOUS
  <2>2. r \in Seq(SUBSET Triggers) /\ Outs(s) = r
    BY <1>1, <1>3, <2>1 DEF Outs
  <2>3. q \o r \in Seq(SUBSET Triggers) /\ <<>> \o r = r
    BY <2>2, ConcatEmptySeq
  <2>4. \A x \in Triggers : s.out = {x} => r = One(x)
    BY <2>1 DEF One
  <2>5. QED
    BY <1>3, <2>2, <2>3, <2>4
<1>4. QED
  BY <1>2, <1>3

\* How a poll goes: u is the switch t later, v with its contact read, e when that is
\* answered.
PollBy(t, u, v, e) ==
  /\ u \in SwitchType /\ v \in SwitchType /\ e \in SwitchType
  /\ u = Later(switch, t) /\ Rest(u, v) /\ v.out = {}
  /\ \/ v.stable = switch.stable /\ e = v
     \/ switch.stable /\ ~v.stable /\ e = Press(v, mode)
     \/ ~switch.stable /\ v.stable /\ e = Release(v, mode)
  /\ e.stable = v.stable /\ switch' = Due(e, mode)

LEMMA PollFacts ==
  ASSUME SwitchInv, NEW t \in 0 .. MaxLate, NEW high \in BOOLEAN, Poll(high, t),
         NEW u, NEW v, NEW e, PollBy(t, u, v, e)
  PROVE  /\ mode \in Modes /\ switch \in SwitchType /\ gesture \in GestureType /\ mode' = mode
         /\ switch' \in SwitchType /\ switch'.stable = v.stable
         /\ v.held = Older(switch.held, t, Long) /\ v.held \in 0 .. Long
         /\ v.fired = switch.fired /\ v.latched = switch.latched /\ v.before = switch.before
         /\ v.pending = switch.pending
         /\ \A n \in 0 .. Long : Older(gesture.time, t, Long) >= n <=> gesture.time + t >= n
         /\ Older(gesture.time, t, Long) \in 0 .. Long /\ gesture.time \in 0 .. Long /\ t \in Nat
         /\ LongPress \in 0 .. Long /\ HoldTime \in 0 .. Long /\ LongPress > 0 /\ Long \in Nat
<1>1. mode \in Modes /\ switch \in SwitchType /\ gesture \in GestureType
  BY DEF SwitchInv, SwitchTypeOK, SwitchType, GestureType, TapsType
<1>2. switch' \in SwitchType /\ switch'.stable = v.stable
  BY <1>1, DueIs DEF PollBy, Contact
<1>3. t \in Nat /\ Long \in Nat /\ LongPress \in 0 .. Long /\ HoldTime \in 0 .. Long /\ LongPress > 0
  BY Limits
<1>4. /\ u.held = Older(switch.held, t, Long) /\ u.fired = switch.fired
      /\ u.latched = switch.latched /\ u.before = switch.before /\ u.pending = switch.pending
  BY <1>1, LaterIs DEF PollBy
<1>5. v.held = u.held /\ v.held \in 0 .. Long
  BY DEF PollBy, Rest, SwitchType
<1>6. gesture.time \in 0 .. Long
  BY <1>1 DEF GestureType
<1>7. /\ \A n \in 0 .. Long : Older(gesture.time, t, Long) >= n <=> gesture.time + t >= n
      /\ Older(gesture.time, t, Long) \in 0 .. Long
  BY <1>3, <1>6, OlderIs
<1>8. mode' = mode
  BY DEF Poll
<1>9. QED
  BY <1>1, <1>2, <1>3, <1>4, <1>5, <1>6, <1>7, <1>8 DEF PollBy, Rest

\* A press begins a gesture.
LEMMA PollPressed ==
  ASSUME SwitchInv, NEW t \in 0 .. MaxLate, NEW high \in BOOLEAN, Poll(high, t),
         NEW u, NEW v, NEW e, PollBy(t, u, v, e), switch.stable, ~v.stable
  PROVE  gesture' \in GestureType /\ HoldInv'
<1>1. /\ mode \in Modes /\ mode' = mode /\ switch' \in SwitchType /\ ~switch'.stable
      /\ v \in SwitchType /\ e \in SwitchType /\ v.out = {} /\ e = Press(v, mode)
      /\ ~e.stable /\ switch' = Due(e, mode) /\ LongPress > 0 /\ 0 \in 0 .. Long
  <2>1. /\ mode \in Modes /\ mode' = mode /\ switch' \in SwitchType /\ ~switch'.stable
        /\ LongPress > 0 /\ 0 \in 0 .. Long
    BY PollFacts, Limits
  <2>2. /\ v \in SwitchType /\ e \in SwitchType /\ v.out = {} /\ e = Press(v, mode)
        /\ ~e.stable /\ switch' = Due(e, mode)
    BY DEF PollBy
  <2>3. QED
    BY <2>1, <2>2
<1>2. gesture' = [mode |-> mode, out |-> Outs(switch'), time |-> 0, late |-> FALSE]
  BY <1>1 DEF Poll
<1>3. Outs(switch') \in Seq(SUBSET Triggers)
  <2>1. <<>> \in Seq(SUBSET Triggers)
    OBVIOUS
  <2>2. QED
    BY <1>1, <2>1, OutsIs
<1>4. gesture' \in GestureType /\ gesture'.mode = mode /\ gesture'.out = Outs(switch') /\ gesture'.time = 0
  BY <1>1, <1>2, <1>3 DEF GestureType
<1>5. \A x \in Triggers : switch'.out = {x} => Outs(switch') = One(x)
  BY <1>3, <1>1, OutsIs
<1>6. switch'.out = {} => Outs(switch') = <<>>
  BY <1>3, <1>1, OutsIs
<1>7. Holding'
  <2>1. CASE mode \in {"tap", "momentary"}
    <3>1. switch'.out = {"press"} /\ "press" \in Triggers
      BY <1>1, <2>1, PressIs, DueIs DEF Triggers
    <3>2. QED
      BY <1>1, <1>4, <1>5, <2>1, <3>1 DEF Holding, Latching
  <2>2. CASE mode \in Latching
    <3>1. /\ e.latched # e.before /\ e.held = 0 /\ e.out = {IF e.latched THEN "on" ELSE "off"}
          /\ switch' = e
      BY <1>1, <2>2, PressIs, DueIs DEF Latching
    <3>2. PICK x \in Triggers : x = IF switch'.latched THEN "on" ELSE "off"
      BY DEF Triggers
    <3>3. gesture'.out = One(IF switch'.latched THEN "on" ELSE "off")
      BY <1>4, <1>5, <3>1, <3>2
    <3>4. QED
      BY <1>1, <1>4, <2>2, <3>1, <3>3 DEF Holding, Latching
  <2>3. CASE mode = "long_press_alt"
    <3>1. e.held = 0 /\ ~e.fired /\ e.out = {}
      BY <1>1, <2>3, PressIs
    <3>2. ~(e.held >= LongPress)
      BY <1>1, <3>1, Limits
    <3>3. switch' = e
      BY <1>1, <2>3, <3>2, DueIs
    <3>4. ~(gesture'.time >= LongPress)
      BY <1>1, <1>4, Limits
    <3>5. QED
      BY <1>1, <1>4, <1>6, <2>3, <3>1, <3>3, <3>4 DEF Holding, Latching
  <2>4. CASE mode = "double_tap"
    BY <1>1, <2>4 DEF Holding, Latching
  <2>5. QED
    BY <1>1, <2>1, <2>2, <2>3, <2>4 DEF Modes, Latching
<1>8. QED
  BY <1>1, <1>4, <1>7 DEF HoldInv, GestureFits

\* While no foot is on the switch there is no gesture.
LEMMA PollIdle ==
  ASSUME SwitchInv, NEW t \in 0 .. MaxLate, NEW high \in BOOLEAN, Poll(high, t),
         NEW u, NEW v, NEW e, PollBy(t, u, v, e),
         v.stable \/ ~switch.stable, switch.stable \/ gesture.mode = "none"
  PROVE  gesture' \in GestureType /\ HoldInv'
<1>1. switch'.stable = v.stable /\ Long \in 0 .. Long
  BY PollFacts
<1>2. gesture' = Over
  BY <1>1 DEF Poll
<1>3. Over \in GestureType /\ Over.mode = "none" /\ Over.out \in Answers(Over)
  BY <1>1 DEF Over, GestureType, Answers
<1>4. QED
  BY <1>2, <1>3 DEF HoldInv, GestureFits

\* A gesture goes on.
LEMMA PollGoesOn ==
  ASSUME SwitchInv, NEW t \in 0 .. MaxLate, NEW high \in BOOLEAN, Poll(high, t),
         NEW u, NEW v, NEW e, PollBy(t, u, v, e), ~switch.stable, gesture.mode # "none"
  PROVE  /\ gesture' \in GestureType /\ gesture'.mode = gesture.mode
         /\ gesture'.time = Older(gesture.time, t, Long)
         /\ gesture'.late <=> gesture.time < LongPress /\ gesture'.time >= LongPress
         /\ switch'.out = {} => gesture'.out = gesture.out
         /\ \A x \in Triggers : switch'.out = {x} =>
              /\ gesture'.out = gesture.out \o One(x)
              /\ gesture.out = <<>> => gesture'.out = One(x)
<1>1. /\ switch' \in SwitchType /\ gesture \in GestureType
      /\ Older(gesture.time, t, Long) \in 0 .. Long
  BY PollFacts
<1>2. PICK lasted \in 0 .. Long : lasted = Older(gesture.time, t, Long)
  BY <1>1
<1>3. PICK late \in BOOLEAN : late <=> gesture.time < LongPress /\ lasted >= LongPress
  OBVIOUS
<1>4. PICK q : q = gesture.out \o Outs(switch')
  OBVIOUS
<1>5. (gesture.time < LongPress /\ lasted >= LongPress) = late
  BY <1>3
<1>6. gesture' = [gesture EXCEPT !.out = @ \o Outs(switch'), !.time = lasted, !.late = late]
  BY <1>2, <1>5 DEF Poll
<1>7. gesture.out \in Seq(SUBSET Triggers)
  BY <1>1 DEF GestureType
<1>8. gesture' = [gesture EXCEPT !.out = q, !.time = lasted, !.late = late]
  BY <1>1, <1>4, <1>6 DEF GestureType
<1>9. /\ q \in Seq(SUBSET Triggers)
      /\ switch'.out = {} => q = gesture.out
      /\ \A x \in Triggers : switch'.out = {x} =>
           q = gesture.out \o One(x) /\ (gesture.out = <<>> => q = One(x))
  BY <1>1, <1>4, <1>7, OutsIs
<1>10. /\ gesture' \in GestureType /\ gesture'.mode = gesture.mode /\ gesture'.out = q
       /\ gesture'.time = lasted /\ gesture'.late = late
  BY <1>1, <1>8, <1>9 DEF GestureType
<1>11. QED
  BY <1>2, <1>3, <1>9, <1>10

LEMMA PollHeld ==
  ASSUME SwitchInv, NEW t \in 0 .. MaxLate, NEW high \in BOOLEAN, Poll(high, t),
         NEW u, NEW v, NEW e, PollBy(t, u, v, e), ~switch.stable, ~v.stable,
         gesture.mode # "none"
  PROVE  gesture' \in GestureType /\ HoldInv'
<1>1. /\ mode \in Modes /\ mode' = mode /\ switch' \in SwitchType /\ ~switch'.stable
      /\ v \in SwitchType /\ v.out = {} /\ e = v /\ switch' = Due(v, mode)
      /\ v.held = Older(switch.held, t, Long)
      /\ v.fired = switch.fired /\ v.latched = switch.latched /\ v.before = switch.before
      /\ v.pending = switch.pending
  BY PollFacts DEF PollBy
<1>2. /\ gesture' \in GestureType /\ gesture'.mode = gesture.mode
      /\ gesture'.time = Older(gesture.time, t, Long)
      /\ switch'.out = {} => gesture'.out = gesture.out
      /\ \A x \in Triggers : switch'.out = {x} /\ gesture.out = <<>> => gesture'.out = One(x)
  BY PollGoesOn
<1>3. HeldOver \/ (gesture.mode = mode /\ Holding)
  BY DEF SwitchInv, HoldInv
<1>4. CASE HeldOver
  <2>1. v.fired /\ ~v.pending /\ v.latched = v.before /\ gesture.mode = "reset"
    BY <1>1, <1>4 DEF HeldOver
  <2>2. switch' = v
    BY <1>1, <2>1, DueIs
  <2>3. HeldOver'
    BY <1>1, <1>2, <1>4, <2>1, <2>2 DEF HeldOver
  <2>4. QED
    BY <1>1, <1>2, <2>3 DEF HoldInv, GestureFits
<1>5. CASE gesture.mode = mode /\ Holding
  <2>1. CASE mode \notin {"long_press_alt", "double_tap"}
    <3>1. switch' = v /\ gesture'.out = gesture.out
      BY <1>1, <1>2, <2>1, DueIs
    <3>2. Holding'
      BY <1>1, <1>2, <1>5, <2>1, <3>1 DEF Holding
    <3>3. QED
      BY <1>1, <1>2, <1>5, <3>2 DEF HoldInv, GestureFits
  <2>2. CASE mode = "long_press_alt"
    <3>1. /\ switch.held = gesture.time /\ (switch.fired <=> gesture.time >= LongPress)
          /\ gesture.out = IF switch.fired THEN One("long") ELSE <<>>
      BY <1>5, <2>2 DEF Holding
    <3>2. v.held = gesture'.time /\ gesture'.time \in 0 .. Long
          /\ (gesture'.time >= LongPress <=> gesture.time + t >= LongPress)
          /\ gesture.time \in 0 .. Long /\ t \in Nat /\ LongPress \in Nat
      BY <1>1, <1>2, <3>1, PollFacts, Limits
    <3>3. CASE ~v.fired /\ v.held >= LongPress
      <4>1. switch'.fired /\ switch'.out = {"long"} /\ switch'.held = v.held
        BY <1>1, <2>2, <3>3, DueIs
      <4>2. gesture.out = <<>> /\ "long" \in Triggers
        BY <1>1, <3>1, <3>3 DEF Triggers
      <4>3. gesture'.out = One("long")
        BY <1>2, <4>1, <4>2
      <4>4. Holding'
        BY <1>1, <2>2, <3>2, <3>3, <4>1, <4>3 DEF Holding, Latching
      <4>5. QED
        BY <1>1, <1>2, <1>5, <4>4 DEF HoldInv, GestureFits
    <3>4. CASE ~(~v.fired /\ v.held >= LongPress)
      <4>1. switch' = v /\ gesture'.out = gesture.out
        BY <1>1, <1>2, <2>2, <3>4, DueIs
      <4>2. v.fired <=> gesture'.time >= LongPress
        BY <1>1, <3>1, <3>2, <3>4
      <4>3. Holding'
        BY <1>1, <2>2, <3>1, <3>2, <4>1, <4>2 DEF Holding, Latching
      <4>4. QED
        BY <1>1, <1>2, <1>5, <4>3 DEF HoldInv, GestureFits
    <3>5. QED
      BY <3>3, <3>4
  <2>3. CASE mode = "double_tap"
    <3>1. Holding'
      BY <1>1, <2>3 DEF Holding, Latching
    <3>2. QED
      BY <1>1, <1>2, <1>5, <3>1 DEF HoldInv, GestureFits
  <2>4. QED
    BY <2>1, <2>2, <2>3
<1>6. QED
  BY <1>3, <1>4, <1>5

\* A release ends a gesture, which is answered.
LEMMA PollReleased ==
  ASSUME SwitchInv, NEW t \in 0 .. MaxLate, NEW high \in BOOLEAN, Poll(high, t),
         NEW u, NEW v, NEW e, PollBy(t, u, v, e), ~switch.stable, v.stable,
         gesture.mode # "none"
  PROVE  gesture' \in GestureType /\ HoldInv'
<1>1. /\ mode \in Modes /\ mode' = mode /\ switch' \in SwitchType /\ switch'.stable
      /\ v \in SwitchType /\ e \in SwitchType /\ v.out = {} /\ e = Release(v, mode)
      /\ e.stable /\ switch' = Due(e, mode) /\ v.held = Older(switch.held, t, Long)
      /\ v.fired = switch.fired /\ v.latched = switch.latched /\ v.before = switch.before
      /\ v.pending = switch.pending
  BY Zenon, PollFacts DEF PollBy
<1>2. /\ gesture' \in GestureType /\ gesture'.mode = gesture.mode
      /\ gesture'.time = Older(gesture.time, t, Long)
      /\ gesture'.late <=> gesture.time < LongPress /\ gesture'.time >= LongPress
      /\ switch'.out = {} => gesture'.out = gesture.out
      /\ \A x \in Triggers : switch'.out = {x} =>
           /\ gesture'.out = gesture.out \o One(x)
           /\ gesture.out = <<>> => gesture'.out = One(x)
  BY PollGoesOn
<1>3. HeldOver \/ (gesture.mode = mode /\ Holding)
  BY DEF SwitchInv, HoldInv
<1>4. SUFFICES \/ gesture'.out \in Answers(gesture')
               \/ gesture'.mode = "long_press_alt" /\ gesture'.late /\ gesture'.out = <<>>
  BY <1>1, <1>2 DEF HoldInv, GestureFits, ReleasedLate
<1>5. CASE HeldOver
  <2>1. /\ v.fired /\ ~v.pending /\ v.latched = v.before
        /\ gesture'.mode = "reset" /\ gesture.out = <<>>
    BY <1>1, <1>2, <1>5 DEF HeldOver
  <2>2. Answers(gesture') = {<<>>, One("release")}
    BY <2>1 DEF Answers
  <2>3. CASE mode = "momentary"
    <3>1. switch'.out = {"release"} /\ "release" \in Triggers
      BY <1>1, <2>3, ReleaseIs, DueIs DEF Triggers
    <3>2. QED
      BY <1>2, <2>1, <2>2, <3>1
  <2>4. CASE mode # "momentary"
    <3>1. e = v
      <4>1. CASE mode \in {"tap", "latched", "double_tap"}
        BY <1>1, <4>1, ReleaseIs
      <4>2. CASE mode = "long_press_alt"
        BY <1>1, <2>1, <4>2, ReleaseIs
      <4>3. CASE mode = "hold"
        BY <1>1, <2>1, <4>3, ReleaseIs
      <4>4. QED
        BY <1>1, <2>4, <4>1, <4>2, <4>3 DEF Modes
    <3>2. switch'.out = {}
      BY <1>1, <2>1, <2>4, <3>1, DueIs
    <3>3. QED
      BY <1>2, <2>1, <2>2, <3>2
  <2>5. QED
    BY <2>3, <2>4
<1>6. CASE gesture.mode = mode /\ Holding
  <2>1. gesture'.mode = mode /\ (mode # "double_tap" => switch' = e)
    BY <1>1, <1>2, <1>6, DueIs
  <2>2. CASE mode = "tap"
    <3>1. switch'.out = {} /\ gesture.out = One("press")
      BY <1>1, <1>6, <2>1, <2>2, ReleaseIs DEF Holding
    <3>2. QED
      BY <1>2, <2>1, <2>2, <3>1 DEF Answers
  <2>3. CASE mode = "momentary"
    <3>1. switch'.out = {"release"} /\ gesture.out = One("press") /\ "release" \in Triggers
      BY <1>1, <1>6, <2>1, <2>3, ReleaseIs DEF Holding, Triggers
    <3>2. QED
      BY <1>2, <2>1, <2>3, <3>1 DEF Answers
  <2>4. CASE mode = "latched"
    <3>1. switch'.out = {} /\ gesture.out = One(IF switch.latched THEN "on" ELSE "off")
      BY <1>1, <1>6, <2>1, <2>4, ReleaseIs DEF Holding, Latching
    <3>2. QED
      BY <1>2, <2>1, <2>4, <3>1 DEF Answers, Toggles
  <2>5. CASE mode = "hold"
    <3>1. /\ gesture.out = One(IF switch.latched THEN "on" ELSE "off")
          /\ v.latched # v.before /\ v.held = gesture'.time
          /\ v.held \in Nat /\ HoldTime \in Nat
      <4>1. /\ gesture.out = One(IF switch.latched THEN "on" ELSE "off")
            /\ switch.latched # switch.before /\ switch.held = gesture.time
        BY <1>6, <2>5 DEF Holding, Latching
      <4>2. v.held \in 0 .. Long /\ HoldTime \in Nat /\ Long \in Nat
        BY PollFacts, Limits
      <4>3. QED
        BY <1>1, <1>2, <4>1, <4>2
    <3>2. CASE v.held < HoldTime
      <4>1. switch'.out = {}
        BY <1>1, <2>1, <2>5, <3>2, ReleaseIs
      <4>2. Answers(gesture') = Toggles
        BY <2>1, <2>5, <3>1, <3>2 DEF Answers
      <4>3. QED
        BY <1>2, <3>1, <4>1, <4>2 DEF Toggles
    <3>3. CASE v.held >= HoldTime
      <4>1. PICK x \in Triggers : x = IF v.latched THEN "off" ELSE "on"
        BY DEF Triggers
      <4>2. switch'.out = {x}
        BY <1>1, <2>1, <2>5, <3>1, <3>3, <4>1, ReleaseIs
      <4>3. gesture'.out = gesture.out \o One(x)
        BY <1>2, <4>2
      <4>4. Answers(gesture') = BackAndForth
        BY <2>1, <2>5, <3>1, <3>3 DEF Answers
      <4>5. QED
        BY <1>1, <3>1, <4>1, <4>3, <4>4 DEF BackAndForth
    <3>4. QED
      BY <3>1, <3>2, <3>3
  <2>6. CASE mode = "long_press_alt"
    <3>1. /\ v.held = gesture'.time /\ (v.fired <=> gesture.time >= LongPress)
          /\ gesture.out = IF v.fired THEN One("long") ELSE <<>>
          /\ gesture'.time \in 0 .. Long /\ gesture.time \in 0 .. Long /\ LongPress \in Nat
          /\ (gesture'.time >= LongPress <=> gesture.time + t >= LongPress) /\ t \in Nat
      BY <1>1, <1>2, <1>6, <2>6, PollFacts, Limits DEF Holding
    <3>2. Answers(gesture') = {One(IF gesture'.time < LongPress THEN "press" ELSE "long")}
      BY <2>1, <2>6 DEF Answers
    <3>3. CASE ~v.fired /\ v.held < LongPress
      <4>1. switch'.out = {"press"} /\ gesture.out = <<>> /\ "press" \in Triggers
        BY <1>1, <2>1, <2>6, <3>1, <3>3, ReleaseIs DEF Triggers
      <4>2. gesture'.time < LongPress
        BY <1>2, <3>1, <3>3
      <4>3. QED
        BY <1>2, <3>2, <4>1, <4>2
    <3>4. CASE v.fired
      <4>1. switch'.out = {} /\ gesture.out = One("long")
        BY <1>1, <2>1, <2>6, <3>1, <3>4, ReleaseIs
      <4>2. ~(gesture'.time < LongPress)
        BY <1>2, <3>1, <3>4
      <4>3. QED
        BY <1>2, <3>2, <4>1, <4>2
    <3>5. CASE ~v.fired /\ v.held >= LongPress
      <4>1. switch'.out = {} /\ gesture.out = <<>>
        BY <1>1, <2>1, <2>6, <3>1, <3>5, ReleaseIs
      <4>2. gesture'.late
        BY <1>2, <3>1, <3>5
      <4>3. QED
        BY <1>2, <2>1, <2>6, <4>1, <4>2
    <3>6. v.held \in Nat
      BY <3>1
    <3>7. QED
      BY <3>1, <3>3, <3>4, <3>5, <3>6
  <2>7. CASE mode = "double_tap"
    BY <2>1, <2>7 DEF Answers
  <2>8. QED
    BY <1>1, <2>2, <2>3, <2>4, <2>5, <2>6, <2>7 DEF Modes
<1>7. QED
  BY <1>3, <1>5, <1>6

LEMMA PollStep ==
  ASSUME SwitchInv, NEW t \in 0 .. MaxLate, NEW high \in BOOLEAN, Poll(high, t)
  PROVE  SwitchInv'
<1>1. PICK u, v, e : PollBy(t, u, v, e)
  BY PollIs DEF Poll, PollBy
<1>2. gesture' \in GestureType /\ HoldInv'
  <2>1. v.stable \in BOOLEAN /\ switch.stable \in BOOLEAN
    BY <1>1 DEF PollBy, SwitchType, SwitchInv, SwitchTypeOK
  <2>2. CASE switch.stable /\ ~v.stable
    BY <1>1, <2>2, PollPressed
  <2>3. CASE (v.stable \/ ~switch.stable) /\ (switch.stable \/ gesture.mode = "none")
    BY <1>1, <2>3, PollIdle
  <2>4. CASE ~switch.stable /\ ~v.stable /\ gesture.mode # "none"
    BY <1>1, <2>4, PollHeld
  <2>5. CASE ~switch.stable /\ v.stable /\ gesture.mode # "none"
    BY <1>1, <2>5, PollReleased
  <2>6. QED
    BY <2>1, <2>2, <2>3, <2>4, <2>5
<1>3. mode' \in Modes /\ switch' \in SwitchType
  BY <1>1, PollFacts
<1>4. /\ taps' \in TapsType
      /\ TapInv'
  BY PollTaps
<1>5. SwitchTypeOK'
  BY <1>2, <1>3, <1>4 DEF SwitchTypeOK, SwitchType, GestureType, TapsType
<1>6. QED
  BY <1>2, <1>4, <1>5 DEF SwitchInv

-----------------------------------------------------------------------------
(* A foot switch: requests, edits, patches and the Kemper.                 *)

\* A tap of a request: what is due first, then as a poll that finds the contact down and up.
LEMMA TappedIs ==
  ASSUME NEW u \in SwitchType, NEW m \in Modes, u.stable, u.high
  PROVE  \E d \in SwitchType, p \in SwitchType :
           /\ d = Due(u, m) /\ p = Press(d, m) /\ Tapped(u, m) = Release(p, m)
           /\ Tapped(u, m) \in SwitchType /\ Tapped(u, m).stable
<1>1. Edge(u, m, TRUE) = u
  <2>1. TRUE = u.high /\ TRUE = u.stable
    BY DEF SwitchType
  <2>2. QED
    BY <2>1 DEF Edge
<1>2. PICK d : d = Due(u, m)
  OBVIOUS
<1>3. d \in SwitchType /\ d.stable
  BY <1>2, DueIs DEF Contact
<1>4. PICK p : p = Press(d, m)
  OBVIOUS
<1>5. p \in SwitchType /\ p.stable
  BY <1>3, <1>4, PressIs DEF Contact
<1>6. PICK r : r = Release(p, m)
  OBVIOUS
<1>7. r \in SwitchType /\ r.stable
  BY <1>5, <1>6, ReleaseIs DEF Contact
<1>8. Tapped(u, m) = r
  BY <1>1, <1>2, <1>4, <1>6 DEF Tapped, Polled, Due
<1>9. QED
  BY <1>2, <1>3, <1>4, <1>5, <1>6, <1>7, <1>8

LEMMA RemoteTapTaps ==
  ASSUME SwitchInv, NEW t \in 0 .. MaxLate, RemoteTap(t)
  PROVE  /\ switch' \in SwitchType /\ switch'.stable
         /\ taps' \in TapsType /\ TapInv'
<1>1. /\ mode \in Modes /\ switch \in SwitchType /\ taps.due \in Nat
      /\ taps.age \in 0 .. (Window + 1) /\ taps.edited \in BOOLEAN
      /\ taps \in TapsType
      /\ taps.due = IF switch.pending THEN 1 ELSE 0
      /\ switch.pending /\ ~taps.edited => taps.age <= Window /\ mode = "double_tap"
  BY SwitchTyped DEF SwitchInv, TapInv, TapsFit, SwitchFacts, TapsType
<1>2. PICK u : u = Later(switch, t)
  OBVIOUS
<1>3. /\ u \in SwitchType /\ u.stable /\ u.high /\ u.out = {} /\ u.pending = switch.pending
      /\ mode' = mode
  BY <1>1, <1>2, LaterIs DEF RemoteTap, Contact
<1>4. PICK d \in SwitchType, p \in SwitchType :
        /\ d = Due(u, mode) /\ p = Press(d, mode) /\ Tapped(u, mode) = Release(p, mode)
        /\ Tapped(u, mode) \in SwitchType /\ Tapped(u, mode).stable
  BY <1>1, <1>3, TappedIs
<1>5. switch' = Release(p, mode) /\ switch' \in SwitchType /\ switch'.stable
      /\ taps' = Counted(switch', TRUE, FALSE, t)
  BY <1>2, <1>4 DEF RemoteTap
<1>6. /\ t \in Nat /\ Window \in Nat /\ Window + 1 \in Nat /\ taps.age + t \in Nat
  BY <1>1, Limits
<1>7. PICK age \in 0 .. (Window + 1) : age = Older(taps.age, t, Window + 1)
  BY <1>1, <1>6, OlderIs
<1>8. /\ age > Window <=> taps.age + t > Window
      /\ age <= Window => age = taps.age + t
  <2>1. Window + 1 \in 0 .. (Window + 1)
    BY <1>6
  <2>2. age >= Window + 1 <=> taps.age + t >= Window + 1
    BY <1>1, <1>6, <1>7, <2>1, OlderIs
  <2>3. taps.age + t < Window + 1 => age = taps.age + t
    BY <1>1, <1>6, <1>7, OlderIs
  <2>4. QED
    BY <1>1, <1>6, <2>2, <2>3
<1>9. switch.pending => /\ u.past \in 0 .. (Span - 1)
                        /\ Signed(u.past) > 0 => age > Window
                        /\ ~taps.edited => (Signed(u.past) > 0 <=> age > Window)
                        /\ ~(Signed(u.past) > 0) /\ age <= Window => u.past = PastIs(age)
  BY <1>2, <1>6, <1>8, PastLater
<1>10. PICK ed \in BOOLEAN : ed <=> (taps.edited /\ switch.pending)
  OBVIOUS
<1>11. [taps EXCEPT !.age = Older(@, t, Window + 1), !.edited = @ /\ switch.pending,
               !.lost = FALSE]
          = [due |-> taps.due, age |-> age, edited |-> ed, lost |-> FALSE]
  <2>1. (taps.edited /\ switch.pending) = ed
    BY <1>10
  <2>2. [taps EXCEPT !.age = Older(@, t, Window + 1), !.edited = @ /\ switch.pending,
               !.lost = FALSE]
          = [taps EXCEPT !.age = age, !.edited = ed, !.lost = FALSE]
    BY <1>1, <1>7, <2>1 DEF TapsType
  <2>3. [taps EXCEPT !.age = age, !.edited = ed, !.lost = FALSE] = [due |-> taps.due, age |-> age, edited |-> ed, lost |-> FALSE]
    BY <1>1, TapsExcept
  <2>4. QED
    BY <2>2, <2>3
<1>12. CASE mode # "double_tap"
  <2>1. taps' = [due |-> taps.due, age |-> age, edited |-> ed, lost |-> FALSE]
    BY <1>5, <1>11, <1>12 DEF Counted
  <2>2. d = u \/ (d.pending = u.pending /\ d.past = u.past)
    BY <1>1, <1>3, <1>4, <1>12, DueIs
  <2>3. p.pending = d.pending /\ p.past = d.past
    BY <1>1, <1>4, <1>12, PressIs
  <2>4. switch'.pending = switch.pending /\ switch'.past = u.past
    BY <1>1, <1>3, <1>4, <1>5, <2>2, <2>3, ReleaseIs
  <2>5. "double" \notin switch'.out
    <3>1. "double" \notin d.out
      BY <1>1, <1>3, <1>4, DueIs
    <3>2. "double" \notin p.out
      BY <1>1, <1>4, <1>12, <3>1, PressIs
    <3>3. QED
      BY <1>1, <1>4, <1>5, <3>2, ReleaseIs
  <2>6. switch'.pending => switch.pending /\ taps.edited /\ ed
    BY <1>1, <1>10, <1>12, <2>4
  <2>7. switch'.pending /\ age <= Window => switch'.past = PastIs(age)
    BY <1>6, <1>9, <2>4
  <2>8. QED
    BY <1>1, <1>3, <1>5, <1>12, <2>1, <2>4, <2>5, <2>6, <2>7, TapsMake
<1>13. CASE mode = "double_tap"
  <2>1. PICK k \in 0 .. 2 :
          k = IF "double" \in switch'.out THEN 2 ELSE IF "press" \in switch'.out THEN 1 ELSE 0
    OBVIOUS
  <2>2. taps' = [due |-> taps.due + 1 - k,
                 age |-> IF switch'.pending THEN 0 ELSE age, edited |-> ed, lost |-> FALSE]
    BY <1>5, <1>11, <1>13, <2>1 DEF Counted
  <2>3. switch' = p
    BY <1>1, <1>4, <1>5, <1>13, ReleaseIs
  <2>4. CASE u.pending /\ Signed(u.past) > 0
    <3>1. ~d.pending /\ d.out = {"press"}
      BY <1>1, <1>3, <1>4, <1>13, <2>4, DueIs
    <3>2. p.pending /\ p.past = Span - Window /\ p.out = {"press"}
      BY <1>1, <1>4, <1>13, <3>1, PressIs DEF InWindow
    <3>3. taps.due = 1 /\ k = 1
      BY <1>1, <1>3, <2>1, <2>3, <2>4, <3>2
    <3>4. taps' = [due |-> 1, age |-> 0, edited |-> ed, lost |-> FALSE]
      BY <2>2, <2>3, <3>2, <3>3
    <3>5. 0 < Window /\ 0 \in 0 .. (Window + 1) /\ switch'.past = PastIs(0)
      BY <2>3, <3>2, Limits DEF PastIs
    <3>6. switch'.pending /\ switch'.out = {"press"} /\ 1 = IF switch'.pending THEN 1 ELSE 0
      BY <2>3, <3>2
    <3>7. 0 <= Window /\ 1 \in Nat /\ mode' = "double_tap"
      BY <1>3, <1>13, <3>5, Limits
    <3>8. QED
      BY <1>5, <3>4, <3>5, <3>6, <3>7, TapsMake
  <2>5. CASE ~(u.pending /\ Signed(u.past) > 0) /\ InWindow(u)
    <3>1. d = u
      BY <1>1, <1>3, <1>4, <1>13, <2>5, DueIs
    <3>2. ~p.pending /\ p.out = {"double"}
      BY <1>1, <1>3, <1>4, <1>13, <2>5, <3>1, PressIs
    <3>3. switch.pending /\ ~(Signed(u.past) > 0) /\ taps.due = 1 /\ k = 2
      BY <1>1, <1>3, <2>1, <2>3, <2>5, <3>2 DEF InWindow
    <3>4. taps' = [due |-> 0, age |-> age, edited |-> ed, lost |-> FALSE]
      BY <2>2, <2>3, <3>2, <3>3
    <3>5. ~ed => age <= Window
      BY <1>6, <1>9, <1>10, <3>3
    <3>6. ~switch'.pending /\ switch'.out = {"double"}
      BY <2>3, <3>2
    <3>7. QED
      BY <1>5, <3>4, <3>5, <3>6, TapsMake
  <2>6. CASE ~(u.pending /\ Signed(u.past) > 0) /\ ~InWindow(u)
    <3>1. d = u
      BY <1>1, <1>3, <1>4, <1>13, <2>6, DueIs
    <3>2. p.pending /\ p.past = Span - Window /\ p.out = {}
      BY <1>1, <1>3, <1>4, <1>13, <2>6, <3>1, PressIs
    <3>3. ~u.pending
      BY <1>3, <1>9, <2>6, SignedIs DEF InWindow
    <3>4. taps.due = 0 /\ k = 0
      BY <1>1, <1>3, <2>1, <2>3, <3>2, <3>3
    <3>5. taps' = [due |-> 1, age |-> 0, edited |-> ed, lost |-> FALSE]
      BY <2>2, <2>3, <3>2, <3>4
    <3>6. 0 < Window /\ 0 \in 0 .. (Window + 1) /\ switch'.past = PastIs(0)
      BY <2>3, <3>2, Limits DEF PastIs
    <3>7. switch'.pending /\ switch'.out = {} /\ 1 = IF switch'.pending THEN 1 ELSE 0
      BY <2>3, <3>2
    <3>8. 0 <= Window /\ 1 \in Nat /\ mode' = "double_tap"
      BY <1>3, <1>13, <3>6, Limits
    <3>9. QED
      BY <1>5, <3>5, <3>6, <3>7, <3>8, TapsMake
  <2>7. QED
    BY <2>4, <2>5, <2>6
<1>14. QED
  BY <1>12, <1>13

LEMMA RemoteTapStep ==
  ASSUME SwitchInv, NEW t \in 0 .. MaxLate, RemoteTap(t)
  PROVE  SwitchInv'
<1>1. /\ switch' \in SwitchType /\ switch'.stable
      /\ taps' \in TapsType /\ TapInv'
  BY RemoteTapTaps
<1>2. UNCHANGED <<mode, gesture>> /\ switch.stable
  BY DEF RemoteTap
<1>3. SwitchTypeOK'
  BY <1>1, <1>2 DEF SwitchInv, SwitchTypeOK, SwitchType, TapsType
<1>4. HoldInv'
  BY <1>1, <1>2 DEF SwitchInv, HoldInv, GestureFits
<1>5. QED
  BY <1>1, <1>3, <1>4 DEF SwitchInv

\* Where a gesture ends without a release there is none to answer.
LEMMA OverIs ==
  /\ Over \in GestureType /\ Over.mode = "none" /\ Over.out \in Answers(Over)
  /\ ResetHeld \in GestureType /\ ResetHeld.mode = "reset" /\ ResetHeld.out = <<>>
<1>1. Long \in 0 .. Long
  BY Limits
<1>2. Over \in GestureType /\ Over.mode = "none" /\ Over.out = <<>>
  BY <1>1 DEF Over, GestureType
<1>3. Over.out \in Answers(Over)
  BY <1>2 DEF Answers
<1>4. QED
  BY <1>2, <1>3 DEF ResetHeld, GestureType

LEMMA EditStep ==
  ASSUME SwitchInv, NEW m \in Modes, Edit(m)
  PROVE  SwitchInv'
<1>1. /\ switch \in SwitchType /\ gesture \in GestureType
      /\ taps \in TapsType
  BY DEF SwitchInv, SwitchTypeOK, SwitchType, GestureType, TapsType
<1>2. /\ switch' \in SwitchType /\ switch'.stable = switch.stable /\ switch'.out = {}
      /\ switch'.pending = switch.pending /\ switch'.past = switch.past
  BY <1>1 DEF Edit, SwitchType
<1>3. PICK ed \in BOOLEAN : ed = switch.pending
  BY <1>1 DEF SwitchType
<1>4. taps' = [taps EXCEPT !.edited = ed, !.lost = FALSE]
  BY <1>3 DEF Edit
<1>5. /\ taps' \in TapsType
      /\ taps'.due = taps.due /\ taps'.age = taps.age /\ taps'.edited = ed
  BY <1>1, <1>4 DEF TapsType
<1>6. TapInv'
  BY <1>2, <1>3, <1>5 DEF SwitchInv, TapInv, TapsFit
<1>7. gesture' = IF switch.stable THEN gesture ELSE Over
  BY DEF Edit
<1>8. gesture' \in GestureType
  BY <1>1, <1>7, OverIs
<1>9. HoldInv'
  BY <1>2, <1>7, OverIs DEF SwitchInv, HoldInv, GestureFits
<1>10. mode' \in Modes
  BY DEF Edit
<1>11. SwitchTypeOK'
  BY <1>2, <1>5, <1>8, <1>10 DEF SwitchTypeOK, SwitchType, GestureType, TapsType
<1>12. QED
  BY <1>6, <1>9, <1>11 DEF SwitchInv

LEMMA SwitchPatchStep ==
  ASSUME SwitchInv, NEW m \in Modes, NEW on \in BOOLEAN, SwitchPatch(m, on)
  PROVE  SwitchInv'
<1>1. switch \in SwitchType /\ gesture \in GestureType
  BY DEF SwitchInv, SwitchTypeOK, SwitchType, GestureType, TapsType
<1>2. Long \in 0 .. Long /\ 0 \in 0 .. (Span - 1) /\ Window + 1 \in 0 .. (Window + 1)
  BY Limits
<1>3. PICK held \in BOOLEAN : held = ~switch.stable
  OBVIOUS
<1>4. PICK f : f = Forget(switch)
  OBVIOUS
<1>5. f = [switch EXCEPT !.held = Long, !.past = 0, !.fired = held, !.latched = FALSE,
                         !.before = FALSE, !.pending = FALSE, !.out = {}]
  BY <1>3, <1>4 DEF Forget
<1>6. /\ f \in SwitchType /\ f.stable = switch.stable /\ f.fired = held /\ ~f.pending
      /\ f.before = FALSE /\ f.out = {}
  BY <1>1, <1>2, <1>5 DEF SwitchType
<1>7. switch' = [f EXCEPT !.latched = on]
  BY <1>4 DEF SwitchPatch
<1>8. /\ switch' \in SwitchType /\ switch'.stable = switch.stable /\ switch'.fired = held
      /\ ~switch'.pending /\ switch'.before = FALSE /\ switch'.out = {} /\ switch'.latched = on
  BY <1>6, <1>7 DEF SwitchType
<1>9. taps' = [due |-> 0, age |-> Window + 1, edited |-> FALSE, lost |-> FALSE]
  BY DEF SwitchPatch
<1>10. taps' \in TapsType /\ TapInv'
  BY <1>2, <1>8, <1>9 DEF TapInv, TapsFit, TapsType
<1>11. gesture' = IF switch.stable THEN gesture ELSE IF on THEN Over ELSE ResetHeld
  BY DEF SwitchPatch
<1>12. gesture' \in GestureType
  BY <1>1, <1>11, OverIs
<1>13. HoldInv'
  <2>1. CASE switch.stable
    BY <1>8, <1>11, <2>1 DEF SwitchInv, HoldInv, GestureFits
  <2>2. CASE ~switch.stable /\ on
    BY <1>8, <1>11, <2>2, OverIs DEF HoldInv, GestureFits
  <2>3. CASE ~switch.stable /\ ~on
    <3>1. gesture' = ResetHeld /\ ~switch'.stable /\ held = TRUE
      BY <1>3, <1>8, <1>11, <2>3
    <3>2. switch'.fired /\ ~switch'.pending /\ switch'.latched = switch'.before
      BY <1>8, <2>3, <3>1
    <3>3. HeldOver'
      BY <3>1, <3>2, OverIs DEF HeldOver
    <3>4. QED
      BY <3>1, <3>3 DEF HoldInv, GestureFits
  <2>4. QED
    BY <2>1, <2>2, <2>3
<1>14. mode' \in Modes
  BY DEF SwitchPatch
<1>15. SwitchTypeOK'
  BY <1>8, <1>10, <1>12, <1>14 DEF SwitchTypeOK, SwitchType, GestureType, TapsType
<1>16. QED
  BY <1>10, <1>13, <1>15 DEF SwitchInv

LEMMA MirrorEffectStep ==
  ASSUME SwitchInv, NEW on \in BOOLEAN, MirrorEffect(on)
  PROVE  SwitchInv'
<1>1. switch \in SwitchType /\ gesture \in GestureType
  BY DEF SwitchInv, SwitchTypeOK, SwitchType, GestureType, TapsType
<1>2. switch' = [switch EXCEPT !.latched = on, !.out = {}] /\ UNCHANGED <<mode, taps>>
  BY DEF MirrorEffect
<1>3. /\ switch' \in SwitchType /\ switch'.stable = switch.stable /\ switch'.out = {}
      /\ switch'.pending = switch.pending /\ switch'.past = switch.past
  BY <1>1, <1>2 DEF SwitchType
<1>4. TapInv'
  BY <1>2, <1>3 DEF SwitchInv, TapInv, TapsFit
<1>5. gesture' = IF switch.stable THEN gesture ELSE Over
  BY DEF MirrorEffect
<1>6. gesture' \in GestureType
  BY <1>1, <1>5, OverIs
<1>7. HoldInv'
  BY <1>3, <1>5, OverIs DEF SwitchInv, HoldInv, GestureFits
<1>8. SwitchTypeOK'
  BY <1>2, <1>3, <1>6 DEF SwitchInv, SwitchTypeOK, SwitchType, GestureType, TapsType
<1>9. QED
  BY <1>4, <1>7, <1>8 DEF SwitchInv

LEMMA SwitchStart ==
  ASSUME SwitchInit
  PROVE  SwitchInv
<1>1. /\ Debounce \in 0 .. Debounce /\ Long \in 0 .. Long /\ 0 \in 0 .. (Span - 1)
      /\ Window + 1 \in 0 .. (Window + 1)
  BY Limits
<1>2. switch \in SwitchType /\ switch.stable /\ ~switch.pending /\ switch.out = {}
  BY <1>1 DEF SwitchInit, SwitchType
<1>3. gesture \in GestureType /\ gesture.out \in Answers(gesture)
  BY OverIs DEF SwitchInit
<1>4. taps = [due |-> 0, age |-> Window + 1, edited |-> FALSE, lost |-> FALSE] /\ mode \in Modes
  BY DEF SwitchInit
<1>5. SwitchTypeOK
  BY <1>1, <1>2, <1>3, <1>4 DEF SwitchTypeOK, SwitchType, GestureType, TapsType
<1>6. TapInv
  BY <1>2, <1>4 DEF TapInv, TapsFit
<1>7. HoldInv
  BY <1>2, <1>3 DEF HoldInv, GestureFits
<1>8. QED
  BY <1>5, <1>6, <1>7 DEF SwitchInv

LEMMA SwitchStep ==
  ASSUME SwitchInv, [SwitchNext]_switchVars
  PROVE  SwitchInv'
<1>1. CASE UNCHANGED switchVars
  BY <1>1 DEF switchVars, SwitchInv, SwitchTypeOK, TapInv, TapsFit, HoldInv,
     GestureFits, HeldOver, Holding
<1>2. CASE SwitchNext
  BY <1>2, PollStep, RemoteTapStep, EditStep, SwitchPatchStep, MirrorEffectStep DEF SwitchNext
<1>3. QED
  BY <1>1, <1>2

\* A foot switch fires no trigger twice or for a gesture that does not ask for it, and leaves
\* none out but in two cases: a long press whose release the very poll sees that reaches the
\* limit, and a tap whose next press the first poll after its window sees.  This holds for
\* all limits and times on a clock that wraps, and for any number of gestures, requests,
\* edits and patches in between (switch_fsm.c:24-86).
THEOREM TriggersAlwaysFit == SwitchSpec => []TriggersFit
<1>1. SwitchInv => TriggersFit
  BY DEF SwitchInv, TapInv, HoldInv, TriggersFit
<1>2. SwitchInit => SwitchInv
  BY SwitchStart
<1>3. SwitchInv /\ [SwitchNext]_switchVars => SwitchInv'
  BY SwitchStep
<1>4. QED
  BY <1>1, <1>2, <1>3, PTL DEF SwitchSpec


-----------------------------------------------------------------------------
(* The events: the invariant.                                              *)

Confs == [profile : ProfileNames, at : Locations, drafts : SUBSET Locations,
          revision : Nat, patch : Nat]
Memories == [observed : BOOLEAN, profile : ProfileNames, at : Locations, drafts : SUBSET Locations,
             revision : Nat, patch : Nat, events : SUBSET EventKinds,
             saved : SUBSET Locations, discarded : SUBSET Locations, fired : SUBSET (0..MaxChanges)]
Clients == [at : SUBSET Locations, edition : SUBSET (0..MaxChanges),
            drafts : SUBSET SUBSET Locations, ending : [Locations -> Endings]]

\* What u remembers is c, or what c was before a foot selected and drafts were saved by
\* themselves.
Remembers(u, c) ==
  /\ u.observed /\ u.profile = c.profile
  /\ u.revision <= c.revision /\ u.patch <= c.patch /\ c.drafts \subseteq u.drafts
  /\ u.patch = c.patch => u.at = c.at
  /\ u.revision = c.revision => u.drafts = c.drafts /\ u.patch = c.patch

\* What u has to tell of the drafts that ended, where e are the endings: all that the
\* client k does not know, and nothing that is over, but for what has not been seen yet.
EndingsPend(u, c, e, k) ==
  /\ u.saved # {} => "saved" \in u.events
  /\ u.discarded # {} => "discarded" \in u.events
  /\ \A l \in u.saved : e[l] = "saved"
  /\ \A l \in u.discarded : e[l] = "discarded" \/ l \in u.drafts \ c.drafts
  /\ \A l \in u.drafts \ c.drafts : e[l] = "saved"
  /\ \A l \in Locations : e[l] # "none" =>
       k.ending[l] = e[l] \/ l \in u.saved \cup u.discarded \cup (u.drafts \ c.drafts)

\* What it has to tell of the drafts and of what is played, in edition n.
PlayPends(u, c, n, k) ==
  /\ "dirty" \notin u.events => k.drafts \subseteq {u.drafts}
  /\ u.patch = c.patch =>
       /\ u.fired \subseteq {n}
       /\ "patch" \notin u.events => k.at \subseteq {c.at} /\ k.edition \subseteq {n}

Pends(u, c, n, e, k) == Remembers(u, c) /\ EndingsPend(u, c, e, k) /\ PlayPends(u, c, n, k)

UiInv ==
  /\ UiTypeOK
  /\ edition <= changes
  /\ conf.profile # "" => conf.revision > 0
  /\ linked => Pends(ui, conf, edition, last, client)

-----------------------------------------------------------------------------
(* The events: what a look at the configuration remembers.                 *)

\* The memory v after a look at c.
Looked(c, v) ==
  /\ v \in Memories /\ v.observed /\ v.profile = c.profile /\ v.at = c.at
  /\ v.drafts = c.drafts /\ v.revision = c.revision /\ v.patch = c.patch
Memory(c, events, saved, discarded, fired) ==
  [observed |-> TRUE, profile |-> c.profile, at |-> c.at, drafts |-> c.drafts,
   revision |-> c.revision, patch |-> c.patch, events |-> events, saved |-> saved,
   discarded |-> discarded, fired |-> fired]

MemoryParts(c, events, saved, discarded, fired) ==
  /\ c \in Confs /\ events \in SUBSET EventKinds /\ saved \in SUBSET Locations
  /\ discarded \in SUBSET Locations /\ fired \in SUBSET (0 .. MaxChanges)

LEMMA MemoryIs ==
  ASSUME NEW c, NEW events, NEW saved, NEW discarded, NEW fired,
         MemoryParts(c, events, saved, discarded, fired)
  PROVE  LET v == Memory(c, events, saved, discarded, fired)
         IN /\ Looked(c, v) /\ v.events = events /\ v.saved = saved
            /\ v.discarded = discarded /\ v.fired = fired
<1>1. Memory(c, events, saved, discarded, fired) \in Memories
  BY DEF Memory, Memories, Confs, MemoryParts
<1>2. QED
  BY <1>1 DEF Memory, Looked

\* What it tells then of a memory u of the same profile.
Replayed(u, c) == u.patch # c.patch \/ u.at # c.at
StillFired(u, c) == IF Replayed(u, c) THEN {} ELSE u.fired
Tells(u, c, ending) ==
  u.events \cup (IF u.drafts \ c.drafts = {} THEN {} ELSE {ending})
           \cup (IF u.drafts = c.drafts THEN {} ELSE {"dirty"})
           \cup (IF Replayed(u, c) THEN {"patch"} ELSE {})

\* The memory v after a look at c that took the drafts that are gone for ended so.
Shown(u, c, ending, v) ==
  /\ Looked(c, v) /\ v.events = Tells(u, c, ending) /\ v.fired = StillFired(u, c)
  /\ ending = "saved" =>
       v.saved = u.saved \cup (u.drafts \ c.drafts) /\ v.discarded = u.discarded \ (u.drafts \ c.drafts)
  /\ ending = "discarded" =>
       v.saved = u.saved \ (u.drafts \ c.drafts) /\ v.discarded = u.discarded \cup (u.drafts \ c.drafts)

LEMMA TellsIs ==
  ASSUME NEW u \in Memories, NEW c \in Confs, NEW ending \in EventKinds
  PROVE  /\ Tells(u, c, ending) \in SUBSET EventKinds /\ StillFired(u, c) \in SUBSET (0 .. MaxChanges)
         /\ u.drafts \in SUBSET Locations /\ u.saved \in SUBSET Locations
         /\ u.discarded \in SUBSET Locations
BY DEF Tells, StillFired, Memories, EventKinds

LEMMA TellsWhat ==
  ASSUME NEW u, NEW c, NEW ending
  PROVE  /\ u.events \subseteq Tells(u, c, ending)
         /\ u.drafts \ c.drafts # {} => ending \in Tells(u, c, ending)
         /\ u.drafts # c.drafts => "dirty" \in Tells(u, c, ending)
         /\ Replayed(u, c) => "patch" \in Tells(u, c, ending)
BY DEF Tells

\* A look that finds the profile of before takes the drafts that are gone for saved.
LEMMA LookPlain ==
  ASSUME NEW u \in Memories, NEW c \in Confs, u.observed, u.profile = c.profile,
         u.revision # c.revision, NEW v, v = Observe(u, c, FALSE)
  PROVE  Shown(u, c, "saved", v)
<1> DEFINE removed == u.drafts \ c.drafts
<1> DEFINE told == Tells(u, c, "saved")
           saved == u.saved \cup removed
           discarded == u.discarded \ removed
           fired == StillFired(u, c)
<1>1. Observe(u, c, FALSE) =
        [u EXCEPT !.observed = TRUE, !.profile = c.profile, !.at = c.at, !.drafts = c.drafts,
                  !.revision = c.revision, !.patch = c.patch, !.events = told,
                  !.saved = saved, !.discarded = discarded, !.fired = fired]
  BY DEF Observe, Tells, StillFired, Replayed, Memories
<1>2. "saved" \in EventKinds
  BY DEF EventKinds
<1>3. MemoryParts(c, told, saved, discarded, fired)
  BY <1>2, TellsIs DEF MemoryParts
<1> HIDE DEF told, saved, discarded, fired
<1>4. v = Memory(c, told, saved, discarded, fired)
  BY <1>1 DEF Memories, Memory
<1>5. /\ Looked(c, v) /\ v.events = told /\ v.saved = saved /\ v.discarded = discarded
      /\ v.fired = fired
  <2>1. LET w == Memory(c, told, saved, discarded, fired)
        IN /\ Looked(c, w) /\ w.events = told /\ w.saved = saved
           /\ w.discarded = discarded /\ w.fired = fired
    BY ONLY <1>3, MemoryIs
  <2>2. QED
    BY ONLY <1>4, <2>1
<1>6. QED
  BY <1>5 DEF Shown, told, saved, discarded, fired

\* A look at the end of a request that discards.
LEMMA LookDiscarding ==
  ASSUME NEW u \in Memories, NEW c \in Confs, u.observed, u.profile = c.profile,
         u.revision # c.revision, NEW v, v = Observe(u, c, TRUE)
  PROVE  Shown(u, c, "discarded", v)
<1> DEFINE removed == u.drafts \ c.drafts
<1> DEFINE told == Tells(u, c, "discarded")
           saved == u.saved \ removed
           discarded == u.discarded \cup removed
           fired == StillFired(u, c)
<1>1. Observe(u, c, TRUE) =
        [u EXCEPT !.observed = TRUE, !.profile = c.profile, !.at = c.at, !.drafts = c.drafts,
                  !.revision = c.revision, !.patch = c.patch, !.events = told,
                  !.saved = saved, !.discarded = discarded, !.fired = fired]
  BY DEF Observe, Tells, StillFired, Replayed, Memories
<1>2. "discarded" \in EventKinds
  BY DEF EventKinds
<1>3. MemoryParts(c, told, saved, discarded, fired)
  BY <1>2, TellsIs DEF MemoryParts
<1> HIDE DEF told, saved, discarded, fired
<1>4. v = Memory(c, told, saved, discarded, fired)
  BY <1>1 DEF Memories, Memory
<1>5. /\ Looked(c, v) /\ v.events = told /\ v.saved = saved /\ v.discarded = discarded
      /\ v.fired = fired
  <2>1. LET w == Memory(c, told, saved, discarded, fired)
        IN /\ Looked(c, w) /\ w.events = told /\ w.saved = saved
           /\ w.discarded = discarded /\ w.fired = fired
    BY ONLY <1>3, MemoryIs
  <2>2. QED
    BY ONLY <1>4, <2>1
<1>6. QED
  BY <1>5 DEF Shown, told, saved, discarded, fired

\* A look that finds another profile tells of it, and of nothing else.
LEMMA LookMoved ==
  ASSUME NEW u \in Memories, NEW c \in Confs, u.observed, u.profile # c.profile,
         u.revision # c.revision, NEW v, v = Observe(u, c, FALSE)
  PROVE  /\ Looked(c, v) /\ "patch" \in v.events /\ "dirty" \in v.events
         /\ v.saved = {} /\ v.discarded = {} /\ v.fired = {}
<1> DEFINE events == {"global", "dirty", "patch"}
<1>1. v = Memory(c, events, {}, {}, {})
  BY DEF Observe, Memory, Memories, Confs
<1>2. MemoryParts(c, events, {}, {}, {})
  BY DEF MemoryParts, EventKinds
<1>3. "patch" \in events /\ "dirty" \in events
  OBVIOUS
<1> HIDE DEF events
<1>4. LET w == Memory(c, events, {}, {}, {})
      IN /\ Looked(c, w) /\ w.events = events /\ w.saved = {}
         /\ w.discarded = {} /\ w.fired = {}
  BY ONLY <1>2, MemoryIs
<1>5. QED
  BY ONLY <1>1, <1>3, <1>4

\* A look that finds the revision of before.
LEMMA LookAgain ==
  ASSUME NEW u, NEW c, u.observed, u.revision = c.revision
  PROVE  Observe(u, c, FALSE) = u
BY DEF Observe

\* The first look of a session has nothing to tell.
LEMMA FirstLook ==
  ASSUME NEW u \in Memories, NEW c \in Confs, NEW v, v = Forgotten(u, c)
  PROVE  /\ Looked(c, v) /\ v.events = {} /\ v.saved = {} /\ v.discarded = {} /\ v.fired = {}
<1>1. v = Memory(c, {}, {}, {}, {})
  <2> DEFINE w == [u EXCEPT !.observed = FALSE, !.events = {}, !.saved = {}, !.discarded = {},
                            !.fired = {}]
  <2>1. v = Observe(w, c, FALSE)
    BY DEF Forgotten
  <2>2. w \in Memories /\ ~w.observed
    BY DEF Memories
  <2>3. w.events = {} /\ w.saved = {} /\ w.discarded = {} /\ w.fired = {}
    BY DEF Memories
  <2> HIDE DEF w
  <2>4. v = [w EXCEPT !.observed = TRUE, !.profile = c.profile, !.at = c.at, !.drafts = c.drafts,
                      !.revision = c.revision, !.patch = c.patch]
    BY <2>1, <2>2 DEF Observe
  <2>5. QED
    BY ONLY <2>2, <2>3, <2>4 DEF Memory, Memories
<1>2. MemoryParts(c, {}, {}, {}, {})
  BY DEF MemoryParts
<1>3. QED
  BY <1>1, <1>2, MemoryIs

LEMMA LookedRemembers ==
  ASSUME NEW c \in Confs, NEW v, Looked(c, v)
  PROVE  Remembers(v, c)
<1>1. c.revision \in Nat /\ c.patch \in Nat
  BY DEF Confs
<1>2. QED
  BY ONLY <1>1, Looked(c, v) DEF Looked, Remembers

-----------------------------------------------------------------------------
(* The events: what each change of the configuration is.                   *)

\* A change x of the configuration c within its profile.
ChangeOf(x, c) ==
  /\ x.conf \in Confs /\ x.conf.profile = c.profile
  /\ x.conf.revision > c.revision /\ x.conf.patch >= c.patch
  /\ x.replays => x.conf.patch # c.patch
  /\ ~x.replays => x.conf.patch = c.patch /\ x.conf.at = c.at
  /\ x.ended = c.drafts \ x.conf.drafts
\* It ends drafts as saved, or as discarded.
Ends(x, how) == x.ended # {} => x.how = how

AdvancedTo(n, k, at, drafts) == [Advanced(conf, n, k) EXCEPT !.at = at, !.drafts = drafts]
AdvancedParts(n, k, at, drafts) ==
  conf \in Confs /\ n \in Nat /\ k \in Nat /\ at \in Locations /\ drafts \in SUBSET Locations

LEMMA AdvancedIs ==
  ASSUME NEW n, NEW k, NEW at, NEW drafts, AdvancedParts(n, k, at, drafts)
  PROVE  LET c == AdvancedTo(n, k, at, drafts)
         IN /\ c \in Confs /\ c.profile = conf.profile /\ c.at = at /\ c.drafts = drafts
            /\ c.revision = conf.revision + n /\ c.patch = conf.patch + k
<1> DEFINE c == AdvancedTo(n, k, at, drafts)
<1>1. c = [profile |-> conf.profile, at |-> at, drafts |-> drafts,
           revision |-> conf.revision + n, patch |-> conf.patch + k]
  <2>1. c = [conf EXCEPT !.revision = conf.revision + n, !.patch = conf.patch + k,
                         !.at = at, !.drafts = drafts]
    BY DEF Advanced, AdvancedTo, AdvancedParts, Confs
  <2> HIDE DEF c
  <2>2. QED
    BY <2>1 DEF AdvancedParts, Confs
<1>2. conf.revision + n \in Nat /\ conf.patch + k \in Nat /\ conf.profile \in ProfileNames
  BY DEF Confs, AdvancedParts
<1> HIDE DEF c
<1>3. c \in Confs
  BY <1>1, <1>2 DEF Confs, AdvancedParts
<1>4. /\ c.profile = conf.profile /\ c.at = at /\ c.drafts = drafts
      /\ c.revision = conf.revision + n /\ c.patch = conf.patch + k
  BY ONLY <1>1
<1>5. QED
  BY <1>3, <1>4 DEF c

LEMMA HereIs ==
  ASSUME NEW done
  PROVE  /\ Here(done) \in Nat /\ (Here(done) > 0 <=> conf.at \in done)
         /\ conf.at \notin done => Here(done) = 0
BY DEF Here

LEMMA SelectedIs ==
  ASSUME conf \in Confs, NEW l \in Locations, NEW x, x = Selected(l)
  PROVE  ChangeOf(x, conf) /\ x.ended = {} /\ x.conf.drafts = conf.drafts
<1> DEFINE c == AdvancedTo(1, 1, l, conf.drafts)
<1>1. x.conf = c /\ x.replays = TRUE /\ x.ended = {}
  BY DEF Selected, Plain, Advanced, AdvancedTo, Confs
<1>2. conf.drafts \in SUBSET Locations /\ conf.revision \in Nat /\ conf.patch \in Nat
  BY DEF Confs
<1>3. /\ c \in Confs /\ c.profile = conf.profile /\ c.at = l /\ c.drafts = conf.drafts
      /\ c.revision = conf.revision + 1 /\ c.patch = conf.patch + 1
  <2>1. AdvancedParts(1, 1, l, conf.drafts)
    BY <1>2 DEF AdvancedParts
  <2>2. QED
    BY ONLY <2>1, AdvancedIs
<1> HIDE DEF c
<1>4. QED
  BY <1>1, <1>2, <1>3 DEF ChangeOf

LEMMA EditedIs ==
  ASSUME conf \in Confs, NEW l \in Locations, NEW x, x = Edited(l)
  PROVE  ChangeOf(x, conf) /\ x.ended = {}
<1> DEFINE k == Here({l})
           c == AdvancedTo(1, k, conf.at, conf.drafts \cup {l})
<1>1. x.conf = c /\ x.replays = (l = conf.at) /\ x.ended = {}
  BY DEF Edited, Plain, Advanced, AdvancedTo, Confs
<1>2. /\ conf.drafts \cup {l} \in SUBSET Locations /\ conf.revision \in Nat
      /\ conf.patch \in Nat /\ conf.at \in Locations
  BY DEF Confs
<1>3. k \in Nat /\ (l = conf.at => k > 0) /\ (l # conf.at => k = 0)
  BY HereIs
<1> HIDE DEF k
<1>4. /\ c \in Confs /\ c.profile = conf.profile /\ c.at = conf.at /\ c.drafts = conf.drafts \cup {l}
      /\ c.revision = conf.revision + 1 /\ c.patch = conf.patch + k
  <2>1. AdvancedParts(1, k, conf.at, conf.drafts \cup {l})
    BY <1>2, <1>3 DEF AdvancedParts
  <2>2. QED
    BY ONLY <2>1, AdvancedIs
<1> HIDE DEF c
<1>5. x.replays <=> l = conf.at
  BY <1>1
<1>6. QED
  BY <1>1, <1>2, <1>3, <1>4, <1>5 DEF ChangeOf

LEMMA ReconfiguredIs ==
  ASSUME conf \in Confs, NEW x, x = Reconfigured
  PROVE  ChangeOf(x, conf) /\ x.ended = {}
<1> DEFINE c == AdvancedTo(1, 0, conf.at, conf.drafts)
<1>1. x.conf = c /\ x.replays = FALSE /\ x.ended = {}
  BY DEF Reconfigured, Plain, Advanced, AdvancedTo, Confs
<1>2. /\ conf.drafts \in SUBSET Locations /\ conf.revision \in Nat /\ conf.patch \in Nat
      /\ conf.at \in Locations
  BY DEF Confs
<1>3. /\ c \in Confs /\ c.profile = conf.profile /\ c.at = conf.at /\ c.drafts = conf.drafts
      /\ c.revision = conf.revision + 1 /\ c.patch = conf.patch + 0
  <2>1. AdvancedParts(1, 0, conf.at, conf.drafts)
    BY <1>2 DEF AdvancedParts
  <2>2. QED
    BY ONLY <2>1, AdvancedIs
<1> HIDE DEF c
<1>4. QED
  BY <1>1, <1>2, <1>3 DEF ChangeOf

\* A save or a discard settles at least one draft, which the revision counts.
LEMMA SettledIs ==
  ASSUME conf \in Confs, NEW done \in SUBSET conf.drafts, done # {},
         NEW how \in {"saved", "discarded"}, NEW x, x = Settled(done, how)
  PROVE  /\ ChangeOf(x, conf) /\ Ends(x, how) /\ x.how = how
         /\ x.conf.drafts \subseteq conf.drafts
<1> DEFINE n == Cardinality(done)
           k == IF how = "discarded" THEN Here(done) ELSE 0
           c == AdvancedTo(n, k, conf.at, conf.drafts \ done)
<1>1. x.conf = c /\ x.replays = (k > 0) /\ x.ended = done /\ x.how = how
  BY DEF Settled, Advanced, AdvancedTo, Confs
<1>2. /\ conf.drafts \ done \in SUBSET Locations /\ conf.revision \in Nat
      /\ conf.patch \in Nat /\ conf.at \in Locations /\ done \in SUBSET Locations
  BY DEF Confs
<1>3. n \in Nat /\ n > 0
  <2>1. IsFiniteSet(done)
    BY <1>2, UiAssumption, FS_Subset
  <2>2. Cardinality(done) \in Nat /\ Cardinality(done) # 0
    BY <2>1, FS_CardinalityType, FS_EmptySet
  <2>3. QED
    BY <2>2
<1>4. k \in Nat
  BY HereIs
<1> HIDE DEF n, k
<1>5. /\ c \in Confs /\ c.profile = conf.profile /\ c.at = conf.at /\ c.drafts = conf.drafts \ done
      /\ c.revision = conf.revision + n /\ c.patch = conf.patch + k
  <2>1. AdvancedParts(n, k, conf.at, conf.drafts \ done)
    BY <1>2, <1>3, <1>4 DEF AdvancedParts
  <2>2. QED
    BY ONLY <2>1, AdvancedIs
<1> HIDE DEF c
<1>6. x.replays <=> k > 0
  BY <1>1
<1>7. QED
  BY <1>1, <1>2, <1>3, <1>4, <1>5, <1>6 DEF ChangeOf, Ends

LEMMA RemovedIs ==
  ASSUME conf \in Confs, NEW l \in Locations, NEW x, x = Removed(l)
  PROVE  ChangeOf(x, conf) /\ Ends(x, "discarded") /\ x.how = "discarded"
<1> DEFINE ended == {l} \cap conf.drafts
           n == 1 + Cardinality(ended)
           k == Here({l}) + Here(ended)
           c == AdvancedTo(n, k, conf.at, conf.drafts \ ended)
<1>1. x.conf = c /\ x.replays = (l = conf.at) /\ x.ended = ended /\ x.how = "discarded"
  BY DEF Removed, Advanced, AdvancedTo, Confs
<1>2. /\ conf.drafts \ ended \in SUBSET Locations /\ conf.revision \in Nat
      /\ conf.patch \in Nat /\ conf.at \in Locations /\ ended \subseteq conf.drafts
  BY DEF Confs
<1>3. n \in Nat /\ n > 0
  <2>1. IsFiniteSet(ended)
    <3>1. IsFiniteSet({l}) /\ ended \in SUBSET {l}
      BY FS_Singleton
    <3>2. QED
      BY ONLY <3>1, FS_Subset
  <2>2. Cardinality(ended) \in Nat
    BY <2>1, FS_CardinalityType
  <2>3. QED
    BY <2>2
<1>4. k \in Nat /\ (l = conf.at => k > 0) /\ (l # conf.at => k = 0)
  BY HereIs
<1> HIDE DEF n, k, ended
<1>5. /\ c \in Confs /\ c.profile = conf.profile /\ c.at = conf.at /\ c.drafts = conf.drafts \ ended
      /\ c.revision = conf.revision + n /\ c.patch = conf.patch + k
  <2>1. AdvancedParts(n, k, conf.at, conf.drafts \ ended)
    BY <1>2, <1>3, <1>4 DEF AdvancedParts
  <2>2. QED
    BY ONLY <2>1, AdvancedIs
<1> HIDE DEF c
<1>6. x.replays <=> l = conf.at
  BY <1>1
<1>7. QED
  BY <1>1, <1>2, <1>3, <1>4, <1>5, <1>6 DEF ChangeOf, Ends

\* A profile that is loaded, or none: another one, or a change within its own.
LEMMA LoadedIs ==
  ASSUME NEW name \in ProfileNames, NEW drafts \in SUBSET Locations, NEW n \in Nat, NEW k \in Nat,
         NEW c, c = Loaded(name, drafts, n, k)
  PROVE  /\ c \in Confs /\ c.profile = name /\ c.at = FirstLocation /\ c.drafts = drafts
         /\ c.revision = n /\ c.patch = k
BY UiAssumption DEF Loaded, Confs

LEMMA ActivatedIs ==
  ASSUME conf \in Confs, NEW name \in ProfileNames, NEW drafts \in SUBSET Locations,
         name = conf.profile => drafts = conf.drafts, NEW x, x = Activated(name, drafts)
  PROVE  /\ x.conf \in Confs /\ x.conf.revision > conf.revision /\ x.conf.profile = name
         /\ x.ended = {} /\ (name = conf.profile => ChangeOf(x, conf))
<1> DEFINE c == Loaded(name, drafts, conf.revision + 1, conf.patch + 1)
<1>1. x.conf = c /\ x.replays = TRUE /\ x.ended = {}
  BY DEF Activated, Plain
<1>2. conf.revision \in Nat /\ conf.patch \in Nat
  BY DEF Confs
<1>3. /\ c \in Confs /\ c.profile = name /\ c.at = FirstLocation /\ c.drafts = drafts
      /\ c.revision = conf.revision + 1 /\ c.patch = conf.patch + 1
  BY <1>2, LoadedIs
<1> HIDE DEF c
<1>4. QED
  BY <1>1, <1>2, <1>3 DEF ChangeOf

-----------------------------------------------------------------------------
(* The events: looks and changes keep the invariant.  What is played is in *)
(* edition n and becomes m; the endings e become those after the change x. *)

Ended(e, x) == [l \in Locations |-> IF l \in x.ended THEN x.how ELSE e[l]]
Edition(n, x, m) == IF x.replays THEN m ELSE n

LEMMA LookKeeps ==
  ASSUME NEW u \in Memories, NEW c \in Confs, NEW n, NEW e, NEW k, Pends(u, c, n, e, k),
         NEW v, v = Observe(u, c, FALSE)
  PROVE  Looked(c, v) /\ Pends(v, c, n, e, k)
<1>1. CASE u.revision = c.revision
  <2>1. v = u
    BY <1>1, LookAgain DEF Pends, Remembers
  <2>2. QED
    BY <1>1, <2>1 DEF Pends, Remembers, Looked
<1>2. CASE u.revision # c.revision
  <2> DEFINE removed == u.drafts \ c.drafts
             told == Tells(u, c, "saved")
  <2>1. /\ Looked(c, v) /\ v.events = told /\ v.fired = StillFired(u, c)
        /\ v.saved = u.saved \cup removed /\ v.discarded = u.discarded \ removed
    <3>1. u.observed /\ u.profile = c.profile
      BY DEF Pends, Remembers
    <3>2. Shown(u, c, "saved", v)
      BY <1>2, <3>1, LookPlain
    <3>3. QED
      BY <3>2 DEF Shown
  <2>2. /\ u.events \subseteq told /\ (removed # {} => "saved" \in told)
        /\ (u.drafts # c.drafts => "dirty" \in told) /\ (Replayed(u, c) => "patch" \in told)
    BY TellsWhat
  <2> HIDE DEF told
  <2>3. Remembers(v, c)
    BY <2>1, LookedRemembers
  <2>4. EndingsPend(v, c, e, k)
    BY <2>1, <2>2 DEF Pends, EndingsPend, Looked
  <2>5. PlayPends(v, c, n, k)
    <3>1. ~Replayed(u, c) => u.patch = c.patch
      BY DEF Replayed
    <3>2. QED
      BY <2>1, <2>2, <3>1 DEF Pends, PlayPends, Looked, StillFired
  <2>6. QED
    BY <2>1, <2>3, <2>4, <2>5 DEF Pends
<1>3. QED
  BY <1>1, <1>2

\* A change within a profile that is looked at, and ended drafts as the look takes them.
LEMMA ChangeSeen ==
  ASSUME NEW u \in Memories, NEW c \in Confs, NEW n, NEW e, NEW k, Looked(c, u),
         Pends(u, c, n, e, k), NEW x, ChangeOf(x, c), NEW m,
         NEW how \in {"saved", "discarded"}, Ends(x, how),
         NEW v, Shown(u, x.conf, how, v)
  PROVE  Looked(x.conf, v) /\ Pends(v, x.conf, Edition(n, x, m), Ended(e, x), k)
<1> DEFINE d == x.conf
           removed == u.drafts \ d.drafts
           told == Tells(u, d, how)
<1>0. d \in Confs /\ d.revision > c.revision /\ d.profile = c.profile
  BY DEF ChangeOf
<1> HIDE DEF d
<1>1. /\ Looked(d, v) /\ v.events = told /\ v.fired = StillFired(u, d)
      /\ how = "saved" => v.saved = u.saved \cup removed /\ v.discarded = u.discarded \ removed
      /\ how = "discarded" => v.saved = u.saved \ removed /\ v.discarded = u.discarded \cup removed
  BY DEF Shown, d
<1>2. /\ u.events \subseteq told /\ (removed # {} => how \in told)
      /\ (u.drafts # d.drafts => "dirty" \in told) /\ (Replayed(u, d) => "patch" \in told)
  BY TellsWhat
<1> HIDE DEF told
<1>3. Remembers(v, d)
  BY <1>0, <1>1, LookedRemembers
<1>4. x.ended = removed /\ u.drafts = c.drafts
  BY DEF ChangeOf, Looked, d
<1>5. EndingsPend(v, d, Ended(e, x), k)
  <2>1. \A l \in Locations : Ended(e, x)[l] = IF l \in removed THEN how ELSE e[l]
    BY <1>4 DEF Ended, Ends
  <2>2. v.saved \subseteq Locations /\ v.discarded \subseteq Locations /\ v.drafts = d.drafts
    BY <1>1 DEF Looked, Memories
  <2>3. EndingsPend(u, c, e, k)
    BY DEF Pends
  <2> HIDE DEF removed
  <2>4. (v.saved # {} => "saved" \in v.events) /\ (v.discarded # {} => "discarded" \in v.events)
    BY <1>1, <1>2, <2>3 DEF EndingsPend
  <2>5. \A l \in v.saved : Ended(e, x)[l] = "saved"
    BY <1>1, <2>1, <2>2, <2>3 DEF EndingsPend
  <2>6. \A l \in v.discarded : Ended(e, x)[l] = "discarded"
    BY <1>1, <1>4, <2>1, <2>2, <2>3 DEF EndingsPend
  <2>7. \A l \in Locations : Ended(e, x)[l] # "none" =>
          k.ending[l] = Ended(e, x)[l] \/ l \in v.saved \cup v.discarded
    BY <1>1, <1>4, <2>1, <2>3 DEF EndingsPend
  <2>8. QED
    BY <2>2, <2>4, <2>5, <2>6, <2>7 DEF EndingsPend
<1>6. PlayPends(v, d, Edition(n, x, m), k)
  <2>1. u.patch = c.patch /\ PlayPends(u, c, n, k)
    BY DEF Looked, Pends
  <2>2. ~Replayed(u, d) => Edition(n, x, m) = n /\ d.at = c.at
    BY <2>1 DEF Looked, ChangeOf, Replayed, Edition, d
  <2>3. "dirty" \notin v.events => k.drafts \subseteq {v.drafts}
    BY <1>1, <1>2, <2>1 DEF PlayPends, Looked
  <2>4. v.fired \subseteq {Edition(n, x, m)}
    BY <1>1, <2>1, <2>2 DEF PlayPends, StillFired
  <2>5. "patch" \notin v.events => k.at \subseteq {d.at} /\ k.edition \subseteq {Edition(n, x, m)}
    BY <1>1, <1>2, <2>1, <2>2 DEF PlayPends
  <2>6. QED
    BY <2>3, <2>4, <2>5 DEF PlayPends
<1>7. QED
  BY <1>1, <1>3, <1>5, <1>6 DEF Pends, d

\* One that no request made, and that is not looked at yet.
LEMMA ChangeUnseen ==
  ASSUME NEW u \in Memories, NEW c \in Confs, NEW n, NEW e, NEW k, Pends(u, c, n, e, k),
         NEW x, ChangeOf(x, c), Ends(x, "saved"), x.conf.drafts \subseteq c.drafts, NEW m
  PROVE  Pends(u, x.conf, Edition(n, x, m), Ended(e, x), k)
<1> DEFINE d == x.conf
<1>1. /\ d \in Confs /\ d.revision > c.revision /\ d.profile = c.profile /\ d.patch >= c.patch
      /\ d.drafts \subseteq c.drafts /\ x.ended = c.drafts \ d.drafts
      /\ d.patch = c.patch => Edition(n, x, m) = n /\ d.at = c.at
  BY DEF ChangeOf, Edition
<1> HIDE DEF d
<1>2. Remembers(u, c) /\ EndingsPend(u, c, e, k) /\ PlayPends(u, c, n, k)
  BY DEF Pends
<1>3. /\ {u.patch, u.revision, c.patch, c.revision, d.patch, d.revision} \subseteq Nat
      /\ u.saved \subseteq Locations /\ u.discarded \subseteq Locations /\ u.drafts \subseteq Locations
  BY <1>1 DEF Memories, Confs
<1>4. u.patch = d.patch => u.patch = c.patch /\ d.patch = c.patch
  BY <1>1, <1>2, <1>3 DEF Remembers
<1>5. Remembers(u, d)
  BY <1>1, <1>2, <1>3, <1>4 DEF Remembers
<1>6. EndingsPend(u, d, Ended(e, x), k)
  <2>1. \A l \in Locations : Ended(e, x)[l] = IF l \in x.ended THEN "saved" ELSE e[l]
    BY DEF Ended, Ends
  <2>2. u.drafts \ d.drafts = (u.drafts \ c.drafts) \cup x.ended
    BY <1>1, <1>2 DEF Remembers
  <2>3. QED
    BY <1>2, <1>3, <2>1, <2>2 DEF EndingsPend
<1>7. PlayPends(u, d, Edition(n, x, m), k)
  BY <1>1, <1>2, <1>4 DEF PlayPends
<1>8. QED
  BY <1>5, <1>6, <1>7 DEF Pends, d

\* A look that finds another profile, or none.
LEMMA ChangeMoved ==
  ASSUME NEW u \in Memories, NEW c \in Confs, Looked(c, u), NEW d \in Confs, d.profile # c.profile,
         d.revision # c.revision, NEW n, NEW k, NEW v, v = Observe(u, d, FALSE)
  PROVE  Looked(d, v) /\ Pends(v, d, n, NoEnding, k)
<1>1. u.observed /\ u.profile # d.profile /\ u.revision # d.revision
  BY DEF Looked
<1>2. /\ Looked(d, v) /\ "patch" \in v.events /\ "dirty" \in v.events
      /\ v.saved = {} /\ v.discarded = {} /\ v.fired = {}
  BY <1>1, LookMoved
<1>3. Remembers(v, d)
  BY <1>2, LookedRemembers
<1>4. EndingsPend(v, d, NoEnding, k)
  BY <1>2 DEF Looked, EndingsPend, NoEnding
<1>5. PlayPends(v, d, n, k)
  BY <1>2 DEF PlayPends
<1>6. QED
  BY <1>2, <1>3, <1>4, <1>5 DEF Pends

\* What the two looks at the end of a request make of a change.
LEMMA RequestSeen ==
  ASSUME NEW u \in Memories, NEW c \in Confs, Looked(c, u), NEW x, ChangeOf(x, c)
  PROVE  /\ Shown(u, x.conf, "saved", Observe(u, x.conf, FALSE))
         /\ Shown(u, x.conf, "discarded", Observe(u, x.conf, TRUE))
<1>1. x.conf \in Confs /\ u.observed /\ u.profile = x.conf.profile /\ u.revision # x.conf.revision
  BY DEF Looked, ChangeOf, Confs
<1>2. QED
  BY <1>1, LookPlain, LookDiscarding

-----------------------------------------------------------------------------
(* The events: every step keeps the invariant.                             *)

LEMMA UiTypes ==
  UiTypeOK <=>
    /\ conf \in Confs /\ ui \in Memories /\ client \in Clients
    /\ linked \in BOOLEAN /\ sending \in BOOLEAN
    /\ changes \in 0 .. MaxChanges /\ edition \in 0 .. MaxChanges
    /\ last \in [Locations -> Endings]
BY DEF UiTypeOK, Confs, Memories, Clients

LEMMA UiTypesPrimed ==
  UiTypeOK' <=>
    /\ conf' \in Confs /\ ui' \in Memories /\ client' \in Clients
    /\ linked' \in BOOLEAN /\ sending' \in BOOLEAN
    /\ changes' \in 0 .. MaxChanges /\ edition' \in 0 .. MaxChanges
    /\ last' \in [Locations -> Endings]
BY DEF UiTypeOK, Confs, Memories, Clients

LEMMA Above ==
  ASSUME NEW a \in Nat, NEW b \in Nat, b > a
  PROVE  b > 0 /\ b # a
OBVIOUS

\* What becomes of the history.
LEMMA BecomesIs ==
  ASSUME UiInv, NEW x, Becomes(x), x.conf \in Confs,
         x.conf.profile # "" => x.conf.revision > 0,
         x.ended # {} => x.how \in Endings
  PROVE  /\ conf' = x.conf /\ changes' \in 0 .. MaxChanges /\ edition' \in 0 .. MaxChanges
         /\ edition' <= changes' /\ edition' = Edition(edition, x, changes')
         /\ last' \in [Locations -> Endings]
         /\ x.conf.profile # conf.profile => last' = NoEnding
         /\ x.conf.profile = conf.profile => last' = Ended(last, x)
         /\ conf'.profile # "" => conf'.revision > 0
<1>1. /\ conf' = x.conf /\ changes' = changes + 1 /\ changes < MaxChanges
      /\ edition' = Edition(edition, x, changes')
      /\ x.conf.profile # conf.profile => last' = NoEnding
      /\ x.conf.profile = conf.profile => last' = Ended(last, x)
  BY DEF Becomes, Edition, Ended
<1>2. /\ changes \in 0 .. MaxChanges /\ edition \in 0 .. MaxChanges /\ edition <= changes
      /\ last \in [Locations -> Endings] /\ MaxChanges \in Nat
  BY UiTypes, UiAssumption DEF UiInv
<1>3. changes' \in 0 .. MaxChanges /\ edition' \in 0 .. MaxChanges /\ edition' <= changes'
  <2>1. changes' \in 0 .. MaxChanges /\ edition \in 0 .. MaxChanges /\ edition <= changes'
    BY ONLY <1>1, <1>2
  <2>2. edition' = changes' \/ edition' = edition
    BY ONLY <1>1 DEF Edition
  <2>3. changes' <= changes'
    BY ONLY <2>1, <1>2
  <2>4. QED
    BY ONLY <2>1, <2>2, <2>3
<1>4. NoEnding \in [Locations -> Endings] /\ Ended(last, x) \in [Locations -> Endings]
  BY <1>2 DEF NoEnding, Ended, Endings
<1>5. QED
  BY <1>1, <1>3, <1>4

LEMMA ChangeIs ==
  ASSUME UiInv, NEW x, ChangeOf(x, conf), NEW how \in {"saved", "discarded"}, Ends(x, how), Becomes(x)
  PROVE  /\ conf' = x.conf /\ x.conf \in Confs /\ changes' \in 0 .. MaxChanges
         /\ edition' \in 0 .. MaxChanges /\ edition' <= changes'
         /\ edition' = Edition(edition, x, changes')
         /\ last' \in [Locations -> Endings] /\ last' = Ended(last, x)
         /\ conf'.profile # "" => conf'.revision > 0
<1>1. x.conf \in Confs /\ x.conf.profile = conf.profile /\ x.conf.revision > conf.revision
  BY DEF ChangeOf
<1>2. conf.revision \in Nat /\ x.conf.revision \in Nat
  BY <1>1, UiTypes DEF UiInv, Confs
<1>3. x.conf.revision > 0
  <2>1. x.conf.revision > conf.revision
    BY <1>1
  <2>2. QED
    BY ONLY <1>2, <2>1, Above
<1>4. x.ended # {} => x.how \in Endings
  BY DEF Ends, Endings
<1>5. QED
  BY <1>1, <1>3, <1>4, BecomesIs

\* A look before the request.
LEMMA BeforeIs ==
  ASSUME UiInv, linked
  PROVE  /\ Before(ui) \in Memories /\ Looked(conf, Before(ui))
         /\ Pends(Before(ui), conf, edition, last, client)
<1>1. ui \in Memories /\ conf \in Confs /\ Pends(ui, conf, edition, last, client)
  BY UiTypes DEF UiInv
<1>2. Looked(conf, Before(ui)) /\ Pends(Before(ui), conf, edition, last, client)
  BY <1>1, LookKeeps DEF Before
<1>3. QED
  BY <1>2 DEF Looked

\* A request that changes something within the profile, where u has been seen before it.
LEMMA RequestKeeps ==
  ASSUME UiInv, Served, UNCHANGED client, NEW x, ChangeOf(x, conf), Becomes(x),
         NEW how \in {"saved", "discarded"}, Ends(x, how),
         NEW u \in Memories, Looked(conf, u), Pends(u, conf, edition, last, client),
         Shown(u, x.conf, how, ui')
  PROVE  UiInv'
<1>1. conf \in Confs /\ client \in Clients
  BY UiTypes DEF UiInv
<1>2. /\ conf' = x.conf /\ x.conf \in Confs /\ changes' \in 0 .. MaxChanges
      /\ edition' \in 0 .. MaxChanges /\ edition' <= changes'
      /\ edition' = Edition(edition, x, changes')
      /\ last' \in [Locations -> Endings] /\ last' = Ended(last, x)
      /\ conf'.profile # "" => conf'.revision > 0
  BY ChangeIs
<1>3. Looked(x.conf, ui') /\ Pends(ui', x.conf, edition', last', client)
  BY <1>1, <1>2, ChangeSeen
<1>4. UiTypeOK'
  BY <1>1, <1>2, <1>3, UiTypesPrimed DEF Served, Looked
<1>5. QED
  BY <1>2, <1>3, <1>4 DEF UiInv

LEMMA SaverKeeps ==
  ASSUME UiInv, NEW x, ChangeOf(x, conf), Ends(x, "saved"), Requested(x, FALSE)
  PROVE  UiInv'
<1>1. linked /\ Served /\ Becomes(x) /\ UNCHANGED client /\ ui' = Observe(Before(ui), x.conf, FALSE)
  BY DEF Requested, Served
<1>2. conf \in Confs
  BY UiTypes DEF UiInv
<1>3. QED
  BY <1>1, <1>2, BeforeIs, RequestSeen, RequestKeeps

LEMMA DiscarderKeeps ==
  ASSUME UiInv, NEW x, ChangeOf(x, conf), Ends(x, "discarded"), Requested(x, TRUE)
  PROVE  UiInv'
<1>1. linked /\ Served /\ Becomes(x) /\ UNCHANGED client /\ ui' = Observe(Before(ui), x.conf, TRUE)
  BY DEF Requested, Served
<1>2. conf \in Confs
  BY UiTypes DEF UiInv
<1>3. QED
  BY <1>1, <1>2, BeforeIs, RequestSeen, RequestKeeps

\* That "global" is told as well changes nothing of what else is.
LEMMA GlobalKeeps ==
  ASSUME NEW u \in Memories, Looked(conf, u), Pends(u, conf, edition, last, client),
         NEW w, w = [u EXCEPT !.events = @ \cup {"global"}]
  PROVE  w \in Memories /\ Looked(conf, w) /\ Pends(w, conf, edition, last, client)
<1>1. w \in Memories
  BY DEF Memories, EventKinds
<1>2. /\ w.observed = u.observed /\ w.profile = u.profile /\ w.at = u.at /\ w.drafts = u.drafts
      /\ w.revision = u.revision /\ w.patch = u.patch /\ u.events \subseteq w.events
      /\ w.saved = u.saved /\ w.discarded = u.discarded /\ w.fired = u.fired
  BY DEF Memories
<1>3. Looked(conf, w)
  BY <1>1, <1>2 DEF Looked
<1>4. Remembers(w, conf) /\ EndingsPend(w, conf, last, client)
  BY <1>2 DEF Pends, Remembers, EndingsPend
<1>5. PlayPends(w, conf, edition, client)
  BY <1>2 DEF Pends, PlayPends
<1>6. QED
  BY <1>1, <1>3, <1>4, <1>5 DEF Pends

LEMMA PutGlobalKeeps ==
  ASSUME UiInv, PutGlobal
  PROVE  UiInv'
<1> DEFINE x == Reconfigured
           u == [Before(ui) EXCEPT !.events = @ \cup {"global"}]
<1>1. linked /\ Served /\ Becomes(x) /\ UNCHANGED client /\ conf' = x.conf
  BY DEF PutGlobal, Served, Becomes
<1>2. ui' = Observe(u, x.conf, FALSE)
  BY <1>1 DEF PutGlobal
<1>3. conf \in Confs
  BY UiTypes DEF UiInv
<1>4. ChangeOf(x, conf) /\ Ends(x, "saved")
  BY <1>3, ReconfiguredIs DEF Ends
<1>5. u \in Memories /\ Looked(conf, u) /\ Pends(u, conf, edition, last, client)
  BY <1>1, BeforeIs, GlobalKeeps
<1> HIDE DEF x, u
<1>6. Shown(u, x.conf, "saved", ui')
  BY <1>2, <1>3, <1>4, <1>5, RequestSeen
<1>7. QED
  BY <1>1, <1>4, <1>5, <1>6, RequestKeeps

LEMMA OnProfileKeeps ==
  ASSUME UiInv, OnProfile
  PROVE  UiInv'
<1>1. conf \in Confs
  BY UiTypes DEF UiInv
<1>2. CASE EditRequest
  <2>1. PICK l \in Locations : Requested(Edited(l), FALSE)
    BY <1>2 DEF EditRequest
  <2>2. ChangeOf(Edited(l), conf) /\ Ends(Edited(l), "saved")
    BY <1>1, EditedIs DEF Ends
  <2>3. QED
    BY <2>1, <2>2, SaverKeeps
<1>3. CASE SelectRequest
  <2>1. PICK l \in Locations : Requested(Selected(l), FALSE)
    BY <1>3 DEF SelectRequest
  <2>2. ChangeOf(Selected(l), conf) /\ Ends(Selected(l), "saved")
    BY <1>1, SelectedIs DEF Ends
  <2>3. QED
    BY <2>1, <2>2, SaverKeeps
<1>4. CASE SaveRequest
  <2>1. PICK done \in (SUBSET conf.drafts) \ {{}} : Requested(Settled(done, "saved"), FALSE)
    BY <1>4 DEF SaveRequest
  <2>2. ChangeOf(Settled(done, "saved"), conf) /\ Ends(Settled(done, "saved"), "saved")
    <3>1. done \in SUBSET conf.drafts /\ done # {} /\ "saved" \in {"saved", "discarded"}
      OBVIOUS
    <3>2. QED
      BY ONLY <1>1, <3>1, SettledIs
  <2>3. QED
    BY <2>1, <2>2, SaverKeeps
<1>5. CASE DiscardRequest
  <2>1. PICK done \in (SUBSET conf.drafts) \ {{}} : Requested(Settled(done, "discarded"), TRUE)
    BY <1>5 DEF DiscardRequest
  <2>2. ChangeOf(Settled(done, "discarded"), conf) /\ Ends(Settled(done, "discarded"), "discarded")
    <3>1. done \in SUBSET conf.drafts /\ done # {} /\ "discarded" \in {"saved", "discarded"}
      OBVIOUS
    <3>2. QED
      BY ONLY <1>1, <3>1, SettledIs
  <2>3. QED
    BY <2>1, <2>2, DiscarderKeeps
<1>6. CASE RemoveRequest
  <2>1. PICK l \in Locations : Requested(Removed(l), TRUE)
    BY <1>6 DEF RemoveRequest
  <2>2. ChangeOf(Removed(l), conf) /\ Ends(Removed(l), "discarded")
    BY <1>1, RemovedIs
  <2>3. QED
    BY <2>1, <2>2, DiscarderKeeps
<1>7. CASE PutGlobal
  BY <1>7, PutGlobalKeeps
<1>8. QED
  BY <1>2, <1>3, <1>4, <1>5, <1>6, <1>7 DEF OnProfile

\* Another profile, or none.
LEMMA MovedKeeps ==
  ASSUME UiInv, NEW x, x.conf \in Confs, x.conf.profile # conf.profile,
         x.conf.revision # conf.revision, x.conf.profile # "" => x.conf.revision > 0,
         x.ended = {}, Requested(x, FALSE)
  PROVE  UiInv'
<1>1. linked /\ Served /\ Becomes(x) /\ UNCHANGED client /\ ui' = Observe(Before(ui), x.conf, FALSE)
  BY DEF Requested, Served
<1>2. conf \in Confs /\ client \in Clients
  BY UiTypes DEF UiInv
<1>3. /\ conf' = x.conf /\ changes' \in 0 .. MaxChanges /\ edition' \in 0 .. MaxChanges
      /\ edition' <= changes' /\ last' \in [Locations -> Endings] /\ last' = NoEnding
      /\ conf'.profile # "" => conf'.revision > 0
  BY <1>1, BecomesIs
<1>4. Looked(x.conf, ui') /\ Pends(ui', x.conf, edition', NoEnding, client)
  BY <1>1, <1>2, BeforeIs, ChangeMoved
<1>5. UiTypeOK'
  BY <1>1, <1>2, <1>3, <1>4, UiTypesPrimed DEF Served, Looked
<1>6. QED
  BY <1>1, <1>3, <1>4, <1>5 DEF UiInv

LEMMA SwitchProfileKeeps ==
  ASSUME UiInv, SwitchProfile
  PROVE  UiInv'
<1>1. conf \in Confs
  BY UiTypes DEF UiInv
<1>2. PICK name \in ProfileNames \ {""}, drafts \in SUBSET Locations :
        /\ name = conf.profile => drafts = conf.drafts
        /\ Requested(Activated(name, drafts), FALSE)
  BY DEF SwitchProfile
<1> DEFINE x == Activated(name, drafts)
<1>3. /\ x.conf \in Confs /\ x.conf.revision > conf.revision /\ x.conf.profile = name
      /\ x.ended = {} /\ (name = conf.profile => ChangeOf(x, conf))
  BY <1>1, <1>2, ActivatedIs
<1>4. Requested(x, FALSE)
  BY <1>2
<1> HIDE DEF x
<1>5. CASE name = conf.profile
  BY <1>3, <1>4, <1>5, SaverKeeps DEF Ends
<1>6. CASE name # conf.profile
  <2>1. x.conf.revision # conf.revision /\ x.conf.revision > 0
    <3>1. conf.revision \in Nat /\ x.conf.revision \in Nat
      BY <1>1, <1>3 DEF Confs
    <3>2. x.conf.revision > conf.revision
      BY <1>3
    <3>3. QED
      BY ONLY <3>1, <3>2, Above
  <2>2. QED
    BY <1>3, <1>4, <1>6, <2>1, MovedKeeps
<1>7. QED
  BY <1>5, <1>6

LEMMA DeleteProfileKeeps ==
  ASSUME UiInv, DeleteProfile
  PROVE  UiInv'
<1> DEFINE x == Plain(NotLoaded, TRUE)
<1>1. conf \in Confs /\ conf.profile # "" /\ conf.revision > 0 /\ Requested(x, FALSE)
  BY UiTypes DEF UiInv, DeleteProfile
<1>2. x.conf = NotLoaded /\ x.ended = {}
  BY DEF Plain
<1> HIDE DEF x
<1>3. NotLoaded \in Confs /\ NotLoaded.profile = "" /\ NotLoaded.revision = 0
  BY UiAssumption DEF NotLoaded, Loaded, Confs, ProfileNames
<1>4. x.conf.profile # conf.profile /\ x.conf.revision # conf.revision
  <2>1. conf.revision > 0 /\ conf.revision \in Nat
    BY <1>1 DEF Confs
  <2>2. conf.revision # 0 /\ conf.profile # ""
    <3>1. 0 \in Nat
      OBVIOUS
    <3>2. conf.revision # 0
      BY ONLY <2>1, <3>1, Above
    <3>3. QED
      BY <1>1, <3>2
  <2>3. QED
    BY ONLY <1>2, <1>3, <2>2
<1>5. QED
  BY <1>1, <1>2, <1>3, <1>4, MovedKeeps

\* A foot selects, or a draft is saved by itself: nothing is looked at yet.
LEMMA UnseenKeeps ==
  ASSUME UiInv, NEW x, ChangeOf(x, conf), Ends(x, "saved"), x.conf.drafts \subseteq conf.drafts,
         Becomes(x), UNCHANGED <<ui, linked, sending, client>>
  PROVE  UiInv'
<1>1. /\ conf \in Confs /\ ui \in Memories /\ client \in Clients /\ linked \in BOOLEAN
      /\ sending \in BOOLEAN
  BY UiTypes DEF UiInv
<1>2. /\ conf' = x.conf /\ x.conf \in Confs /\ changes' \in 0 .. MaxChanges
      /\ edition' \in 0 .. MaxChanges /\ edition' <= changes'
      /\ edition' = Edition(edition, x, changes')
      /\ last' \in [Locations -> Endings] /\ last' = Ended(last, x)
      /\ conf'.profile # "" => conf'.revision > 0
  BY ChangeIs
<1>3. linked => Pends(ui, x.conf, edition', last', client)
  BY <1>1, <1>2, ChangeUnseen DEF UiInv
<1>4. UiTypeOK'
  BY <1>1, <1>2, UiTypesPrimed
<1>5. QED
  BY <1>2, <1>3, <1>4 DEF UiInv

LEMMA BetweenKeeps ==
  ASSUME UiInv, SelectedByFoot \/ SavedByItself
  PROVE  UiInv'
<1>1. conf \in Confs
  BY UiTypes DEF UiInv
<1>2. CASE SelectedByFoot
  <2>1. PICK l \in Locations : Becomes(Selected(l))
    BY <1>2 DEF SelectedByFoot
  <2> DEFINE x == Selected(l)
  <2>2. ChangeOf(x, conf) /\ Ends(x, "saved") /\ x.conf.drafts \subseteq conf.drafts
    BY <1>1, SelectedIs DEF Ends
  <2>3. Becomes(x) /\ UNCHANGED <<ui, linked, sending, client>>
    BY <1>2, <2>1 DEF SelectedByFoot
  <2> HIDE DEF x
  <2>4. QED
    BY <2>2, <2>3, UnseenKeeps
<1>3. CASE SavedByItself
  <2>1. PICK l \in conf.drafts : Becomes(Settled({l}, "saved"))
    BY <1>3 DEF SavedByItself
  <2> DEFINE x == Settled({l}, "saved")
  <2>2. ChangeOf(x, conf) /\ Ends(x, "saved") /\ x.conf.drafts \subseteq conf.drafts
    <3>1. {l} \in SUBSET conf.drafts /\ {l} # {} /\ "saved" \in {"saved", "discarded"}
      OBVIOUS
    <3>2. QED
      BY ONLY <1>1, <3>1, SettledIs
  <2>3. Becomes(x) /\ UNCHANGED <<ui, linked, sending, client>>
    BY <1>3, <2>1 DEF SavedByItself
  <2> HIDE DEF x
  <2>4. QED
    BY <2>2, <2>3, UnseenKeeps
<1>4. QED
  BY <1>2, <1>3

\* Steps that change nothing but what is remembered and told.
LEMMA QuietKeeps ==
  ASSUME UiInv, UNCHANGED <<conf, changes, edition, last>>, linked' \in BOOLEAN, sending' \in BOOLEAN,
         ui' \in Memories, client' \in Clients,
         linked' => Pends(ui', conf, edition, last, client')
  PROVE  UiInv'
<1>1. UiTypeOK'
  BY UiTypes, UiTypesPrimed DEF UiInv
<1>2. QED
  BY <1>1 DEF UiInv

LEMMA BindingKeeps ==
  ASSUME UiInv, BindingFires
  PROVE  UiInv'
<1> DEFINE u == Observe(ui, conf, FALSE)
<1>1. linked /\ linked' = linked /\ sending' = sending /\ client' = client
  BY DEF BindingFires
<1>2. /\ linked' \in BOOLEAN /\ sending' \in BOOLEAN /\ client' \in Clients
      /\ edition \in 0 .. MaxChanges
  BY <1>1, UiTypes DEF UiInv
<1>3. u \in Memories /\ Looked(conf, u) /\ Pends(u, conf, edition, last, client)
  BY <1>1, BeforeIs DEF Before
<1>4. ui' = [u EXCEPT !.fired = {edition}]
  BY DEF BindingFires, Fired
<1> HIDE DEF u
<1>5. ui' \in Memories
  BY <1>2, <1>3, <1>4 DEF Memories
<1>6. /\ ui'.observed = u.observed /\ ui'.profile = u.profile /\ ui'.at = u.at
      /\ ui'.drafts = u.drafts /\ ui'.revision = u.revision /\ ui'.patch = u.patch
      /\ ui'.events = u.events /\ ui'.saved = u.saved /\ ui'.discarded = u.discarded
      /\ ui'.fired = {edition}
  BY <1>3, <1>4 DEF Memories
<1>7. Remembers(ui', conf) /\ EndingsPend(ui', conf, last, client)
  BY ONLY <1>3, <1>6 DEF Pends, Remembers, EndingsPend
<1>8. PlayPends(ui', conf, edition, client)
  BY ONLY <1>3, <1>6 DEF Pends, PlayPends
<1>9. UNCHANGED <<conf, changes, edition, last>>
  BY DEF BindingFires
<1>10. QED
  BY <1>1, <1>2, <1>5, <1>7, <1>8, <1>9, QuietKeeps DEF Pends

LEMMA SessionKeeps ==
  ASSUME UiInv, SessionChanges
  PROVE  UiInv'
<1>1. conf \in Confs /\ ui \in Memories /\ linked \in BOOLEAN /\ changes \in 0 .. MaxChanges
      /\ edition \in 0 .. MaxChanges
  BY UiTypes DEF UiInv
<1>2. /\ Looked(conf, ui') /\ ui'.events = {} /\ ui'.saved = {} /\ ui'.discarded = {}
      /\ ui'.fired = {}
  BY <1>1, FirstLook DEF SessionChanges
<1>3. Remembers(ui', conf)
  BY <1>1, <1>2, LookedRemembers
<1>4. EndingsPend(ui', conf, NoEnding, Stranger)
  BY <1>2 DEF Looked, EndingsPend, NoEnding
<1>5. PlayPends(ui', conf, edition, Stranger)
  BY <1>2 DEF PlayPends, Stranger
<1>6. NoEnding \in [Locations -> Endings] /\ Stranger \in Clients
  BY DEF NoEnding, Endings, Stranger, Clients
<1>7. UiTypeOK'
  BY <1>1, <1>2, <1>6, UiTypesPrimed DEF SessionChanges, Looked
<1>8. QED
  BY <1>3, <1>4, <1>5, <1>7 DEF UiInv, Pends, SessionChanges

LEMMA ReadsKeep ==
  ASSUME UiInv, Reads
  PROVE  UiInv'
<1> DEFINE k == [client EXCEPT !.drafts = {conf.drafts}, !.at = {conf.at}, !.edition = {edition}]
<1>1. /\ linked /\ linked' = linked /\ sending' = TRUE /\ ui' = Before(ui)
      /\ client' = client \/ client' = k
  BY DEF Reads, Served
<1>2. /\ linked \in BOOLEAN /\ client \in Clients /\ conf \in Confs /\ edition \in 0 .. MaxChanges
  BY UiTypes DEF UiInv
<1>3. ui' \in Memories /\ Looked(conf, ui') /\ Pends(ui', conf, edition, last, client)
  BY <1>1, BeforeIs
<1>4. /\ k \in Clients /\ k.drafts = {conf.drafts} /\ k.at = {conf.at}
      /\ k.edition = {edition} /\ k.ending = client.ending
  BY <1>2 DEF Clients, Confs
<1> HIDE DEF k
<1>5. Pends(ui', conf, edition, last, k)
  BY <1>3, <1>4 DEF Pends, EndingsPend, PlayPends, Looked
<1>6. QED
  BY <1>1, <1>2, <1>3, <1>4, <1>5, QuietKeeps DEF Reads


\* What is left to tell after an event of one kind.
Without(u, w, kind) ==
  /\ w \in Memories /\ w.observed = u.observed /\ w.profile = u.profile /\ w.at = u.at
  /\ w.drafts = u.drafts /\ w.revision = u.revision /\ w.patch = u.patch
  /\ w.events = u.events \ {kind} /\ w.fired \subseteq u.fired
  /\ w.saved = IF kind = "saved" THEN {} ELSE u.saved
  /\ w.discarded = IF kind = "discarded" THEN {} ELSE u.discarded

LEMMA ToldIs ==
  ASSUME NEW u \in Memories
  PROVE  /\ \A kind \in {"global", "patch", "dirty"} : Without(u, Told(u, kind), kind)
         /\ Without(u, [Told(u, "saved") EXCEPT !.saved = {}], "saved")
         /\ Without(u, [Told(u, "discarded") EXCEPT !.discarded = {}], "discarded")
<1>1. ASSUME NEW kind \in {"global", "patch", "dirty"}
      PROVE  Without(u, Told(u, kind), kind)
  <2> DEFINE w == Told(u, kind)
  <2>1. w = [u EXCEPT !.events = u.events \ {kind}]
    BY DEF Told
  <2> HIDE DEF w
  <2>2. w \in Memories
    BY <2>1 DEF Memories
  <2>3. QED
    BY <2>1, <2>2 DEF Memories, Without, w
<1>2. Without(u, [Told(u, "saved") EXCEPT !.saved = {}], "saved")
  <2> DEFINE w == [Told(u, "saved") EXCEPT !.saved = {}]
  <2>1. w = [u EXCEPT !.events = u.events \ {"saved"}, !.saved = {}]
    BY DEF Told, Memories
  <2> HIDE DEF w
  <2>2. w \in Memories
    BY <2>1 DEF Memories
  <2>3. QED
    BY <2>1, <2>2 DEF Memories, Without, w
<1>3. Without(u, [Told(u, "discarded") EXCEPT !.discarded = {}], "discarded")
  <2> DEFINE w == [Told(u, "discarded") EXCEPT !.discarded = {}]
  <2>1. w = [u EXCEPT !.events = u.events \ {"discarded"}, !.discarded = {}]
    BY DEF Told, Memories
  <2> HIDE DEF w
  <2>2. w \in Memories
    BY <2>1 DEF Memories
  <2>3. QED
    BY <2>1, <2>2 DEF Memories, Without, w
<1>4. QED
  BY <1>1, <1>2, <1>3

\* An event tells what it takes from the memory.
LEMMA EmittedKeeps ==
  ASSUME UiTypeOK, NEW u, Looked(conf, u), Pends(u, conf, edition, last, client),
         NEW w, w = Emitted(u)[1], NEW k, k = Emitted(u)[2]
  PROVE  w \in Memories /\ k \in Clients /\ Pends(w, conf, edition, last, k)
<1>1. /\ client \in Clients /\ conf \in Confs /\ last \in [Locations -> Endings]
      /\ u \in Memories /\ u.drafts = conf.drafts /\ u.patch = conf.patch
  BY UiTypes DEF Looked
<1>2. Remembers(u, conf) /\ EndingsPend(u, conf, last, client) /\ PlayPends(u, conf, edition, client)
  BY DEF Pends
<1>3. u.saved \subseteq Locations /\ u.discarded \subseteq Locations
  BY <1>1 DEF Memories
<1>4. ASSUME NEW kind, Without(u, w, kind) PROVE Remembers(w, conf)
  BY ONLY <1>2, <1>4 DEF Without, Remembers
<1>5. CASE "global" \in u.events
  <2>1. w = Told(u, "global") /\ k = client
    BY <1>5 DEF Emitted
  <2>2. Without(u, w, "global")
    BY <1>1, <2>1, ToldIs
  <2>3. EndingsPend(w, conf, last, k) /\ PlayPends(w, conf, edition, k)
    BY ONLY <1>2, <2>1, <2>2 DEF Without, EndingsPend, PlayPends
  <2>4. w \in Memories /\ Remembers(w, conf)
    BY <1>4, <2>2 DEF Without
  <2>5. QED
    BY <1>1, <2>1, <2>3, <2>4 DEF Pends
<1>6. CASE "global" \notin u.events /\ "patch" \in u.events
  <2>1. w = Told(u, "patch") /\ k = [client EXCEPT !.at = {conf.at}, !.edition = {}]
    BY <1>6 DEF Emitted
  <2>2. Without(u, w, "patch")
    BY <1>1, <2>1, ToldIs
  <2>3. k \in Clients
    <3>1. conf.at \in Locations
      BY <1>1 DEF Confs
    <3> DEFINE at == {conf.at}
               none == {}
    <3>2. at \in SUBSET Locations /\ none \in SUBSET (0 .. MaxChanges)
      BY <3>1
    <3>3. k = [client EXCEPT !.at = at, !.edition = none]
      BY <2>1
    <3> HIDE DEF at, none
    <3>4. QED
      BY <1>1, <3>2, <3>3 DEF Clients
  <2>4. k.at = {conf.at} /\ k.edition = {} /\ k.ending = client.ending /\ k.drafts = client.drafts
    BY <1>1, <2>1 DEF Clients
  <2>5. EndingsPend(w, conf, last, k)
    BY ONLY <1>2, <2>2, <2>4 DEF Without, EndingsPend
  <2>6. PlayPends(w, conf, edition, k)
    BY ONLY <1>1, <1>2, <2>2, <2>4 DEF Without, PlayPends
  <2>7. w \in Memories /\ Remembers(w, conf)
    BY <1>4, <2>2 DEF Without
  <2>8. QED
    BY <2>3, <2>5, <2>6, <2>7 DEF Pends
<1>7. CASE "global" \notin u.events /\ "patch" \notin u.events /\ "saved" \in u.events
  <2>1. /\ w = [Told(u, "saved") EXCEPT !.saved = {}]
        /\ k = [client EXCEPT !.ending = [l \in Locations |-> IF l \in u.saved THEN "saved" ELSE @[l]]]
    BY <1>7 DEF Emitted
  <2>2. Without(u, w, "saved")
    BY <1>1, <2>1, ToldIs
  <2>3. k \in Clients
    <3> DEFINE f == [l \in Locations |-> IF l \in u.saved THEN "saved" ELSE client.ending[l]]
    <3>1. client.ending \in [Locations -> Endings]
      BY <1>1 DEF Clients
    <3>2. f \in [Locations -> Endings]
      BY <3>1 DEF Endings
    <3>3. k = [client EXCEPT !.ending = f]
      BY <2>1
    <3> HIDE DEF f
    <3>4. QED
      BY <1>1, <3>2, <3>3 DEF Clients
  <2>4. /\ k.at = client.at /\ k.edition = client.edition /\ k.drafts = client.drafts
        /\ \A l \in Locations : k.ending[l] = IF l \in u.saved THEN "saved" ELSE client.ending[l]
    BY <1>1, <2>1 DEF Clients
  <2>5. EndingsPend(w, conf, last, k)
    BY ONLY <1>1, <1>2, <1>3, <2>2, <2>4 DEF Without, EndingsPend
  <2>6. PlayPends(w, conf, edition, k)
    BY ONLY <1>1, <1>2, <2>2, <2>4 DEF Without, PlayPends
  <2>7. w \in Memories /\ Remembers(w, conf)
    BY <1>4, <2>2 DEF Without
  <2>8. QED
    BY <2>3, <2>5, <2>6, <2>7 DEF Pends
<1>8. CASE /\ "global" \notin u.events /\ "patch" \notin u.events /\ "saved" \notin u.events
           /\ "discarded" \in u.events
  <2>1. /\ w = [Told(u, "discarded") EXCEPT !.discarded = {}]
        /\ k = [client EXCEPT !.ending =
                  [l \in Locations |-> IF l \in u.discarded THEN "discarded" ELSE @[l]]]
    BY <1>8 DEF Emitted
  <2>2. Without(u, w, "discarded")
    BY <1>1, <2>1, ToldIs
  <2>3. k \in Clients
    <3> DEFINE f == [l \in Locations |-> IF l \in u.discarded THEN "discarded" ELSE client.ending[l]]
    <3>1. client.ending \in [Locations -> Endings]
      BY <1>1 DEF Clients
    <3>2. f \in [Locations -> Endings]
      BY <3>1 DEF Endings
    <3>3. k = [client EXCEPT !.ending = f]
      BY <2>1
    <3> HIDE DEF f
    <3>4. QED
      BY <1>1, <3>2, <3>3 DEF Clients
  <2>4. /\ k.at = client.at /\ k.edition = client.edition /\ k.drafts = client.drafts
        /\ \A l \in Locations : k.ending[l] = IF l \in u.discarded THEN "discarded" ELSE client.ending[l]
    BY <1>1, <2>1 DEF Clients
  <2>5. EndingsPend(w, conf, last, k)
    BY ONLY <1>1, <1>2, <1>3, <2>2, <2>4 DEF Without, EndingsPend
  <2>6. PlayPends(w, conf, edition, k)
    BY ONLY <1>1, <1>2, <2>2, <2>4 DEF Without, PlayPends
  <2>7. w \in Memories /\ Remembers(w, conf)
    BY <1>4, <2>2 DEF Without
  <2>8. QED
    BY <2>3, <2>5, <2>6, <2>7 DEF Pends
<1>9. CASE /\ "global" \notin u.events /\ "patch" \notin u.events /\ "saved" \notin u.events
           /\ "discarded" \notin u.events /\ "dirty" \in u.events
  <2>1. w = Told(u, "dirty") /\ k = [client EXCEPT !.drafts = {conf.drafts}]
    BY <1>9 DEF Emitted
  <2>2. Without(u, w, "dirty")
    BY <1>1, <2>1, ToldIs
  <2>3. k \in Clients
    BY <1>1, <2>1 DEF Clients, Confs
  <2>4. /\ k.at = client.at /\ k.edition = client.edition /\ k.ending = client.ending
        /\ k.drafts = {conf.drafts}
    BY <1>1, <2>1 DEF Clients
  <2>5. EndingsPend(w, conf, last, k)
    BY ONLY <1>2, <2>2, <2>4 DEF Without, EndingsPend
  <2>6. PlayPends(w, conf, edition, k)
    BY ONLY <1>1, <1>2, <2>2, <2>4 DEF Without, PlayPends
  <2>7. w \in Memories /\ Remembers(w, conf)
    BY <1>4, <2>2 DEF Without
  <2>8. QED
    BY <2>3, <2>5, <2>6, <2>7 DEF Pends
<1>10. CASE /\ "global" \notin u.events /\ "patch" \notin u.events /\ "saved" \notin u.events
            /\ "discarded" \notin u.events /\ "dirty" \notin u.events
  <2>1. w = [u EXCEPT !.fired = {}] /\ k = client
    BY <1>10 DEF Emitted
  <2>2. w \in Memories
    BY <1>1, <2>1 DEF Memories
  <2>3. /\ w.observed = u.observed /\ w.profile = u.profile /\ w.at = u.at
        /\ w.drafts = u.drafts /\ w.revision = u.revision /\ w.patch = u.patch
        /\ w.events = u.events /\ w.fired = {} /\ w.saved = u.saved /\ w.discarded = u.discarded
    BY <1>1, <2>1 DEF Memories
  <2>4. EndingsPend(w, conf, last, k) /\ PlayPends(w, conf, edition, k) /\ Remembers(w, conf)
    BY ONLY <1>2, <2>1, <2>3 DEF Remembers, EndingsPend, PlayPends
  <2>5. QED
    BY <1>1, <2>1, <2>2, <2>4 DEF Pends
<1>11. QED
  BY <1>5, <1>6, <1>7, <1>8, <1>9, <1>10

LEMMA TickKeeps ==
  ASSUME UiInv, ProtocolTick
  PROVE  UiInv'
<1> DEFINE u == Observe(ui, conf, FALSE)
<1>1. linked /\ linked' = linked /\ UNCHANGED <<conf, changes, edition, last>>
  BY DEF ProtocolTick
<1>2. UiTypeOK /\ client \in Clients /\ linked \in BOOLEAN /\ sending \in BOOLEAN
  BY UiTypes DEF UiInv
<1>3. u \in Memories /\ Looked(conf, u) /\ Pends(u, conf, edition, last, client)
  BY <1>1, BeforeIs DEF Before
<1>4. \/ ui' = u /\ UNCHANGED <<sending, client>>
      \/ ui' = Emitted(u)[1] /\ client' = Emitted(u)[2] /\ sending' = TRUE
  BY DEF ProtocolTick
<1> HIDE DEF u
<1>5. CASE ui' = u /\ UNCHANGED <<sending, client>>
  BY <1>1, <1>2, <1>3, <1>5, QuietKeeps
<1>6. CASE ui' = Emitted(u)[1] /\ client' = Emitted(u)[2] /\ sending' = TRUE
  <2>1. ui' \in Memories /\ client' \in Clients /\ Pends(ui', conf, edition, last, client')
    BY <1>2, <1>3, <1>6, EmittedKeeps
  <2>2. QED
    BY <1>1, <1>2, <1>6, <2>1, QuietKeeps
<1>7. QED
  BY <1>4, <1>5, <1>6

LEMMA UiInitially == UiInit => UiInv
<1> SUFFICES ASSUME UiInit PROVE UiInv
  OBVIOUS
<1>1. conf \in Confs /\ (conf.profile # "" => conf.revision > 0)
  <2>1. CASE conf = NotLoaded
    BY <2>1, UiAssumption DEF NotLoaded, Loaded, Confs, ProfileNames
  <2>2. CASE conf = Loaded("a", {FirstLocation}, 1, 1)
    BY <2>2, UiAssumption DEF Loaded, Confs, ProfileNames
  <2>3. QED
    BY <2>1, <2>2 DEF UiInit
<1>2. ui \in Memories
  BY UiAssumption DEF UiInit, Memories, ProfileNames
<1>3. client \in Clients /\ last \in [Locations -> Endings]
  BY DEF UiInit, Stranger, NoEnding, Endings, Clients
<1>4. changes \in 0 .. MaxChanges /\ edition \in 0 .. MaxChanges /\ edition <= changes
  <2>1. changes = 0 /\ edition = 0 /\ MaxChanges \in Nat
    BY UiAssumption DEF UiInit
  <2>2. QED
    BY ONLY <2>1
<1>5. ~linked /\ linked \in BOOLEAN /\ sending \in BOOLEAN
  BY DEF UiInit
<1>6. QED
  BY <1>1, <1>2, <1>3, <1>4, <1>5, UiTypes DEF UiInv

LEMMA UiSteps == UiInv /\ [UiNext]_uiVars => UiInv'
<1> SUFFICES ASSUME UiInv, [UiNext]_uiVars PROVE UiInv'
  OBVIOUS
<1>1. CASE SelectedByFoot \/ SavedByItself
  BY <1>1, BetweenKeeps
<1>2. CASE BindingFires
  BY <1>2, BindingKeeps
<1>3. CASE SessionChanges
  BY <1>3, SessionKeeps
<1>4. CASE OutputSent \/ UNCHANGED uiVars
  <2>1. UNCHANGED <<conf, ui, linked, changes, edition, last, client>> /\ sending' \in BOOLEAN
    BY <1>4, UiTypes DEF OutputSent, uiVars, UiInv
  <2>2. linked' \in BOOLEAN /\ ui' \in Memories /\ client' \in Clients
    BY <2>1, UiTypes DEF UiInv
  <2>3. linked' => Pends(ui', conf, edition, last, client')
    BY <2>1 DEF UiInv
  <2>4. QED
    BY <2>1, <2>2, <2>3, QuietKeeps
<1>5. CASE OnProfile
  BY <1>5, OnProfileKeeps
<1>6. CASE SwitchProfile
  BY <1>6, SwitchProfileKeeps
<1>7. CASE DeleteProfile
  BY <1>7, DeleteProfileKeeps
<1>8. CASE Reads
  BY <1>8, ReadsKeep
<1>9. CASE ProtocolTick
  BY <1>9, TickKeeps
<1>10. QED
  BY <1>1, <1>2, <1>3, <1>4, <1>5, <1>6, <1>7, <1>8, <1>9 DEF UiNext

\* What is still to be told is true, and a client that was told everything knows the
\* position, the drafts, how each ended and what is played (protocol.c:165-187), for any
\* number of locations and of changes, whoever makes them and whenever the loop looks.
THEOREM EventsAlwaysTell == UiSpec => []EventsTell
<1>1. UiInv => EventsTell
  <2> SUFFICES ASSUME UiInv PROVE EventsTell
    OBVIOUS
  <2>1. UiTypeOK /\ (linked => Pends(ui, conf, edition, last, client))
    BY DEF UiInv
  <2>2. ASSUME Seen
        PROVE  /\ ui.drafts = conf.drafts /\ ui.patch = conf.patch
               /\ EndingsPend(ui, conf, last, client) /\ PlayPends(ui, conf, edition, client)
    BY <2>1, <2>2 DEF Seen, Pends, Remembers
  <2>3. PendingIsTrue
    BY <2>2 DEF PendingIsTrue, EndingsPend, PlayPends
  <2>4. ClientKnows
    BY <2>2 DEF ClientKnows, EndingsPend, PlayPends
  <2>5. QED
    BY <2>1, <2>3, <2>4 DEF EventsTell
<1>2. UiInit => UiInv
  BY UiInitially
<1>3. UiInv /\ [UiNext]_uiVars => UiInv'
  BY UiSteps
<1>4. QED
  BY <1>1, <1>2, <1>3, PTL DEF UiSpec
=============================================================================
