------------------------- MODULE UpstreamLinkProof --------------------------
(***************************************************************************)
(* The link keeps its types, for every number of lines, ports and sessions *)
(* and every size of the driver's buffers; its thread never sleeps through *)
(* a line; the Captain gets the lines of a session in order, each once and *)
(* none of another session (the refinement of SessionLines); and what is   *)
(* handed on to the hub is in order, once and whole but for the first.     *)
(*                                                                         *)
(* The argument follows two streams of fragments through the buffers they  *)
(* are spread over: Sending, from what the Captain has of a line to what   *)
(* is left to write of one, and Coming, from _rx to what the Captain still *)
(* has to send.  Partial writes and reads only move the borders between    *)
(* the buffers.                                                            *)
(***************************************************************************)
EXTENDS UpstreamLink, SequenceTheorems, WellFoundedInduction, TLAPS

-----------------------------------------------------------------------------
(* The invariant.                                                          *)

\* Where the thread is tells what is left of a session.
Pumping == {"top", "write", "read", "read on", "wait"}
Between == {"backoff", "choose", "ended"}
ControlInv ==
  /\ pc \in Pumping => connected
  /\ connected => pc \in Pumping \cup {"raised"}
  /\ tx # <<>> => connected
  /\ ~connected /\ pc # "close" => accepted = <<>> /\ got = <<>> /\ heard = {}
  /\ pc \in Between => ~open
  /\ ~open => out = <<>> /\ in = <<>> /\ partial = <<>> /\ emit = <<>>
  /\ pc \in Between \cup {"opened", "kept"} =>
       pending = <<>> /\ rx = <<>> /\ out = <<>> /\ partial = <<>>
  /\ pc = "close" => pending = <<>>

\* A caller that has put a line in the queue has not yet notified, or has.
WakeInv ==
  /\ tx # <<>> /\ sender[1] # "idle" => sender[2] = opens
  /\ tx # <<>> /\ pending = <<>> /\ pc \in {"read", "wait"} /\ sender[1] # "accepted"
       => activity
  /\ tx # <<>> /\ pending = <<>> /\ pc = "read" /\ sender[1] = "idle" /\ open => woken

\* Lines are numbered through all sessions: those of this one come after Before.
Line(n) == <<"line", n>>
Before == sent - Len(accepted)
CountInv ==
  /\ Len(accepted) <= sent /\ Len(got) + Len(tx) <= Len(accepted)
  /\ \A k \in 1 .. Len(accepted) : accepted[k] = Line(Before + k)
  /\ \A k \in 1 .. Len(tx) : tx[k] = Line(sent - Len(tx) + k)

\* Streams of lines, the first of which may be cut.
Streamed(s) ==
  \A i \in 2 .. Len(s) : /\ s[i].last => s[i - 1] = Fragment(s[i].of, FALSE)
                         /\ ~s[i - 1].last => s[i] = Fragment(s[i - 1].of, TRUE)
Complete(s) == s # <<>> => s[Len(s)].last

Sending == partial \o out \o pending
Coming == rx \o in \o emit

\* On its way to the Captain are the lines from lo on, each after the one before it,
\* up to hi at most; and up to hi.
LineEnd(n) == Fragment(Line(n), TRUE)
Ordered(s, lo, hi) ==
  \A i \in 1 .. Len(s), n \in Nat :
    s[i] = LineEnd(n) =>
      /\ n \in lo .. hi
      /\ \A m \in lo .. hi : m < n => \E j \in 1 .. i - 1 : s[j] = LineEnd(m)
      /\ \A j \in 1 .. i - 1, m \in Nat : s[j] = LineEnd(m) => m < n
AllOf(s, lo, hi) ==
  Complete(s) /\ \A m \in lo .. hi : \E j \in 1 .. Len(s) : s[j] = LineEnd(m)

\* The next one the Captain is to get, and the last one that was begun.
NextOne == Before + Len(got) + 1
LastBegun == sent - Len(tx)
Sound(s) == Streamed(s) /\ (s # <<>> => ~s[1].last)
OnTheWay == connected \/ pc \in {"sync", "handshake"}
SendingInv ==
  /\ Len(partial) <= 1 /\ \A i \in 1 .. Len(partial) : ~partial[i].last
  /\ open => /\ Sound(Sending) /\ Ordered(Sending, NextOne, LastBegun)
             /\ OnTheWay => AllOf(Sending, NextOne, LastBegun)

\* On its way from the Captain are the replies to lines it got, in order, no event
\* that is still to come and none twice.
ReplyEnd(n) == Fragment(Reply(Line(n)), TRUE)
EventEnd(e) == Fragment(e, TRUE)
Replies(s, lo, hi) ==
  \A i \in 1 .. Len(s), n \in Nat :
    s[i] = ReplyEnd(n) =>
      /\ lo < n /\ n <= hi
      /\ \A j \in 1 .. i - 1, m \in Nat : s[j] = ReplyEnd(m) => m < n
EventsOnce(s, E) ==
  \A i \in 1 .. Len(s), e \in Events :
    /\ s[i].of = e => e \notin E
    /\ s[i] = EventEnd(e) => \A j \in 1 .. i - 1 : s[j] # EventEnd(e)
InTurn(s, lo, hi, E) == Streamed(s) /\ Replies(s, lo, hi) /\ EventsOnce(s, E)
NoneStale(s) == \A i \in 1 .. Len(s) : s[i].of # Stale
LastGot == Before + Len(got)
ComingInv ==
  /\ InTurn(Coming, Before, LastGot, events) /\ (open => Complete(Coming))
  /\ connected => NoneStale(Coming)
  /\ NoneStale(emit)

\* What was handed on came before what is coming.
FirstWhole(s) == s # <<>> /\ s[1].last => heard = {}
LineOnce(l) ==
  /\ l.after # {} => l.whole
  /\ l.of # Stale
  /\ l.of \in OwnReplies => ~l.whole
  /\ l.of \notin l.after
Answered(l, lo, hi) ==
  \A n \in Nat : l.of = Reply(Line(n)) =>
    /\ lo < n /\ n <= hi
    /\ \A m \in Nat : Reply(Line(m)) \in l.after => m < n
CameBefore(l, s) ==
  \A i \in 1 .. Len(s) :
    /\ l.of \in Events => s[i] # EventEnd(l.of)
    /\ \A n, m \in Nat : l.of = Reply(Line(n)) /\ s[i] = ReplyEnd(m) => n < m
HeardInv ==
  /\ open => FirstWhole(Coming)
  /\ \A l \in heard :
       /\ LineOnce(l) /\ l.of \notin events
       /\ Answered(l, Before, LastGot) /\ CameBefore(l, Coming)

IInv == TypeOK /\ ControlInv /\ WakeInv /\ CountInv /\ SendingInv /\ ComingInv /\ HeardInv

-----------------------------------------------------------------------------
(* Streams.                                                                *)

LEMMA Smallest ==
  ASSUME NEW S, S \subseteq Nat, S # {}
  PROVE  \E m \in S : \A n \in S : m <= n
<1>1. IsWellFoundedOn(OpToRel(<, Nat), Nat)
  BY NatLessThanWellFounded
<1>2. PICK m \in S : \A n \in S : ~(<<n, m>> \in OpToRel(<, Nat))
  BY <1>1, WFMin
<1>3. \A n \in S : ~(n < m)
  BY <1>2 DEF OpToRel
<1>4. \A n \in S : n \in Nat /\ m \in Nat
  OBVIOUS
<1>5. QED
  BY <1>3, <1>4

\* What is left of some bytes begins after the last line that ends in them.
LEMMA LastEnd ==
  ASSUME NEW S, NEW b \in Seq(Fragments(S))
  PROVE  LET p == Max({0} \cup Ends(b))
         IN  /\ p \in 0 .. Len(b)
             /\ p # 0 => p \in Ends(b)
             /\ \A i \in Ends(b) : i <= p
<1> DEFINE E == {0} \cup Ends(b)
<1>1. Len(b) \in Nat /\ E \subseteq 0 .. Len(b)
  BY DEF Ends
<1>2. PICK m \in {n \in Nat : \A i \in E : i <= n} :
        \A n \in {n \in Nat : \A i \in E : i <= n} : m <= n
  <2>1. Len(b) \in {n \in Nat : \A i \in E : i <= n}
    BY <1>1
  <2> HIDE DEF E
  <2>2. QED
    BY <2>1, Smallest
<1> HIDE DEF E
<1>3. m \in Nat /\ \A i \in E : i <= m
  BY <1>2
<1>4. m \in E
  <2>1. SUFFICES ASSUME m \notin E PROVE FALSE
    OBVIOUS
  <2>2. \A i \in E : i \in Nat /\ i <= m - 1
    BY <1>1, <1>3, <2>1
  <2>3. 0 \in E
    BY DEF E
  <2>4. m - 1 \in Nat
    BY <1>3, <2>2, <2>3
  <2>5. QED
    BY <1>2, <1>3, <2>2, <2>4
<1>5. \A i \in E : i \in Nat
  BY <1>1
<1>6. \A y \in E : m >= y
  BY <1>3, <1>5
<1>7. Max(E) \in E /\ \A y \in E : Max(E) >= y
  BY <1>4, <1>6 DEF Max
<1>8. Max(E) = m
  <2>1. Max(E) \in Nat /\ m \in Nat
    BY <1>3, <1>5, <1>7
  <2>2. Max(E) >= m /\ m >= Max(E)
    BY <1>4, <1>6, <1>7
  <2>3. QED
    BY <2>1, <2>2
<1>9. QED
  BY <1>1, <1>3, <1>4, <1>8 DEF E

LEMMA Cat ==
  ASSUME NEW S, NEW s \in Seq(S), NEW t \in Seq(S)
  PROVE  /\ s \o t \in Seq(S) /\ Len(s) \in Nat /\ Len(t) \in Nat
         /\ Len(s \o t) = Len(s) + Len(t)
         /\ \A i \in 1 .. Len(s) : (s \o t)[i] = s[i]
         /\ \A i \in 1 .. Len(t) : (s \o t)[Len(s) + i] = t[i]
BY ConcatProperties

\* A line is added, whole, to a stream.
LEMMA StreamGrows ==
  ASSUME NEW S, NEW s \in Seq(Fragments(S)), NEW x \in S, Streamed(s), Complete(s)
  PROVE  LET t == s \o Bytes(x)
         IN  /\ t \in Seq(Fragments(S)) /\ Len(t) = Len(s) + 2 /\ Len(s) \in Nat
             /\ \A i \in 1 .. Len(s) : t[i] = s[i]
             /\ t[Len(s) + 1] = Fragment(x, FALSE) /\ t[Len(s) + 2] = Fragment(x, TRUE)
             /\ Streamed(t) /\ Complete(t)
<1> DEFINE t == s \o Bytes(x)
<1>1. Bytes(x) \in Seq(Fragments(S)) /\ Len(Bytes(x)) = 2
      /\ Bytes(x)[1] = Fragment(x, FALSE) /\ Bytes(x)[2] = Fragment(x, TRUE)
  BY DEF Bytes, Fragment, Fragments
<1>2. /\ t \in Seq(Fragments(S)) /\ Len(t) = Len(s) + 2 /\ Len(s) \in Nat
      /\ \A i \in 1 .. Len(s) : t[i] = s[i]
      /\ t[Len(s) + 1] = Fragment(x, FALSE) /\ t[Len(s) + 2] = Fragment(x, TRUE)
  <2>1. PICK B \in Seq(Fragments(S)) : B = Bytes(x)
    BY <1>1
  <2>2. PICK F : F = Fragments(S)
    OBVIOUS
  <2>3. /\ s \o B \in Seq(F) /\ Len(s) \in Nat /\ Len(s \o B) = Len(s) + Len(B)
        /\ \A i \in 1 .. Len(s) : (s \o B)[i] = s[i]
        /\ \A i \in 1 .. Len(B) : (s \o B)[Len(s) + i] = B[i]
    BY <2>2, Cat
  <2>4. Len(B) = 2 /\ t = s \o B /\ B[1] = Fragment(x, FALSE) /\ B[2] = Fragment(x, TRUE)
    BY <1>1, <2>1
  <2>5. 1 \in 1 .. Len(B) /\ 2 \in 1 .. Len(B)
    BY <2>4
  <2> HIDE DEF t
  <2>6. QED
    BY <2>2, <2>3, <2>4, <2>5
<1>3. /\ ~Fragment(x, FALSE).last /\ Fragment(x, FALSE).of = x
      /\ Fragment(x, TRUE).last /\ Fragment(x, TRUE).of = x
  BY DEF Fragment
<1>4. s = <<>> \/ s[Len(s)].last
  BY DEF Complete
<1> HIDE DEF t
<1>5. ASSUME NEW i \in 2 .. Len(t)
      PROVE  /\ t[i].last => t[i - 1] = Fragment(t[i].of, FALSE)
             /\ ~t[i - 1].last => t[i] = Fragment(t[i - 1].of, TRUE)
  <2>1. CASE i <= Len(s)
    <3>1. i \in 2 .. Len(s) /\ t[i] = s[i] /\ t[i - 1] = s[i - 1]
      BY <1>2, <2>1
    <3>2. QED
      BY <3>1 DEF Streamed
  <2>2. CASE i = Len(s) + 1
    <3>1. s # <<>> /\ Len(s) \in 1 .. Len(s) /\ i - 1 = Len(s)
      BY <1>2, <2>2
    <3>2. t[i - 1].last /\ ~t[i].last
      BY <1>2, <1>3, <1>4, <2>2, <3>1
    <3>3. QED
      BY <3>2
  <2>3. CASE i = Len(s) + 2
    <3>1. t[i - 1] = Fragment(x, FALSE) /\ t[i] = Fragment(x, TRUE)
      <4>1. i - 1 = Len(s) + 1
        BY <1>2, <2>3
      <4>2. QED
        BY <1>2, <2>3, <4>1
    <3>2. QED
      BY <1>3, <3>1
  <2>4. i <= Len(s) \/ i = Len(s) + 1 \/ i = Len(s) + 2
    BY <1>2
  <2>5. QED
    BY <2>1, <2>2, <2>3, <2>4
<1>6. Streamed(t)
  BY <1>5 DEF Streamed
<1>7. Complete(t)
  BY <1>2, <1>3 DEF Complete
<1>8. QED
  BY <1>2, <1>6, <1>7 DEF t

LEMMA StreamEnds ==
  ASSUME NEW S, NEW s \in Seq(Fragments(S)), NEW k \in 0 .. Len(s), Streamed(s)
  PROVE  LET t == SubSeq(s, k + 1, Len(s))
         IN  /\ t \in Seq(Fragments(S)) /\ Len(t) = Len(s) - k /\ Len(s) \in Nat
             /\ \A i \in 1 .. Len(t) : i + k \in 1 .. Len(s) /\ t[i] = s[i + k]
             /\ Streamed(t) /\ (Complete(s) => Complete(t))
<1> DEFINE t == SubSeq(s, k + 1, Len(s))
<1>1. /\ t \in Seq(Fragments(S)) /\ Len(t) = Len(s) - k /\ Len(s) \in Nat
      /\ \A i \in 1 .. Len(t) : i + k \in 1 .. Len(s) /\ t[i] = s[i + k]
  OBVIOUS
<1> HIDE DEF t
<1>2. Streamed(t)
  <2>1. SUFFICES ASSUME NEW i \in 2 .. Len(t)
                 PROVE  /\ t[i].last => t[i - 1] = Fragment(t[i].of, FALSE)
                        /\ ~t[i - 1].last => t[i] = Fragment(t[i - 1].of, TRUE)
    BY DEF Streamed
  <2>2. i + k \in 2 .. Len(s) /\ t[i] = s[i + k] /\ t[i - 1] = s[(i + k) - 1]
    <3>1. i \in 1 .. Len(t) /\ i - 1 \in 1 .. Len(t) /\ i \in Nat /\ k \in Nat
      BY <1>1
    <3>2. (i - 1) + k = (i + k) - 1 /\ i + k \in 2 .. Len(s)
      BY <1>1, <3>1
    <3>3. QED
      BY <1>1, <3>1, <3>2
  <2>3. QED
    BY <2>2 DEF Streamed
<1>3. ASSUME Complete(s) PROVE Complete(t)
  <2>1. CASE t = <<>>
    BY <2>1 DEF Complete
  <2>2. CASE t # <<>>
    <3>1. Len(t) \in 1 .. Len(t) /\ Len(t) + k = Len(s) /\ s # <<>>
      BY <1>1, <2>2
    <3>2. QED
      BY <1>1, <1>3, <3>1 DEF Complete
  <2>3. QED
    BY <2>1, <2>2
<1>4. QED
  BY <1>1, <1>2, <1>3 DEF t

\* What is written and what is left of it are what there was to write.
LEMMA Divided ==
  ASSUME NEW S, NEW s \in Seq(S), NEW k \in 0 .. Len(s)
  PROVE  /\ SubSeq(s, 1, k) \in Seq(S) /\ SubSeq(s, k + 1, Len(s)) \in Seq(S)
         /\ SubSeq(s, 1, k) \o SubSeq(s, k + 1, Len(s)) = s
         /\ Len(SubSeq(s, 1, k)) = k /\ Len(SubSeq(s, k + 1, Len(s))) = Len(s) - k
<1>1. SubSeq(s, 1, k) \in Seq(S) /\ SubSeq(s, k + 1, Len(s)) \in Seq(S) /\ Len(s) \in Nat
      /\ Len(SubSeq(s, 1, k)) = k /\ Len(SubSeq(s, k + 1, Len(s))) = Len(s) - k
  OBVIOUS
<1>2. SubSeq(s, 1, k) \o SubSeq(s, k + 1, Len(s)) = SubSeq(s, 1, Len(s))
  <2>1. 1 \in 1 .. Len(s) + 1 /\ k \in 1 - 1 .. Len(s) /\ Len(s) \in k .. Len(s)
    BY <1>1
  <2>2. QED
    BY <2>1, ConcatAdjacentSubSeq
<1>3. QED
  BY <1>1, <1>2, SubSeqFull

-----------------------------------------------------------------------------
(* Types.                                                                  *)

Flags ==
  {stop, activity, published, connected, open, woken, quiet} \subseteq BOOLEAN
RoundType ==
  /\ pc \in ThreadSteps /\ target \in {"none", "given"}
  /\ candidates \in Seq(Ports) /\ port \in Ports \cup {NoPort} /\ opens \in 0 .. MaxOpens
CallersType ==
  /\ tx \in Seq(Lines) /\ accepted \in Seq(Lines) /\ got \in Seq(Lines) /\ sent \in 0 .. MaxLines
  /\ sender \in {"idle", "accepted", "set"} \X (0 .. MaxOpens)
  /\ stopper \in {"idle", "set", "closed"}
OutType ==
  /\ partial \in Seq(Fragments(Words)) /\ out \in Seq(Fragments(Words))
  /\ pending \in Seq(Fragments(Words))
  /\ Len(out) <= OutMax /\ Len(pending) <= 2
InType ==
  /\ rx \in Seq(Fragments(Answers)) /\ in \in Seq(Fragments(Answers))
  /\ emit \in Seq(Fragments(Answers)) /\ Len(in) <= InMax
RestType ==
  /\ captain \in {"alive", "dead", "wedged", "gone"} /\ events \subseteq Events
  /\ heard \subseteq [of : Answers, whole : BOOLEAN, after : SUBSET Answers]

LEMMA Types == TypeOK <=> Flags /\ RoundType /\ CallersType /\ OutType /\ InType /\ RestType
BY DEF TypeOK, Flags, RoundType, CallersType, OutType, InType, RestType

LEMMA FlagsStep == Flags /\ Next => Flags'
<1> SUFFICES ASSUME Flags, Next PROVE Flags'
  OBVIOUS
<1>1. \A x \in {stop', activity', published', connected', open', woken', quiet'} : x \in BOOLEAN
  <2>1. CASE OpenFails \/ NoneAnswered \/ KeepPort \/ SyncGoesOn \/ Wait \/ Raise \/ Backoff
    BY <2>1 DEF Flags, OpenFails, NoneAnswered, KeepPort, SyncGoesOn, Wait, Raise, Backoff,
                sharedVars, sessionVars, PortStays, portVars
  <2>2. CASE OpenPort \/ Abandon \/ Publish \/ SyncFails \/ Down \/ Close
    BY <2>2 DEF Flags, OpenPort, Abandon, Publish, SyncFails, Down, Close, Discard, ClosePort,
                sharedVars, sessionVars, PortStays, portVars
  <2>3. CASE Handshake
    BY <2>3 DEF Flags, Handshake
  <2>4. CASE NextPass \/ Read
    BY <2>4 DEF Flags, NextPass, Read, Feed, Notified, WokenAfterRead
  <2>5. CASE Write
    BY <2>5 DEF Flags, Write, Resume, WriteNext, KeepAlive, WriteNothing, WritePass
  <2>6. CASE Send \/ SetActivity \/ WakeRead \/ StopSets \/ StopCloses
    BY <2>6 DEF Flags, Send, SetActivity, WakeRead, StopSets, StopCloses, ClosePort,
                sharedVars, sessionVars, PortStays, portVars
  <2>7. CASE Captain \/ Fails \/ TimePasses \/ \E e \in Events : Event(e)
    BY <2>7 DEF Flags, Captain, Take, Emit, Fails, TimePasses, Event,
                sharedVars, sessionVars, PortStays, portVars
  <2>8. QED
    BY <2>1, <2>2, <2>3, <2>4, <2>5, <2>6, <2>7 DEF Next, Thread
<1>2. QED
  BY <1>1 DEF Flags

LEMMA RoundStep == RoundType /\ Next => RoundType'
<1> SUFFICES ASSUME RoundType, Next PROVE RoundType'
  OBVIOUS
<1> USE SizesAssumption, PortsAssumption
<1>1. CASE OpenFails
  BY <1>1 DEF RoundType, OpenFails, Goes, ThreadSteps
<1>2. CASE OpenPort
  BY <1>2 DEF RoundType, OpenPort, Goes, ThreadSteps
<1>3. CASE NoneAnswered \/ Abandon \/ KeepPort \/ Publish \/ SyncGoesOn \/ SyncFails
  BY <1>3 DEF RoundType, NoneAnswered, Abandon, KeepPort, Publish, SyncGoesOn, GoOn, SyncFails,
              Goes, ThreadSteps, roundVars
<1>4. CASE Handshake
  BY <1>4 DEF RoundType, Handshake, ThreadSteps, roundVars
<1>5. CASE NextPass \/ Read \/ Wait \/ Raise \/ Down \/ Close
  BY <1>5 DEF RoundType, NextPass, Read, Wait, Raise, Down, Close, Goes, ThreadSteps, roundVars
<1>6. CASE Write
  BY <1>6 DEF RoundType, Write, Resume, WriteNext, KeepAlive, WriteNothing, WritePass,
              ThreadSteps, roundVars
<1>7. CASE Backoff
  BY <1>7 DEF RoundType, Backoff, Discovered, ThreadSteps
<1>8. CASE Send \/ SetActivity \/ WakeRead \/ StopSets \/ StopCloses
  BY <1>8 DEF RoundType, Send, SetActivity, WakeRead, StopSets, StopCloses, roundVars
<1>9. CASE Captain \/ Fails \/ TimePasses \/ \E e \in Events : Event(e)
  BY <1>9 DEF RoundType, Captain, Take, Emit, Fails, TimePasses, Event, roundVars
<1>10. QED
  BY <1>1, <1>2, <1>3, <1>4, <1>5, <1>6, <1>7, <1>8, <1>9 DEF Next, Thread

LEMMA LinesStep == RoundType /\ CallersType /\ Next => CallersType'
<1> SUFFICES ASSUME RoundType, CallersType, Next PROVE CallersType'
  OBVIOUS
<1> USE SizesAssumption
<1>1. CASE Send
  <2>1. /\ sent' = sent + 1 /\ sent' \in 0 .. MaxLines /\ <<"line", sent'>> \in Lines
        /\ tx' = Append(tx, <<"line", sent'>>) /\ accepted' = Append(accepted, <<"line", sent'>>)
        /\ got' = got /\ sender' = <<"accepted", opens>> /\ stopper' = stopper
    BY <1>1 DEF Send, CallersType, Lines
  <2>2. QED
    BY <2>1 DEF CallersType, RoundType
<1>2. CASE SetActivity \/ WakeRead \/ StopSets \/ StopCloses
  BY <1>2 DEF CallersType, RoundType, SetActivity, WakeRead, StopSets, StopCloses, sharedVars,
              history
<1>3. CASE Take
  <2>1. UNCHANGED <<tx, accepted, sent, sender, stopper>>
    BY <1>3 DEF Take, sharedVars, callerVars
  <2>2. got' = IF Head(out).last /\ Head(out).of \in Lines
                  /\ partial = <<Fragment(Head(out).of, FALSE)>>
               THEN Append(got, Head(out).of) ELSE got
    BY <1>3 DEF Take
  <2>3. got' \in Seq(Lines)
    <3>1. got \in Seq(Lines)
      BY DEF CallersType
    <3>2. CASE Head(out).of \in Lines
      <4>1. Append(got, Head(out).of) \in Seq(Lines)
        BY <3>1, <3>2, AppendProperties
      <4>2. QED
        BY <2>2, <3>1, <4>1
    <3>3. CASE Head(out).of \notin Lines
      BY <2>2, <3>1, <3>3
    <3>4. QED
      BY <3>2, <3>3
  <2>4. QED
    BY <2>1, <2>3 DEF CallersType
<1>4. CASE WriteNext
  <2>1. tx' \in Seq(Lines)
    BY <1>4, HeadTailProperties DEF CallersType, WriteNext
  <2>2. UNCHANGED <<accepted, got, sent, sender, stopper>>
    BY <1>4 DEF WriteNext, WritePass, callerVars, history
  <2>3. QED
    BY <2>1, <2>2 DEF CallersType
<1>5. CASE Resume \/ KeepAlive \/ WriteNothing
  BY <1>5 DEF CallersType, Resume, KeepAlive, WriteNothing, WritePass, callerVars, history
<1>6. CASE OpenFails \/ OpenPort \/ NoneAnswered \/ Abandon \/ KeepPort \/ Publish \/ SyncGoesOn
           \/ Handshake \/ SyncFails
  BY <1>6 DEF CallersType, OpenFails, OpenPort, NoneAnswered, Abandon, KeepPort, Publish,
              SyncGoesOn, Handshake, SyncFails, sharedVars, callerVars, history
<1>7. CASE NextPass \/ Read \/ Wait \/ Raise \/ Backoff
  BY <1>7 DEF CallersType, NextPass, Read, Wait, Raise, Backoff, sharedVars, callerVars, history
<1>8. CASE Down \/ Close
  <2>1. <<>> \in Seq(Lines)
    OBVIOUS
  <2>2. /\ tx' \in {tx, <<>>} /\ accepted' \in {accepted, <<>>} /\ got' \in {got, <<>>}
        /\ UNCHANGED <<sent, sender, stopper>>
    BY <1>8 DEF Down, Discard, Close, callerVars, history
  <2>3. QED
    BY <2>1, <2>2 DEF CallersType
<1>9. CASE Emit \/ Fails \/ TimePasses \/ \E e \in Events : Event(e)
  BY <1>9 DEF CallersType, Emit, Fails, TimePasses, Event, sharedVars, callerVars, history
<1>10. QED
  BY <1>1, <1>2, <1>3, <1>4, <1>5, <1>6, <1>7, <1>8, <1>9 DEF Next, Thread, Write, Captain

LEMMA WordBytes ==
  \A x \in Words : Bytes(x) \in Seq(Fragments(Words)) /\ Len(Bytes(x)) = 2
BY DEF Bytes, Fragment, Fragments

LEMMA OwnWords == RoundType => Sentinel \in Words /\ Keepalive \in Words
<1>1. \A n \in 0 .. MaxOpens : <<"ping", n>> \in Words
  BY DEF Words, Own
<1>2. RoundType => opens \in 0 .. MaxOpens /\ 0 \in 0 .. MaxOpens
  BY SizesAssumption DEF RoundType
<1>3. QED
  BY <1>1, <1>2 DEF Sentinel, Keepalive

LEMMA OwnBytes ==
  ASSUME RoundType
  PROVE  /\ Bytes(Sentinel) \in Seq(Fragments(Words)) /\ Len(Bytes(Sentinel)) = 2
         /\ Bytes(Keepalive) \in Seq(Fragments(Words)) /\ Len(Bytes(Keepalive)) = 2
<1>1. Sentinel \in Words /\ Keepalive \in Words
  BY OwnWords
<1>2. Bytes(Sentinel) \in Seq(Fragments(Words)) /\ Len(Bytes(Sentinel)) = 2
  BY <1>1, WordBytes
<1>3. Bytes(Keepalive) \in Seq(Fragments(Words)) /\ Len(Bytes(Keepalive)) = 2
  BY <1>1, WordBytes
<1>4. QED
  BY <1>2, <1>3

LEMMA Emptied ==
  ASSUME NEW S, NEW s \in Seq(S), NEW t \in {s, <<>>}
  PROVE  t \in Seq(S) /\ Len(t) \in Nat /\ Len(s) \in Nat /\ Len(t) <= Len(s)
<1>1. CASE t = s
  BY <1>1
<1>2. CASE t = <<>>
  <2>1. t \in Seq(S) /\ Len(t) = 0
    BY <1>2, EmptySeq
  <2>2. QED
    BY <2>1
<1>3. QED
  BY <1>1, <1>2

\* Buffers that are emptied, or not, keep their types.
LEMMA OutEmptied ==
  ASSUME OutType, pending' \in {pending, <<>>}, partial' \in {partial, <<>>}, out' \in {out, <<>>}
  PROVE  OutType'
<1>1. PICK F : F = Fragments(Words)
  OBVIOUS
<1>2. /\ pending \in Seq(F) /\ partial \in Seq(F) /\ out \in Seq(F)
      /\ Len(out) <= OutMax /\ Len(pending) <= 2 /\ OutMax \in Nat
  BY <1>1, SizesAssumption DEF OutType
<1>3. pending' \in Seq(F) /\ Len(pending') <= 2
  <2>1. /\ pending' \in Seq(F) /\ Len(pending') \in Nat
        /\ Len(pending) \in Nat /\ Len(pending') <= Len(pending)
    BY <1>2, Emptied
  <2>2. QED
    BY <1>2, <2>1
<1>4. partial' \in Seq(F)
  BY <1>2, Emptied
<1>5. out' \in Seq(F) /\ Len(out') <= OutMax
  <2>1. out' \in Seq(F) /\ Len(out') \in Nat /\ Len(out) \in Nat /\ Len(out') <= Len(out)
    BY <1>2, Emptied
  <2>2. QED
    BY <1>2, <2>1
<1>6. QED
  BY <1>1, <1>3, <1>4, <1>5 DEF OutType

\* What is written goes to the driver as far as there is room.
LEMMA WroteIs ==
  ASSUME OutType, NEW b \in Seq(Fragments(Words)), Wrote(b)
  PROVE  /\ Fits(b) \in 0 .. Len(b) /\ Len(b) \in Nat
         /\ out' \in Seq(Fragments(Words)) /\ pending' \in Seq(Fragments(Words))
         /\ Len(out') <= OutMax
         /\ Len(pending') = Len(b) - Fits(b)
         /\ out' \o pending' = out \o b
<1>1. Len(out) \in Nat /\ Len(b) \in Nat /\ OutMax \in Nat /\ Room \in Nat
  BY SizesAssumption DEF OutType, Room
<1>2. Fits(b) \in 0 .. Len(b) /\ Fits(b) <= Room
  BY <1>1 DEF Fits
<1>3. PICK F : F = Fragments(Words)
  OBVIOUS
<1>4. PICK k \in 0 .. Len(b) : k = Fits(b)
  BY <1>2
<1>5. /\ SubSeq(b, 1, k) \in Seq(F) /\ SubSeq(b, k + 1, Len(b)) \in Seq(F)
      /\ SubSeq(b, 1, k) \o SubSeq(b, k + 1, Len(b)) = b
      /\ Len(SubSeq(b, 1, k)) = k /\ Len(SubSeq(b, k + 1, Len(b))) = Len(b) - k
  BY <1>3, Divided
<1>6. out' = out \o SubSeq(b, 1, k) /\ pending' = SubSeq(b, k + 1, Len(b)) /\ out \in Seq(F)
  BY <1>3, <1>4 DEF Wrote, OutType
<1>7. out' \in Seq(F) /\ Len(out') = Len(out) + k
  BY <1>5, <1>6, Cat
<1>8. out' \o pending' = out \o b
  <2>1. PICK l \in Seq(F), r \in Seq(F) :
          l = SubSeq(b, 1, k) /\ r = SubSeq(b, k + 1, Len(b)) /\ l \o r = b
    BY <1>5
  <2>2. out \in Seq(F) /\ l \in Seq(F) /\ r \in Seq(F)
    BY <1>6
  <2>3. (out \o l) \o r = out \o (l \o r)
    BY ONLY <2>2, ConcatAssociative
  <2>4. QED
    BY <1>6, <2>1, <2>3
<1>9. Len(out') <= OutMax
  BY <1>1, <1>2, <1>4, <1>7 DEF Room
<1>10. QED
  BY <1>1, <1>3, <1>4, <1>5, <1>6, <1>7, <1>8, <1>9

LEMMA OutStep == RoundType /\ CallersType /\ OutType /\ Next => OutType'
<1> SUFFICES ASSUME RoundType, CallersType, OutType, Next PROVE OutType'
  OBVIOUS
<1>1. <<>> \in Seq(Fragments(Words)) /\ Len(<<>>) <= 2
  OBVIOUS
<1>2. ASSUME NEW b \in Seq(Fragments(Words)), Len(b) <= 2, Wrote(b), partial' = partial
      PROVE  OutType'
  BY <1>2, WroteIs DEF OutType
<1>3. CASE Handshake
  BY <1>2, <1>3 DEF Handshake, OutType, captainVars
<1>4. CASE Resume
  BY <1>2, <1>4 DEF Resume, WritePass, OutType, captainVars
<1>5. CASE WriteNext
  <2>1. Head(tx) \in Words
    BY <1>5, HeadTailProperties DEF WriteNext, CallersType, Words
  <2>2. Bytes(Head(tx)) \in Seq(Fragments(Words)) /\ Len(Bytes(Head(tx))) = 2
    BY <2>1, WordBytes
  <2>3. Wrote(Bytes(Head(tx))) /\ partial' = partial
    BY <1>5 DEF WriteNext, WritePass, captainVars
  <2>4. PICK b \in Seq(Fragments(Words)) : b = Bytes(Head(tx)) /\ Len(b) = 2
    BY <2>2
  <2>5. Len(b) <= 2
    <3>1. PICK n \in Nat : n = Len(b) /\ n = 2
      BY <2>4
    <3>2. QED
      BY <3>1
  <2>6. QED
    BY <1>2, <2>3, <2>4, <2>5
<1>6. CASE KeepAlive
  <2>1. Bytes(Keepalive) \in Seq(Fragments(Words)) /\ Len(Bytes(Keepalive)) = 2
    BY OwnBytes
  <2>2. Wrote(Bytes(Keepalive)) /\ partial' = partial
    BY <1>6 DEF KeepAlive, WritePass, captainVars
  <2>3. PICK b \in Seq(Fragments(Words)) : b = Bytes(Keepalive) /\ Len(b) = 2
    BY <2>1
  <2>4. Len(b) <= 2
    BY <2>3
  <2>5. QED
    BY <1>2, <2>2, <2>3, <2>4
<1>7. CASE WriteNothing
  <2>1. Wrote(<<>>) /\ partial' = partial
    BY <1>7 DEF WriteNothing, WritePass, captainVars
  <2>2. PICK b : b = <<>> /\ b \in Seq(Fragments(Words)) /\ Len(b) <= 2
    BY <1>1
  <2>3. QED
    BY <1>2, <2>1, <2>2
<1>8. CASE Publish
  <2>1. pending' = Bytes(Sentinel) /\ UNCHANGED <<partial, out>>
    BY <1>8 DEF Publish, PortStays, portVars, captainVars
  <2>2. Bytes(Sentinel) \in Seq(Fragments(Words)) /\ Len(Bytes(Sentinel)) = 2
    BY OwnBytes
  <2>3. pending' \in Seq(Fragments(Words)) /\ Len(pending') <= 2
    BY <2>1, <2>2
  <2>4. QED
    BY <2>1, <2>3 DEF OutType
<1>9. CASE OpenFails \/ OpenPort \/ NoneAnswered \/ KeepPort \/ SyncGoesOn
  BY <1>9 DEF OutType, OpenFails, OpenPort, NoneAnswered, KeepPort, SyncGoesOn, sessionVars,
              PortStays, portVars, captainVars
<1>10. CASE Abandon \/ SyncFails \/ Down \/ Close
  <2>1. /\ pending' \in {pending, <<>>} /\ partial' \in {partial, <<>>} /\ out' \in {out, <<>>}
    BY <1>10 DEF Abandon, SyncFails, Down, Close, ClosePort, sessionVars, PortStays, portVars,
                 captainVars
  <2>2. QED
    BY <2>1, OutEmptied
<1>11. CASE NextPass \/ Read \/ Wait \/ Raise \/ Backoff
  BY <1>11 DEF OutType, NextPass, Read, Wait, Raise, Backoff, sessionVars, PortStays, portVars,
               captainVars
<1>12. CASE Send \/ SetActivity \/ WakeRead \/ StopSets
  BY <1>12 DEF OutType, Send, SetActivity, WakeRead, StopSets, sessionVars, PortStays, portVars,
               captainVars
<1>13. CASE StopCloses
  <2>1. /\ pending' = pending /\ partial' \in {partial, <<>>} /\ out' \in {out, <<>>}
    BY <1>13 DEF StopCloses, ClosePort, sessionVars, PortStays, portVars, captainVars
  <2>2. QED
    BY <2>1, OutEmptied
<1>14. CASE Take
  <2>1. Head(out) \in Fragments(Words) /\ out' \in Seq(Fragments(Words)) /\ Len(out') = Len(out) - 1
    BY <1>14, HeadTailProperties DEF Take, OutType
  <2>2. partial' \in {<<>>, <<Head(out)>>} /\ pending' = pending
    BY <1>14 DEF Take, sessionVars
  <2>3. Len(out') <= OutMax
    <3>1. Len(out) \in Nat /\ OutMax \in Nat /\ Len(out) <= OutMax
      BY SizesAssumption DEF OutType
    <3>2. QED
      BY <2>1, <3>1
  <2>4. partial' \in Seq(Fragments(Words))
    <3>1. CASE partial' = <<>>
      BY <1>1, <3>1
    <3>2. CASE partial' = <<Head(out)>>
      BY <2>1, <3>2
    <3>3. QED
      BY <2>2, <3>1, <3>2
  <2>5. QED
    BY <2>1, <2>2, <2>3, <2>4 DEF OutType
<1>15. CASE Emit \/ Fails \/ TimePasses \/ \E e \in Events : Event(e)
  BY <1>15 DEF OutType, Emit, Fails, TimePasses, Event, sessionVars, PortStays, portVars,
               captainVars
<1>16. QED
  BY <1>3, <1>4, <1>5, <1>6, <1>7, <1>8, <1>9, <1>10, <1>11, <1>12, <1>13, <1>14, <1>15
     DEF Next, Thread, Write, Captain

LEMMA AnswerBytes ==
  ASSUME RoundType
  PROVE  /\ \A x \in Words : Bytes(Reply(x)) \in Seq(Fragments(Answers))
         /\ \A e \in Events : Bytes(e) \in Seq(Fragments(Answers))
<1>1. \A x \in Answers : Bytes(x) \in Seq(Fragments(Answers))
  BY DEF Bytes, Fragment, Fragments
<1>2. \A x \in Words : Reply(x) \in Answers
  BY DEF Answers
<1>3. \A e \in Events : e \in Answers
  BY DEF Answers
<1>4. QED
  BY <1>1, <1>2, <1>3

LEMMA InEmptied ==
  ASSUME InType, rx' \in {rx, <<>>}, in' \in {in, <<>>}, emit' \in {emit, <<>>}
  PROVE  InType'
<1>1. PICK G : G = Fragments(Answers)
  OBVIOUS
<1>2. /\ rx \in Seq(G) /\ in \in Seq(G) /\ emit \in Seq(G)
      /\ Len(in) <= InMax /\ InMax \in Nat
  BY <1>1, SizesAssumption DEF InType
<1>3. rx' \in Seq(G) /\ emit' \in Seq(G)
  BY <1>2, Emptied
<1>4. in' \in Seq(G) /\ Len(in') <= InMax
  <2>1. in' \in Seq(G) /\ Len(in') \in Nat /\ Len(in) \in Nat /\ Len(in') <= Len(in)
    BY <1>2, Emptied
  <2>2. QED
    BY <1>2, <2>1
<1>5. QED
  BY <1>1, <1>3, <1>4 DEF InType

\* What is read is split, up to the last line that ends in it, and the rest.
SplitAt(p) ==
  /\ p \in 0 .. Len(rx \o in)
  /\ p # 0 => p \in Ends(rx \o in)
  /\ \A i \in Ends(rx \o in) : i <= p
  /\ rx' = SubSeq(rx \o in, p + 1, Len(rx \o in))
LEMMA SplitIs ==
  ASSUME InType, rx' = Rest(rx \o in)
  PROVE  /\ rx \o in \in Seq(Fragments(Answers))
         /\ \E p \in Nat : SplitAt(p)
         /\ rx' \in Seq(Fragments(Answers))
<1>1. rx \o in \in Seq(Fragments(Answers))
  BY Cat DEF InType
<1>2. PICK b \in Seq(Fragments(Answers)) : b = rx \o in
  BY <1>1
<1>3. PICK p : p = Max({0} \cup Ends(b))
  OBVIOUS
<1>4. p \in 0 .. Len(b) /\ (p # 0 => p \in Ends(b)) /\ \A i \in Ends(b) : i <= p
  BY <1>3, LastEnd
<1>5. rx' = SubSeq(b, p + 1, Len(b))
  BY <1>2, <1>3 DEF Rest
<1>6. Len(b) \in Nat
  BY <1>2
<1>7. rx' \in Seq(Fragments(Answers)) /\ p \in Nat
  BY <1>4, <1>5, <1>6
<1>8. QED
  BY <1>1, <1>2, <1>4, <1>5, <1>7 DEF SplitAt

LEMMA FeedIs ==
  ASSUME InType, Feed
  PROVE  /\ rx' = Rest(rx \o in) /\ in' = <<>>
         /\ heard' = heard \cup {Handed(rx \o in, i) : i \in HandedOn(rx \o in)}
<1>1. in' = SubSeq(in, Len(in) + 1, Len(in)) /\ Len(in) \in Nat
  BY DEF Feed, Chunk, InType
<1>2. in' = <<>>
  BY <1>1, SubSeqEmpty
<1>3. QED
  BY <1>2 DEF Feed, Chunk

LEMMA InStep == RoundType /\ OutType /\ InType /\ RestType /\ Next => InType'
<1> SUFFICES ASSUME RoundType, OutType, InType, RestType, Next PROVE InType'
  OBVIOUS
<1>1. PICK G : G = Fragments(Answers)
  OBVIOUS
<1>2. /\ rx \in Seq(G) /\ in \in Seq(G) /\ emit \in Seq(G) /\ Len(in) \in Nat
      /\ Len(in) <= InMax /\ InMax \in Nat /\ InMax >= 1 /\ <<>> \in Seq(G)
  BY <1>1, SizesAssumption DEF InType
<1>3. CASE NextPass \/ Read
  <2>1. rx' \in Seq(G) /\ in' = <<>> /\ emit' = emit
    BY <1>1, <1>3, FeedIs, SplitIs DEF NextPass, Read, captainVars
  <2>2. QED
    BY <1>1, <1>2, <2>1, Emptied DEF InType
<1>4. CASE Handshake
  <2>1. rx' \in Seq(G) /\ in' = <<>> /\ emit' = emit
    BY <1>1, <1>2, <1>4, SplitIs DEF Handshake, captainVars
  <2>2. QED
    BY <1>1, <1>2, <2>1, Emptied DEF InType
<1>5. CASE OpenPort
  <2>1. in' \in Seq(G) /\ (Len(in') = 0 \/ Len(in') = 1)
    <3>1. CASE in' = <<>>
      BY <3>1
    <3>2. CASE in' = <<Fragment(Stale, TRUE)>>
      <4>1. PICK f \in G : f = Fragment(Stale, TRUE)
        BY <1>1 DEF Fragment, Fragments, Answers
      <4>2. <<f>> \in Seq(G) /\ Len(<<f>>) = 1
        OBVIOUS
      <4>3. QED
        BY <3>2, <4>1, <4>2
    <3>3. QED
      BY <1>5, <3>1, <3>2 DEF OpenPort
  <2>2. rx' = rx /\ emit' = emit
    BY <1>5 DEF OpenPort
  <2>3. Len(in') <= InMax
    <3>1. \A n \in {0, 1} : n <= InMax
      BY SizesAssumption
    <3>2. QED
      BY <2>1, <3>1
  <2>4. QED
    BY <1>1, <1>2, <2>1, <2>2, <2>3 DEF InType
<1>6. CASE Take
  <2>1. Head(out).of \in Words
    <3>1. Head(out) \in Fragments(Words)
      BY <1>6, HeadTailProperties DEF Take, OutType
    <3>2. QED
      BY <3>1 DEF Fragments
  <2>2. emit' \in Seq(G) /\ UNCHANGED <<rx, in>>
    BY <1>1, <1>2, <1>6, <2>1, AnswerBytes DEF Take, sessionVars
  <2>3. QED
    BY <1>1, <1>2, <2>2 DEF InType
<1>7. CASE Emit
  <2>1. /\ in' = Append(in, Head(emit)) /\ emit' = Tail(emit) /\ emit # <<>> /\ Len(in) < InMax
        /\ rx' = rx
    BY <1>7 DEF Emit, sessionVars
  <2>2. Head(emit) \in G /\ Tail(emit) \in Seq(G)
    BY <1>2, <2>1, HeadTailProperties
  <2>3. in' \in Seq(G) /\ Len(in') = Len(in) + 1
    BY <1>2, <2>1, <2>2, AppendProperties
  <2>4. Len(in') <= InMax
    BY <1>2, <2>1, <2>3
  <2>5. QED
    BY <1>1, <1>2, <2>1, <2>2, <2>3, <2>4 DEF InType
<1>8. ASSUME NEW e \in Events, Event(e) PROVE InType'
  <2>1. emit' \in Seq(G) /\ UNCHANGED <<rx, in>>
    BY <1>1, <1>8, AnswerBytes DEF Event, sessionVars
  <2>2. QED
    BY <1>1, <1>2, <2>1 DEF InType
<1>9. CASE OpenFails \/ NoneAnswered \/ KeepPort \/ Publish \/ SyncGoesOn \/ Wait \/ Raise \/ Backoff
  BY <1>9 DEF InType, OpenFails, NoneAnswered, KeepPort, Publish, SyncGoesOn, Wait, Raise, Backoff,
              sessionVars, PortStays, portVars, captainVars
<1>10. CASE Abandon \/ SyncFails \/ Down \/ Close
  <2>1. rx' \in {rx, <<>>} /\ in' \in {in, <<>>} /\ emit' \in {emit, <<>>}
    BY <1>10 DEF Abandon, SyncFails, Down, Close, ClosePort, sessionVars, PortStays, portVars,
                 captainVars
  <2>2. QED
    BY <2>1, InEmptied
<1>11. CASE Write
  BY <1>11 DEF InType, Write, Resume, WriteNext, KeepAlive, WriteNothing, WritePass, captainVars
<1>12. CASE Send \/ SetActivity \/ WakeRead \/ StopSets
  BY <1>12 DEF InType, Send, SetActivity, WakeRead, StopSets, sessionVars, PortStays, portVars,
               captainVars
<1>13. CASE StopCloses
  <2>1. rx' \in {rx, <<>>} /\ in' \in {in, <<>>} /\ emit' \in {emit, <<>>}
    BY <1>13 DEF StopCloses, ClosePort, sessionVars, PortStays, portVars, captainVars
  <2>2. QED
    BY <2>1, InEmptied
<1>14. CASE Fails \/ TimePasses
  BY <1>14 DEF InType, Fails, TimePasses, sessionVars, PortStays, portVars, captainVars
<1>15. QED
  BY <1>3, <1>4, <1>5, <1>6, <1>7, <1>8, <1>9, <1>10, <1>11, <1>12, <1>13, <1>14
     DEF Next, Thread, Captain

LEMMA RestStep == InType /\ RestType /\ Next => RestType'
<1> SUFFICES ASSUME InType, RestType, Next PROVE RestType'
  OBVIOUS
<1>1. CASE NextPass \/ Read
  <2>1. heard' = heard \cup {Handed(rx \o in, i) : i \in HandedOn(rx \o in)}
    BY <1>1, FeedIs DEF NextPass, Read
  <2>2. PICK b \in Seq(Fragments(Answers)) : b = rx \o in
    BY Cat DEF InType
  <2>3. \A i \in 1 .. Len(b) : b[i].of \in Answers
    <3>1. \A f \in Fragments(Answers) : f.of \in Answers
      BY DEF Fragments
    <3>2. \A i \in 1 .. Len(b) : b[i] \in Fragments(Answers)
      OBVIOUS
    <3>3. QED
      BY <3>1, <3>2
  <2>4. {l.of : l \in heard} \subseteq Answers
    BY DEF RestType
  <2>5. \A i \in HandedOn(b) : i \in 1 .. Len(b)
    BY DEF HandedOn, Ends
  <2>6. ASSUME NEW i \in HandedOn(b)
        PROVE  Handed(b, i) \in [of : Answers, whole : BOOLEAN, after : SUBSET Answers]
    <3>1. b[i].of \in Answers /\ Whole(b, i) \in BOOLEAN
      BY <2>3, <2>5 DEF Whole
    <3>2. {b[j].of : j \in HandedOn(b) \cap 1 .. i - 1} \subseteq Answers
      BY <2>3, <2>5
    <3>3. QED
      BY <2>4, <3>1, <3>2 DEF Handed
  <2>7. UNCHANGED <<captain, events>>
    BY <1>1 DEF NextPass, Read, captainVars
  <2>8. QED
    BY <2>1, <2>2, <2>6, <2>7 DEF RestType
<1>2. CASE Close
  BY <1>2 DEF RestType, Close, ClosePort
<1>3. CASE OpenFails \/ NoneAnswered \/ KeepPort \/ Publish \/ SyncGoesOn \/ Wait \/ Raise \/ Backoff
           \/ Down
  BY <1>3 DEF RestType, OpenFails, NoneAnswered, KeepPort, Publish, SyncGoesOn, Wait, Raise, Backoff,
              Down, history, PortStays, portVars, captainVars
<1>4. CASE OpenPort \/ Abandon \/ SyncFails \/ Handshake
  BY <1>4 DEF RestType, OpenPort, Abandon, SyncFails, Handshake, ClosePort, history, captainVars
<1>5. CASE Write
  BY <1>5 DEF RestType, Write, Resume, WriteNext, KeepAlive, WriteNothing, WritePass, captainVars,
              history
<1>6. CASE Send \/ SetActivity \/ WakeRead \/ StopSets \/ StopCloses
  BY <1>6 DEF RestType, Send, SetActivity, WakeRead, StopSets, StopCloses, ClosePort, history,
              PortStays, portVars, captainVars
<1>7. CASE Captain \/ Fails \/ TimePasses \/ \E e \in Events : Event(e)
  BY <1>7 DEF RestType, Captain, Take, Emit, Fails, TimePasses, Event, history,
              PortStays, portVars, captainVars
<1>8. QED
  BY <1>1, <1>2, <1>3, <1>4, <1>5, <1>6, <1>7 DEF Next, Thread

LEMMA TypeStep == TypeOK /\ [Next]_vars => TypeOK'
<1> SUFFICES ASSUME TypeOK, [Next]_vars PROVE TypeOK'
  OBVIOUS
<1>1. Flags /\ RoundType /\ CallersType /\ OutType /\ InType /\ RestType
  BY Types
<1>2. CASE Next
  <2>1. Flags' /\ RoundType' /\ CallersType' /\ OutType' /\ InType' /\ RestType'
    BY <1>1, <1>2, FlagsStep, RoundStep, LinesStep, OutStep, InStep, RestStep
  <2>2. QED
    BY <2>1 DEF TypeOK, Flags, RoundType, CallersType, OutType, InType, RestType
<1>3. CASE UNCHANGED vars
  BY <1>3 DEF TypeOK, vars, roundVars, sharedVars, sessionVars, callerVars, portVars, captainVars,
              history
<1>4. QED
  BY <1>2, <1>3

LEMMA TypeInit == Init => TypeOK
<1> SUFFICES ASSUME Init PROVE TypeOK
  OBVIOUS
<1>1. 0 \in 0 .. MaxOpens /\ 0 \in 0 .. MaxLines /\ OutMax \in Nat /\ InMax \in Nat
  BY SizesAssumption
<1>2. Flags
  BY DEF Init, Flags
<1>3. RoundType
  BY <1>1 DEF Init, RoundType, ThreadSteps
<1>4. CallersType
  BY <1>1 DEF Init, CallersType
<1>5. OutType
  BY <1>1 DEF Init, OutType
<1>6. InType
  BY <1>1 DEF Init, InType
<1>7. RestType
  BY DEF Init, RestType
<1>8. QED
  BY <1>2, <1>3, <1>4, <1>5, <1>6, <1>7, Types

-----------------------------------------------------------------------------
(* Where the thread is, and wake-ups.                                      *)

LEMMA ControlStep ==
  ASSUME TypeOK, ControlInv, Next, Take => got' = got \/ accepted # <<>>
  PROVE  ControlInv'
<1> USE DEF Pumping, Between
<1>1. CASE OpenFails
  BY <1>1 DEF ControlInv, OpenFails, Goes, sharedVars, sessionVars, PortStays, portVars, captainVars,
              history
<1>2. CASE OpenPort
  BY <1>2 DEF ControlInv, OpenPort, Goes, sharedVars, history
<1>3. CASE NoneAnswered
  BY <1>3 DEF ControlInv, NoneAnswered, Goes, sharedVars, sessionVars, PortStays, portVars,
              captainVars, history
<1>4. CASE Abandon
  BY <1>4 DEF ControlInv, Abandon, Goes, ClosePort, sharedVars, sessionVars, history
<1>5. CASE KeepPort
  BY <1>5 DEF ControlInv, KeepPort, Goes, sharedVars, sessionVars, PortStays, portVars, captainVars,
              history
<1>6. CASE Publish
  BY <1>6 DEF ControlInv, Publish, Goes, PortStays, portVars, captainVars, history
<1>7. CASE SyncGoesOn
  BY <1>7 DEF ControlInv, SyncGoesOn, GoOn, Goes, sharedVars, sessionVars, PortStays, portVars,
              captainVars, history
<1>8. CASE Handshake
  <2>1. ~connected /\ tx = <<>> /\ open /\ accepted = <<>> /\ got = <<>> /\ heard = {}
    BY <1>8 DEF ControlInv, Handshake, CanIO
  <2>2. /\ pc' \in {"top", "sync"} /\ (pc' = "top" => connected') /\ (connected' => pc' = "top")
        /\ UNCHANGED <<tx, open, accepted, got, heard>>
    BY <1>8, <2>1 DEF Handshake, history
  <2>3. QED
    BY <2>1, <2>2 DEF ControlInv
<1>9. CASE SyncFails
  BY <1>9 DEF ControlInv, SyncFails, Goes, ClosePort, history
<1>10. CASE NextPass
  BY <1>10 DEF ControlInv, NextPass, Goes, CanIO, captainVars
<1>11. CASE Read
  BY <1>11 DEF ControlInv, Read, CanIO, captainVars
<1>12. CASE Wait
  BY <1>12 DEF ControlInv, Wait, Goes, sharedVars, sessionVars, PortStays, portVars, captainVars,
               history
<1>13. CASE Raise
  BY <1>13 DEF ControlInv, Raise, sharedVars, sessionVars, PortStays, portVars, captainVars, history
<1>14. CASE Down
  BY <1>14 DEF ControlInv, Down, Discard, Goes, PortStays, portVars, captainVars, history
<1>15. CASE Close
  BY <1>15 DEF ControlInv, Close, ClosePort
<1>16. CASE Backoff
  BY <1>16 DEF ControlInv, Backoff, sharedVars, sessionVars, PortStays, portVars, captainVars, history
<1>17. ASSUME NEW b, WritePass(b), tx # <<>> => pc = "write", tx' # <<>> => tx # <<>>
       PROVE  ControlInv'
  BY <1>17 DEF ControlInv, WritePass, CanIO, captainVars, history
<1>18. CASE Write
  BY <1>17, <1>18 DEF Write, Resume, WriteNext, KeepAlive, WriteNothing, WritePass, TypeOK
<1>19. CASE Send
  BY <1>19 DEF ControlInv, Send, sessionVars, PortStays, portVars, captainVars
<1>20. CASE SetActivity \/ WakeRead \/ StopSets
  <2>1. UNCHANGED <<pc, connected, tx, open, accepted, got, heard, out, in, partial, emit,
                    pending, rx>>
    BY <1>20 DEF SetActivity, WakeRead, StopSets, sharedVars, sessionVars, PortStays,
                 portVars, captainVars, history
  <2>2. QED
    BY <2>1 DEF ControlInv
<1>21. CASE StopCloses
  BY <1>21 DEF ControlInv, StopCloses, ClosePort, sharedVars, sessionVars, PortStays,
               portVars, captainVars, history
<1>22. CASE Take
  <2>1. /\ open /\ open' = open /\ out # <<>>
        /\ UNCHANGED <<pc, connected, tx, accepted, heard, pending, rx>>
    BY <1>22 DEF Take, Serves, sharedVars, sessionVars
  <2>2. pc \notin Between \cup {"opened", "kept"}
    BY <2>1 DEF ControlInv
  <2>3. ~connected /\ pc # "close" => got' = <<>>
    BY <1>22, <2>1 DEF ControlInv
  <2>4. QED
    BY <2>1, <2>2, <2>3 DEF ControlInv
<1>23. CASE Emit \/ Fails \/ \E e \in Events : Event(e)
  <2>1. /\ open /\ open' = open
        /\ UNCHANGED <<pc, connected, tx, accepted, got, heard, pending, rx, out, partial>>
    BY <1>23 DEF Emit, Fails, Event, Serves, sharedVars, sessionVars, history
  <2>2. QED
    BY <2>1 DEF ControlInv
<1>24. CASE TimePasses
  BY <1>24 DEF ControlInv, TimePasses, sharedVars, PortStays, portVars, captainVars, history
<1>25. QED
  BY <1>1, <1>2, <1>3, <1>4, <1>5, <1>6, <1>7, <1>8, <1>9, <1>10, <1>11, <1>12, <1>13, <1>14, <1>15,
     <1>16, <1>18, <1>19, <1>20, <1>21, <1>22, <1>23, <1>24 DEF Next, Thread, Captain

\* A line in the queue was put there in this session, by the caller that has still to
\* wake the thread or by an earlier one.
LEMMA WakeStep ==
  ASSUME TypeOK, ControlInv, WakeInv, Next
  PROVE  WakeInv'
<1>1. CASE OpenFails \/ NoneAnswered \/ Abandon \/ KeepPort \/ Publish \/ SyncGoesOn \/ SyncFails
           \/ OpenPort \/ Handshake
  <2>1. tx' = tx /\ tx = <<>>
    BY <1>1 DEF OpenFails, NoneAnswered, Abandon, KeepPort, Publish, SyncGoesOn, GoOn, SyncFails,
                OpenPort, Handshake, Goes, sharedVars, ControlInv, Pumping
  <2>2. QED
    BY <2>1 DEF WakeInv
<1>2. CASE NextPass \/ Wait \/ Raise \/ Backoff
  <2>1. pc' \notin {"read", "wait"} /\ UNCHANGED <<tx, sender, opens>>
    BY <1>2 DEF NextPass, Wait, Raise, Backoff, Goes, roundVars, sharedVars, callerVars
  <2>2. QED
    BY <2>1 DEF WakeInv
<1>3. CASE Read
  <2>1. /\ UNCHANGED <<tx, sender, opens, pending>> /\ (activity' <=> activity)
        /\ pc' \in {"top", "wait", "raised"} /\ (pc' = "wait" => pc = "read")
    BY <1>3 DEF Read, Notified, TakenBackAt, callerVars, roundVars
  <2>2. QED
    BY <2>1 DEF WakeInv
<1>4. CASE Write
  <2>1. UNCHANGED <<sender, opens, activity, open, woken>>
    BY <1>4 DEF Write, Resume, WriteNext, KeepAlive, WriteNothing, WritePass, callerVars, roundVars
  <2>2. tx' # <<>> => tx # <<>>
    BY <1>4 DEF Write, Resume, WriteNext, KeepAlive, WriteNothing
  <2>3. ASSUME NEW b \in Seq(Fragments(Words)), WritePass(b), b # <<>>
        PROVE  pending' = <<>> => pc' \notin {"read", "wait"}
    <3>1. OutType /\ Wrote(b)
      BY <2>3, Types DEF WritePass
    <3>2. /\ Fits(b) \in 0 .. Len(b) /\ Len(b) \in Nat /\ Len(pending') = Len(b) - Fits(b)
          /\ pending' \in Seq(Fragments(Words))
      BY <3>1, WroteIs
    <3>3. Len(b) # 0
      BY <2>3, <3>2, EmptySeq
    <3>4. pending' = <<>> => Len(pending') = 0
      BY EmptySeq
    <3>5. pending' = <<>> => Fits(b) > 0
      BY <3>2, <3>3, <3>4
    <3>6. QED
      BY <2>3, <3>5 DEF WritePass
  <2>4. CASE tx' = <<>>
    BY <2>4 DEF WakeInv
  <2>5. CASE tx' # <<>>
    <3>1. pending' = <<>> => pc' \notin {"read", "wait"}
      <4>1. CASE Resume
        BY <2>3, <4>1, Types DEF Resume, OutType
      <4>2. CASE WriteNext
        <5>1. Head(tx) \in Words
          BY <4>2, HeadTailProperties DEF WriteNext, TypeOK, Words
        <5>2. Bytes(Head(tx)) \in Seq(Fragments(Words)) /\ Bytes(Head(tx)) # <<>>
          BY <5>1, WordBytes DEF Bytes
        <5>3. QED
          BY <2>3, <4>2, <5>2 DEF WriteNext
      <4>3. QED
        BY <1>4, <2>2, <2>5, <4>1, <4>2 DEF Write, KeepAlive, WriteNothing
    <3>2. QED
      BY <2>1, <2>2, <3>1 DEF WakeInv
  <2>6. QED
    BY <2>4, <2>5
<1>5. CASE Down \/ Close
  <2>1. tx' = <<>> \/ (tx' = tx /\ tx = <<>>)
    BY <1>5 DEF Down, Discard, Close, ControlInv, Pumping
  <2>2. QED
    BY <2>1 DEF WakeInv
<1>6. CASE Send
  BY <1>6 DEF WakeInv, Send, roundVars
<1>7. CASE SetActivity
  <2>1. /\ sender[1] = "accepted" /\ sender' = <<"set", sender[2]>> /\ activity' = TRUE
        /\ UNCHANGED <<tx, opens, pending, pc>>
    BY <1>7 DEF SetActivity, roundVars, sessionVars
  <2>2. QED
    BY <2>1 DEF WakeInv
<1>8. CASE WakeRead
  <2>1. /\ sender[1] = "set" /\ sender' = <<"idle", 0>>
        /\ UNCHANGED <<tx, opens, pending, pc, activity, open>>
        /\ open /\ sender[2] = opens => woken'
    BY <1>8 DEF WakeRead, roundVars, sessionVars, sharedVars
  <2>2. QED
    BY <2>1 DEF WakeInv
<1>9. CASE StopSets
  BY <1>9 DEF WakeInv, StopSets, PortStays, portVars, roundVars, sessionVars
<1>10. CASE StopCloses
  <2>1. /\ UNCHANGED <<tx, opens, pending, pc, activity, sender>>
        /\ open' = FALSE \/ (open' = open /\ woken' = woken)
    BY <1>10 DEF StopCloses, ClosePort, PortStays, portVars, roundVars, sessionVars, sharedVars
  <2>2. QED
    BY <2>1 DEF WakeInv
<1>11. CASE Captain \/ Fails \/ TimePasses \/ \E e \in Events : Event(e)
  <2>1. UNCHANGED <<tx, opens, pending, pc, activity, sender, open, woken>>
    BY <1>11 DEF Captain, Take, Emit, Fails, TimePasses, Event, PortStays, portVars, roundVars,
                 sessionVars, sharedVars, callerVars
  <2>2. QED
    BY <2>1 DEF WakeInv
<1>12. QED
  BY <1>1, <1>2, <1>3, <1>4, <1>5, <1>6, <1>7, <1>8, <1>9, <1>10, <1>11 DEF Next, Thread

-----------------------------------------------------------------------------
(* What is on its way to the Captain.                                      *)

LEMMA Fragmented ==
  /\ \A x, b : Fragment(x, b).of = x /\ Fragment(x, b).last = b
  /\ \A n, m : LineEnd(n) = LineEnd(m) => n = m
  /\ \A n, x : LineEnd(n) # Fragment(x, FALSE)
  /\ \A n : \A x \in Own : LineEnd(n) # Fragment(x, TRUE)
<1>1. \A x, b : Fragment(x, b).of = x /\ Fragment(x, b).last = b
  BY DEF Fragment
<1>2. \A n : LineEnd(n).of = Line(n) /\ LineEnd(n).last
  BY <1>1 DEF LineEnd
<1>3. \A n, m : Line(n) = Line(m) => n = m
  BY DEF Line
<1>4. \A n : \A x \in Own : Line(n) # x
  BY DEF Line, Own
<1>5. \A n, m : LineEnd(n) = LineEnd(m) => n = m
  BY <1>2, <1>3
<1>6. \A n, x : LineEnd(n) # Fragment(x, FALSE)
  <2>1. \A x : ~Fragment(x, FALSE).last
    BY DEF Fragment
  <2>2. QED
    BY <1>2, <2>1
<1>7. \A n : \A x \in Own : LineEnd(n) # Fragment(x, TRUE)
  <2>1. \A x : Fragment(x, TRUE).of = x
    BY DEF Fragment
  <2>2. QED
    BY <1>2, <1>4, <2>1
<1>8. QED
  BY <1>1, <1>5, <1>6, <1>7

\* The next line is begun, or a ping of the hub's own.
LEMMA OneMore ==
  ASSUME NEW s \in Seq(Fragments(Words)), NEW x \in Words,
         NEW lo \in Nat, NEW hi \in Nat, NEW h \in Nat, lo <= hi + 1,
         (h = hi + 1 /\ x = Line(h)) \/ (h = hi /\ x \in Own),
         Sound(s), Ordered(s, lo, hi), AllOf(s, lo, hi)
  PROVE  LET t == s \o Bytes(x)
         IN  Sound(t) /\ Ordered(t, lo, h) /\ AllOf(t, lo, h)
<1>1. PICK t : t = s \o Bytes(x)
  OBVIOUS
<1>2. /\ t \in Seq(Fragments(Words)) /\ Len(t) = Len(s) + 2 /\ Len(s) \in Nat
      /\ \A i \in 1 .. Len(s) : t[i] = s[i]
      /\ t[Len(s) + 1] = Fragment(x, FALSE) /\ t[Len(s) + 2] = Fragment(x, TRUE)
      /\ Streamed(t) /\ Complete(t)
  BY <1>1, StreamGrows DEF Sound, AllOf
<1>3. Sound(t)
  <2>1. CASE s = <<>>
    <3>1. Len(s) + 1 = 1
      BY <2>1
    <3>2. t[1] = Fragment(x, FALSE)
      BY <1>2, <3>1
    <3>3. ~t[1].last
      BY <3>2 DEF Fragment
    <3>4. QED
      BY <1>2, <3>3 DEF Sound
  <2>2. CASE s # <<>>
    <3>1. 1 \in 1 .. Len(s)
      BY <1>2, <2>2, EmptySeq
    <3>2. t[1] = s[1] /\ ~s[1].last
      BY <1>2, <2>2, <3>1 DEF Sound
    <3>3. QED
      BY <1>2, <3>2 DEF Sound
  <2>3. QED
    BY <2>1, <2>2
<1>4. \A i \in 1 .. Len(t) : i \in 1 .. Len(s) \/ i = Len(s) + 1 \/ i = Len(s) + 2
  BY <1>2
<1>5. \A n \in Nat : Fragment(x, TRUE) = LineEnd(n) => n = hi + 1 /\ h = hi + 1
  BY Fragmented DEF LineEnd
<1>6. \A m \in lo .. hi : \E j \in 1 .. Len(s) : s[j] = LineEnd(m)
  BY DEF AllOf
<1>7. \A j \in 1 .. Len(s), m \in Nat : s[j] = LineEnd(m) => m <= hi
  BY DEF Ordered
<1>8. ASSUME NEW i \in 1 .. Len(t), NEW n \in Nat, t[i] = LineEnd(n)
      PROVE  /\ n \in lo .. h
             /\ \A m \in lo .. h : m < n => \E j \in 1 .. i - 1 : t[j] = LineEnd(m)
             /\ \A j \in 1 .. i - 1, m \in Nat : t[j] = LineEnd(m) => m < n
  <2>1. CASE i \in 1 .. Len(s)
    <3>1. s[i] = LineEnd(n)
      BY <1>2, <1>8, <2>1
    <3>2. /\ n \in lo .. hi
          /\ \A m \in lo .. hi : m < n => \E j \in 1 .. i - 1 : s[j] = LineEnd(m)
          /\ \A j \in 1 .. i - 1, m \in Nat : s[j] = LineEnd(m) => m < n
      BY <2>1, <3>1 DEF Ordered
    <3>3. \A j \in 1 .. i - 1 : t[j] = s[j]
      BY <1>2, <2>1
    <3>4. \A m \in lo .. h : m < n => m \in lo .. hi
      BY <3>2
    <3>5. n \in lo .. h
      BY <3>2
    <3>6. QED
      BY <3>2, <3>3, <3>4, <3>5
  <2>2. CASE i = Len(s) + 2
    <3>1. n = hi + 1 /\ h = hi + 1
      BY <1>2, <1>5, <1>8, <2>2
    <3>2. 1 .. Len(s) \subseteq 1 .. i - 1 /\ \A m \in lo .. h : m < n => m \in lo .. hi
      BY <1>2, <2>2, <3>1
    <3>3. \A m \in lo .. h : m < n => \E j \in 1 .. i - 1 : t[j] = LineEnd(m)
      BY <1>2, <1>6, <3>2
    <3>4. \A j \in 1 .. i - 1 : j \in 1 .. Len(s) \/ j = Len(s) + 1
      BY <1>2, <2>2
    <3>5. \A j \in 1 .. i - 1, m \in Nat : t[j] = LineEnd(m) => m <= hi
      BY <1>2, <1>7, <3>4, Fragmented
    <3>6. \A j \in 1 .. i - 1, m \in Nat : t[j] = LineEnd(m) => m < n
      BY <3>1, <3>5
    <3>7. QED
      BY <3>1, <3>3, <3>6
  <2>3. i # Len(s) + 1
    BY <1>2, <1>8, Fragmented
  <2>4. QED
    BY <1>4, <2>1, <2>2, <2>3
<1>9. Ordered(t, lo, h)
  BY <1>8 DEF Ordered
<1>10. \A m \in lo .. h : \E j \in 1 .. Len(t) : t[j] = LineEnd(m)
  <2>1. TAKE m \in lo .. h
  <2>2. CASE m \in lo .. hi
    BY <1>2, <1>6, <2>2
  <2>3. CASE m \notin lo .. hi
    <3>1. m = hi + 1 /\ h = hi + 1
      BY <2>3
    <3>2. x = Line(m)
      BY <3>1
    <3>3. t[Len(s) + 2] = LineEnd(m) /\ Len(s) + 2 \in 1 .. Len(t)
      BY <1>2, <3>2 DEF LineEnd
    <3>4. QED
      BY <3>3
  <2>4. QED
    BY <2>2, <2>3
<1>11. QED
  BY <1>1, <1>2, <1>3, <1>9, <1>10 DEF AllOf

\* The rest of a line is dropped.
LEMMA CutShort ==
  ASSUME NEW s \in Seq(Fragments(Words)), NEW k \in 0 .. Len(s),
         NEW lo \in Nat, NEW hi \in Nat, NEW h \in Nat, hi <= h,
         Sound(s), Ordered(s, lo, hi)
  PROVE  LET t == SubSeq(s, 1, k)
         IN  Sound(t) /\ Ordered(t, lo, h)
<1>1. PICK t : t = SubSeq(s, 1, k)
  OBVIOUS
<1>2. /\ t \in Seq(Fragments(Words)) /\ Len(t) = k /\ k <= Len(s) /\ k \in Nat /\ Len(s) \in Nat
      /\ \A i \in 1 .. k : t[i] = s[i]
  BY <1>1
<1>3. Streamed(t)
  <2>1. SUFFICES ASSUME NEW i \in 2 .. Len(t)
                 PROVE  /\ t[i].last => t[i - 1] = Fragment(t[i].of, FALSE)
                        /\ ~t[i - 1].last => t[i] = Fragment(t[i - 1].of, TRUE)
    BY DEF Streamed
  <2>2. i \in 2 .. Len(s) /\ t[i] = s[i] /\ t[i - 1] = s[i - 1]
    BY <1>2
  <2>3. QED
    BY <2>2 DEF Streamed, Sound
<1>4. t # <<>> => ~t[1].last
  <2>1. SUFFICES ASSUME t # <<>> PROVE ~t[1].last
    OBVIOUS
  <2>2. 1 \in 1 .. k
    BY <1>2, <2>1, EmptySeq
  <2>3. t[1] = s[1] /\ Len(s) # 0
    BY <1>2, <2>2
  <2>4. QED
    BY <2>3, EmptySeq DEF Sound
<1>5. ASSUME NEW i \in 1 .. Len(t), NEW n \in Nat, t[i] = LineEnd(n)
      PROVE  /\ n \in lo .. h
             /\ \A m \in lo .. h : m < n => \E j \in 1 .. i - 1 : t[j] = LineEnd(m)
             /\ \A j \in 1 .. i - 1, m \in Nat : t[j] = LineEnd(m) => m < n
  <2>1. i \in 1 .. Len(s) /\ t[i] = s[i] /\ \A j \in 1 .. i - 1 : t[j] = s[j]
    BY <1>2
  <2>2. /\ n \in lo .. hi
        /\ \A m \in lo .. hi : m < n => \E j \in 1 .. i - 1 : s[j] = LineEnd(m)
        /\ \A j \in 1 .. i - 1, m \in Nat : s[j] = LineEnd(m) => m < n
    BY <1>5, <2>1 DEF Ordered
  <2>3. n \in lo .. h /\ \A m \in lo .. h : m < n => m \in lo .. hi
    BY <2>2
  <2>4. QED
    BY <2>1, <2>2, <2>3
<1>6. QED
  BY <1>1, <1>3, <1>4, <1>5 DEF Sound, Ordered

\* The Captain gets the line that comes first, and it is the next one, if any.
LEMMA FirstGone ==
  ASSUME NEW s \in Seq(Fragments(Words)), Len(s) >= 2,
         NEW lo \in Nat, NEW hi \in Nat, NEW l \in Nat,
         Sound(s), Ordered(s, lo, hi),
         (s[2] = LineEnd(lo) /\ l = lo + 1) \/ ((\A n \in Nat : s[2] # LineEnd(n)) /\ l = lo)
  PROVE  LET t == SubSeq(s, 3, Len(s))
         IN  /\ Sound(t) /\ Ordered(t, l, hi)
             /\ AllOf(s, lo, hi) => AllOf(t, l, hi)
<1>1. PICK t : t = SubSeq(s, 3, Len(s))
  OBVIOUS
<1>2. Len(s) \in Nat /\ 2 \in 0 .. Len(s) /\ t = SubSeq(s, 2 + 1, Len(s))
  BY <1>1
<1>3. Streamed(s) /\ ~s[1].last
  <2>1. Len(s) # 0
    BY <1>2
  <2>2. QED
    BY <2>1, EmptySeq DEF Sound
<1>4. /\ t \in Seq(Fragments(Words)) /\ Len(t) = Len(s) - 2
      /\ \A i \in 1 .. Len(t) : i + 2 \in 1 .. Len(s) /\ t[i] = s[i + 2]
      /\ Streamed(t) /\ (Complete(s) => Complete(t))
  BY <1>2, <1>3, StreamEnds
<1>5. s[2].last
  <2>1. 2 \in 2 .. Len(s) /\ 2 - 1 = 1
    BY <1>2
  <2>2. s[2] = Fragment(s[1].of, TRUE)
    BY <1>3, <2>1 DEF Streamed
  <2>3. QED
    BY <2>2, Fragmented
<1>6. t # <<>> => ~t[1].last
  <2>1. SUFFICES ASSUME t # <<>>, t[1].last PROVE FALSE
    OBVIOUS
  <2>2. 1 \in 1 .. Len(t)
    BY <1>4, <2>1, EmptySeq
  <2>3. t[1] = s[3] /\ 3 \in 2 .. Len(s) /\ 3 - 1 = 2
    BY <1>4, <2>2
  <2>4. s[2] = Fragment(s[3].of, FALSE)
    BY <1>3, <2>1, <2>3 DEF Streamed
  <2>5. ~s[2].last
    BY <2>4 DEF Fragment
  <2>6. QED
    BY <1>5, <2>5
<1>7. \A n \in Nat : s[1] # LineEnd(n)
  BY <1>3, Fragmented DEF LineEnd
<1>8. ASSUME NEW m \in l .. hi
      PROVE  m \in lo .. hi /\ s[1] # LineEnd(m) /\ s[2] # LineEnd(m)
  <2>1. m \in Nat /\ m \in lo .. hi /\ m >= l
    OBVIOUS
  <2>2. CASE s[2] = LineEnd(lo) /\ l = lo + 1
    <3>1. m # lo
      BY <2>1, <2>2
    <3>2. QED
      BY <1>7, <2>1, <2>2, <3>1, Fragmented
  <2>3. CASE \A n \in Nat : s[2] # LineEnd(n)
    BY <1>7, <2>1, <2>3
  <2>4. QED
    BY <2>2, <2>3
<1>9. ASSUME NEW k \in 1 .. Len(s), NEW m \in l .. hi, NEW j \in 1 .. k, s[j] = LineEnd(m)
      PROVE  j - 2 \in 1 .. k - 2 /\ t[j - 2] = LineEnd(m)
  <2>1. j # 1 /\ j # 2
    BY <1>8, <1>9
  <2>2. j - 2 \in 1 .. k - 2 /\ j - 2 \in 1 .. Len(t) /\ (j - 2) + 2 = j
    BY <1>2, <1>4, <2>1
  <2>3. QED
    BY <1>4, <1>9, <2>2
<1>10. ASSUME NEW i \in 1 .. Len(t), NEW n \in Nat, t[i] = LineEnd(n)
       PROVE  /\ n \in l .. hi
              /\ \A m \in l .. hi : m < n => \E j \in 1 .. i - 1 : t[j] = LineEnd(m)
              /\ \A j \in 1 .. i - 1, m \in Nat : t[j] = LineEnd(m) => m < n
  <2>1. PICK k \in 1 .. Len(s) : k = i + 2 /\ t[i] = s[k]
    BY <1>4
  <2>2. /\ n \in lo .. hi
        /\ \A m \in lo .. hi : m < n => \E j \in 1 .. k - 1 : s[j] = LineEnd(m)
        /\ \A j \in 1 .. k - 1, m \in Nat : s[j] = LineEnd(m) => m < n
    BY <1>10, <2>1 DEF Ordered
  <2>3. n \in l .. hi
    <3>1. CASE s[2] = LineEnd(lo) /\ l = lo + 1
      <4>1. 2 \in 1 .. k - 1
        BY <2>1
      <4>2. lo < n
        BY <2>2, <3>1, <4>1
      <4>3. QED
        BY <2>2, <3>1, <4>2
    <3>2. CASE l = lo
      BY <2>2, <3>2
    <3>3. QED
      BY <3>1, <3>2
  <2>4. ASSUME NEW m \in l .. hi, m < n
        PROVE  \E j \in 1 .. i - 1 : t[j] = LineEnd(m)
    <3>1. m \in lo .. hi
      BY <1>8
    <3>2. PICK j \in 1 .. k - 1 : s[j] = LineEnd(m)
      BY <2>2, <2>4, <3>1
    <3>3. k - 1 \in 1 .. Len(s) /\ (k - 1) - 2 = i - 1
      <4>1. i \in Nat /\ i >= 1 /\ k = i + 2 /\ k <= Len(s)
        BY <1>2, <1>4, <2>1
      <4>2. QED
        BY <1>2, <4>1
    <3>4. j - 2 \in 1 .. i - 1 /\ t[j - 2] = LineEnd(m)
      BY <1>9, <3>2, <3>3
    <3>5. QED
      BY <3>4
  <2>5. ASSUME NEW j \in 1 .. i - 1, NEW m \in Nat, t[j] = LineEnd(m)
        PROVE  m < n
    <3>1. j \in 1 .. Len(t) /\ j + 2 \in 1 .. k - 1
      BY <2>1
    <3>2. s[j + 2] = LineEnd(m)
      BY <1>4, <2>5, <3>1
    <3>3. QED
      BY <2>2, <3>1, <3>2
  <2>6. QED
    BY <2>3, <2>4, <2>5
<1>11. ASSUME AllOf(s, lo, hi) PROVE AllOf(t, l, hi)
  <2>1. ASSUME NEW m \in l .. hi PROVE \E j \in 1 .. Len(t) : t[j] = LineEnd(m)
    <3>1. m \in lo .. hi
      BY <1>8
    <3>2. PICK j \in 1 .. Len(s) : s[j] = LineEnd(m)
      BY <1>11, <3>1 DEF AllOf
    <3>3. Len(s) \in 1 .. Len(s) /\ Len(s) - 2 = Len(t)
      BY <1>2, <1>4
    <3>4. j - 2 \in 1 .. Len(t) /\ t[j - 2] = LineEnd(m)
      BY <1>9, <3>2, <3>3
    <3>5. QED
      BY <3>4
  <2>2. QED
    BY <1>4, <1>11, <2>1 DEF AllOf
<1>12. Sound(t)
  BY <1>4, <1>6 DEF Sound
<1>13. Ordered(t, l, hi)
  BY <1>10 DEF Ordered
<1>14. QED
  BY <1>1, <1>11, <1>12, <1>13

LEMMA CatParts ==
  ASSUME NEW S, NEW s \in Seq(S), NEW t \in Seq(S)
  PROVE  /\ SubSeq(s \o t, 1, Len(s)) = s
         /\ SubSeq(s \o t, Len(s) + 1, Len(s \o t)) = t
         /\ Len(s) \in 0 .. Len(s \o t)
<1>1. PICK c \in Seq(S) : c = s \o t
  BY Cat
<1>2. /\ Len(s) \in Nat /\ Len(t) \in Nat /\ Len(c) = Len(s) + Len(t)
      /\ \A i \in 1 .. Len(s) : c[i] = s[i]
      /\ \A i \in 1 .. Len(t) : c[Len(s) + i] = t[i]
  BY <1>1, Cat
<1>3. PICK k \in Nat : k = Len(s)
  BY <1>2
<1>4. k \in 0 .. Len(c)
  BY <1>2, <1>3
<1>5. /\ SubSeq(c, 1, k) \in Seq(S) /\ Len(SubSeq(c, 1, k)) = k
      /\ \A i \in 1 .. k : SubSeq(c, 1, k)[i] = c[i]
  BY <1>4
<1>6. /\ SubSeq(c, k + 1, Len(c)) \in Seq(S) /\ Len(SubSeq(c, k + 1, Len(c))) = Len(c) - k
      /\ \A i \in 1 .. Len(c) - k : SubSeq(c, k + 1, Len(c))[i] = c[k + i]
  BY <1>4
<1>7. SubSeq(c, 1, k) = s
  <2>1. PICK l \in Seq(S) : l = SubSeq(c, 1, k)
    BY <1>5
  <2>2. Len(l) = Len(s) /\ \A i \in 1 .. Len(l) : l[i] = s[i]
    BY <1>2, <1>3, <1>5, <2>1
  <2>3. QED
    BY <2>1, <2>2, SeqEqual
<1>8. SubSeq(c, k + 1, Len(c)) = t
  <2>1. PICK r \in Seq(S) : r = SubSeq(c, k + 1, Len(c))
    BY <1>6
  <2>2. Len(r) = Len(t)
    BY <1>2, <1>3, <1>6, <2>1
  <2>3. \A i \in 1 .. Len(r) : r[i] = t[i]
    BY <1>2, <1>3, <1>6, <2>1, <2>2
  <2>4. QED
    BY <2>1, <2>2, <2>3, SeqEqual
<1>9. QED
  BY <1>1, <1>3, <1>4, <1>7, <1>8

LEMMA HeadFirst ==
  ASSUME NEW S, NEW s \in Seq(S), s # <<>>
  PROVE  /\ <<Head(s)>> \in Seq(S) /\ Tail(s) \in Seq(S) /\ Len(<<Head(s)>>) = 1
         /\ s = <<Head(s)>> \o Tail(s)
<1>1. /\ Head(s) \in S /\ Tail(s) \in Seq(S) /\ Len(Tail(s)) = Len(s) - 1 /\ Head(s) = s[1]
      /\ \A i \in 1 .. Len(Tail(s)) : Tail(s)[i] = s[i + 1]
  BY HeadTailProperties
<1>2. PICK h \in Seq(S) : h = <<Head(s)>> /\ Len(h) = 1 /\ h[1] = s[1]
  <2>1. PICK e \in S : e = Head(s)
    BY <1>1
  <2>2. <<e>> \in Seq(S) /\ Len(<<e>>) = 1 /\ <<e>>[1] = e
    OBVIOUS
  <2>3. QED
    BY <1>1, <2>1, <2>2
<1>3. PICK r \in Seq(S) : r = Tail(s)
  BY <1>1
<1>4. PICK c \in Seq(S) : c = h \o r
  BY Cat
<1>5. /\ Len(c) = Len(h) + Len(r)
      /\ \A i \in 1 .. Len(h) : c[i] = h[i]
      /\ \A i \in 1 .. Len(r) : c[Len(h) + i] = r[i]
      /\ Len(r) \in Nat /\ Len(s) \in Nat
  BY <1>4, Cat
<1>6. Len(c) = Len(s)
  BY <1>1, <1>2, <1>3, <1>5
<1>7. \A i \in 1 .. Len(c) : c[i] = s[i]
  <2>1. TAKE i \in 1 .. Len(c)
  <2>2. CASE i = 1
    BY <1>2, <1>5, <2>2
  <2>3. CASE i # 1
    <3>1. i - 1 \in 1 .. Len(r) /\ Len(h) + (i - 1) = i /\ (i - 1) + 1 = i
      BY <1>2, <1>5, <2>3
    <3>2. c[i] = r[i - 1] /\ r[i - 1] = s[i]
      BY <1>1, <1>3, <1>5, <3>1
    <3>3. QED
      BY <3>2
  <2>4. QED
    BY <2>2, <2>3
<1>8. c = s
  BY <1>6, <1>7, SeqEqual
<1>9. QED
  BY <1>1, <1>2, <1>3, <1>4, <1>8

LEMMA Numbers ==
  ASSUME TypeOK, CountInv
  PROVE  /\ sent \in Nat /\ Len(accepted) \in Nat /\ Len(got) \in Nat /\ Len(tx) \in Nat
         /\ Before \in Nat /\ NextOne \in Nat /\ LastBegun \in Nat /\ LastGot \in Nat
         /\ NextOne <= LastBegun + 1 /\ NextOne = LastGot + 1 /\ LastBegun <= sent
<1>1. sent \in Nat /\ Len(accepted) \in Nat /\ Len(got) \in Nat /\ Len(tx) \in Nat
  <2>1. CallersType
    BY Types
  <2>2. sent \in Nat
    BY <2>1, SizesAssumption DEF CallersType
  <2>3. Len(accepted) \in Nat /\ Len(got) \in Nat /\ Len(tx) \in Nat
    BY <2>1 DEF CallersType
  <2>4. QED
    BY <2>2, <2>3
<1>2. Len(accepted) <= sent /\ Len(got) + Len(tx) <= Len(accepted)
  BY DEF CountInv
<1>3. QED
  BY <1>1, <1>2 DEF Before, NextOne, LastBegun, LastGot

LEMMA StreamTypes ==
  ASSUME TypeOK
  PROVE  Sending \in Seq(Fragments(Words)) /\ Coming \in Seq(Fragments(Answers))
<1>1. PICK F : F = Fragments(Words)
  OBVIOUS
<1>2. PICK G : G = Fragments(Answers)
  OBVIOUS
<1>3. partial \in Seq(F) /\ out \in Seq(F) /\ pending \in Seq(F)
  BY <1>1 DEF TypeOK
<1>4. rx \in Seq(G) /\ in \in Seq(G) /\ emit \in Seq(G)
  BY <1>2 DEF TypeOK
<1>5. (partial \o out) \o pending \in Seq(F)
  BY <1>3, Cat
<1>6. (rx \o in) \o emit \in Seq(G)
  BY <1>4, Cat
<1>7. QED
  BY <1>1, <1>2, <1>5, <1>6 DEF Sending, Coming

\* What the Captain takes ends the line that comes first, of which it has the rest, or
\* begins it.
LEMMA TakenIs ==
  ASSUME TypeOK, SendingInv, Take
  PROVE  /\ Head(out) \in Fragments(Words)
         /\ Head(out).last => /\ partial' = <<>> /\ Len(Sending) \in Nat /\ Len(Sending) >= 2
                              /\ Sending[2] = Head(out) /\ ~Sending[1].last
                              /\ Sending' = SubSeq(Sending, 3, Len(Sending))
                              /\ partial = <<Fragment(Head(out).of, FALSE)>>
         /\ ~Head(out).last => /\ Sending' = Sending /\ partial' = <<Head(out)>>
<1>1. PICK F : F = Fragments(Words)
  OBVIOUS
<1>2. partial \in Seq(F) /\ out \in Seq(F) /\ pending \in Seq(F) /\ out # <<>>
  BY <1>1 DEF TypeOK, Take
<1>3. PICK h : h = <<Head(out)>>
  OBVIOUS
<1>4. PICK r : r = Tail(out)
  OBVIOUS
<1>5. /\ h \in Seq(F) /\ r \in Seq(F) /\ Len(h) = 1 /\ out = h \o r
      /\ h[1] = Head(out) /\ Head(out) \in F
  <2>1. h \in Seq(F) /\ r \in Seq(F) /\ Len(h) = 1 /\ out = h \o r
    BY <1>2, <1>3, <1>4, HeadFirst
  <2>2. Head(out) \in F
    BY <1>2, HeadTailProperties
  <2>3. QED
    BY <1>3, <2>1, <2>2
<1>51. h \in Seq(F) /\ r \in Seq(F)
  BY <1>5
<1>6. PICK c : c = r \o pending
  OBVIOUS
<1>7. PICK a : a = partial \o h
  OBVIOUS
<1>8. c \in Seq(F) /\ a \in Seq(F)
  <2>1. c \in Seq(F)
    BY <1>2, <1>5, <1>6, Cat
  <2>2. a \in Seq(F)
    BY <1>2, <1>5, <1>7, Cat
  <2>3. QED
    BY <2>1, <2>2
<1>9. PICK s : s = Sending
  OBVIOUS
<1>10. s = a \o c /\ (h \o r) \o pending = h \o c
  <2>1. (h \o r) \o pending = h \o c
    <3>1. h \in Seq(F) /\ r \in Seq(F) /\ pending \in Seq(F)
      BY <1>2, <1>51
    <3>2. (h \o r) \o pending = h \o (r \o pending)
      BY ONLY <3>1, ConcatAssociative
    <3>3. QED
      BY <1>6, <3>2
  <2>2. (partial \o out) \o pending = partial \o (out \o pending)
    BY <1>2, ConcatAssociative
  <2>3. (partial \o h) \o c = partial \o (h \o c)
    <3>1. partial \in Seq(F) /\ h \in Seq(F) /\ c \in Seq(F)
      BY <1>2, <1>51, <1>8
    <3>2. QED
      BY ONLY <3>1, ConcatAssociative
  <2>4. QED
    BY <1>5, <1>7, <1>9, <2>1, <2>2, <2>3 DEF Sending
<1>11. /\ Len(a) = Len(partial) + 1 /\ Len(partial) \in Nat /\ Len(a) \in Nat
       /\ a[Len(partial) + 1] = Head(out) /\ \A i \in 1 .. Len(partial) : a[i] = partial[i]
  <2>1. /\ Len(a) = Len(partial) + Len(h) /\ Len(partial) \in Nat
        /\ \A i \in 1 .. Len(partial) : a[i] = partial[i]
        /\ \A i \in 1 .. Len(h) : a[Len(partial) + i] = h[i]
    BY <1>2, <1>51, <1>7, Cat
  <2>2. Len(h) = 1 /\ h[1] = Head(out)
    BY <1>5
  <2>3. QED
    BY <2>1, <2>2
<1>12. /\ s \in Seq(F) /\ Len(s) = Len(a) + Len(c) /\ Len(c) \in Nat
       /\ \A i \in 1 .. Len(a) : s[i] = a[i]
       /\ SubSeq(s, Len(a) + 1, Len(s)) = c
  BY <1>8, <1>10, Cat, CatParts
<1>13. Len(s) \in Nat /\ Len(s) >= Len(partial) + 1 /\ s[Len(partial) + 1] = Head(out)
  <2>1. Len(a) \in 1 .. Len(a) /\ Len(s) >= Len(a) /\ Len(s) \in Nat
    BY <1>11, <1>12
  <2>2. s[Len(a)] = a[Len(a)]
    BY <1>12, <2>1
  <2>3. QED
    BY <1>11, <2>1, <2>2
<1>14. Len(s) # 0 /\ (Len(partial) = 0 \/ Len(partial) = 1)
  <2>1. Len(partial) <= 1
    BY DEF SendingInv
  <2>2. \A n, m \in Nat : n >= m + 1 /\ m <= 1 => n # 0 /\ (m = 0 \/ m = 1)
    OBVIOUS
  <2>3. QED
    BY ONLY <1>11, <1>13, <2>1, <2>2
<1>15. Streamed(s) /\ ~s[1].last
  <2>1. Sound(s)
    BY <1>9 DEF SendingInv, Take, Serves
  <2>2. s # <<>>
    BY <1>14, EmptySeq
  <2>3. QED
    BY <2>1, <2>2 DEF Sound
<1>16. /\ out' = r /\ pending' = pending
       /\ partial' = IF Head(out).last THEN <<>> ELSE h
  BY <1>3, <1>4 DEF Take, sessionVars
<1>17. Sending' = (partial' \o r) \o pending
  BY <1>16 DEF Sending
<1>18. CASE Head(out).last
  <2>1. Len(partial) = 1
    <3>1. ASSUME Len(partial) = 0 PROVE FALSE
      <4>1. s[1] = Head(out)
        BY <1>13, <3>1
      <4>2. QED
        BY <1>15, <1>18, <4>1
    <3>2. QED
      BY ONLY <1>14, <3>1
  <2>2. Len(s) >= 2 /\ s[2] = Head(out)
    BY <1>13, <2>1
  <2>3. SubSeq(s, 3, Len(s)) = c
    <3>1. Len(a) + 1 = 3
      BY <1>11, <2>1
    <3>2. QED
      BY <1>12, <3>1
  <2>4. Sending' = c /\ partial' = <<>>
    <3>1. <<>> \o r = r
      BY <1>5, ConcatEmptySeq
    <3>2. QED
      BY <1>6, <1>16, <1>17, <1>18, <3>1
  <2>5. partial = <<Fragment(Head(out).of, FALSE)>>
    <3>1. 2 \in 2 .. Len(s) /\ 2 - 1 = 1 /\ s[2].last
      BY <1>13, <1>18, <2>2
    <3>2. s[1] = Fragment(Head(out).of, FALSE)
      BY <1>15, <2>2, <3>1 DEF Streamed
    <3>3. partial[1] = s[1]
      <4>1. 1 \in 1 .. Len(a) /\ 1 \in 1 .. Len(partial)
        BY <1>11, <2>1
      <4>2. QED
        BY <1>11, <1>12, <4>1
    <3>4. partial = <<partial[1]>>
      BY <1>2, <2>1
    <3>5. QED
      BY <3>2, <3>3, <3>4
  <2>6. QED
    BY <1>1, <1>5, <1>9, <1>13, <1>15, <1>18, <2>2, <2>3, <2>4, <2>5
<1>19. CASE ~Head(out).last
  <2>1. Len(partial) = 0
    <3>1. ASSUME Len(partial) = 1 PROVE FALSE
      <4>1. s[2] = Head(out) /\ 2 \in 2 .. Len(s) /\ 2 - 1 = 1
        BY <1>13, <3>1
      <4>2. s[2] = Fragment(s[1].of, TRUE)
        BY <1>15, <4>1 DEF Streamed
      <4>3. s[2].last
        BY <4>2, Fragmented
      <4>4. QED
        BY <1>19, <4>1, <4>3
    <3>2. QED
      BY ONLY <1>14, <3>1
  <2>2. partial = <<>>
    BY <1>2, <2>1, EmptySeq
  <2>3. Sending' = h \o c /\ s = h \o c /\ partial' = h
    <3>1. <<>> \o h = h
      BY <1>5, ConcatEmptySeq
    <3>2. (h \o r) \o pending = h \o c
      BY <1>10
    <3>3. a = h
      BY <1>7, <2>2, <3>1
    <3>4. QED
      BY <1>10, <1>16, <1>17, <1>19, <3>2, <3>3
  <2>4. QED
    BY <1>1, <1>3, <1>5, <1>9, <1>19, <2>3
<1>20. QED
  BY <1>18, <1>19

\* So a line that ends is whole.
LEMMA TakenWhole ==
  ASSUME TypeOK, SendingInv, Take
  PROVE  got' = IF Head(out).last /\ Head(out).of \in Lines THEN Append(got, Head(out).of) ELSE got
<1>1. Head(out).last => partial = <<Fragment(Head(out).of, FALSE)>>
  BY TakenIs
<1>2. QED
  BY <1>1 DEF Take

\* A line of the hub that the Captain gets is the next one.
LEMMA TakenLine ==
  ASSUME TypeOK, CountInv, SendingInv, Take, Head(out).last
  PROVE  /\ Head(out).of \in Lines =>
              /\ Head(out) = LineEnd(NextOne) /\ Head(out).of = Line(NextOne)
              /\ NextOne <= LastBegun
         /\ Head(out).of \notin Lines => \A n \in Nat : Head(out) # LineEnd(n)
<1>1. /\ Len(Sending) \in Nat /\ Len(Sending) >= 2 /\ Sending[2] = Head(out)
      /\ ~Sending[1].last /\ Head(out) \in Fragments(Words)
  BY TakenIs
<1>2. Ordered(Sending, NextOne, LastBegun) /\ NextOne \in Nat /\ LastBegun \in Nat
  BY Numbers DEF SendingInv, Take, Serves
<1>3. Head(out) = Fragment(Head(out).of, TRUE)
  <2>1. \A f \in Fragments(Words) : f.last => f = Fragment(f.of, TRUE)
    BY DEF Fragments, Fragment
  <2>2. QED
    BY <1>1, <2>1
<1>4. ASSUME NEW n \in Nat, Head(out) = LineEnd(n)
      PROVE  n = NextOne /\ NextOne <= LastBegun
  <2>1. 2 \in 1 .. Len(Sending) /\ 2 - 1 = 1
    BY <1>1
  <2>2. /\ n \in NextOne .. LastBegun
        /\ \A m \in NextOne .. LastBegun :
             m < n => \E j \in 1 .. 1 : Sending[j] = LineEnd(m)
    BY <1>1, <1>2, <1>4, <2>1 DEF Ordered
  <2>3. \A m : Sending[1] # LineEnd(m)
    BY <1>1, Fragmented DEF LineEnd
  <2>4. ~(NextOne < n)
    <3>1. NextOne \in NextOne .. LastBegun
      BY <1>2, <2>2
    <3>2. \A j \in 1 .. 1 : j = 1
      OBVIOUS
    <3>3. QED
      BY <2>2, <2>3, <3>1, <3>2
  <2>5. QED
    BY <1>2, <2>2, <2>4
<1>5. \A x \in Lines : \E n \in Nat : x = Line(n)
  BY SizesAssumption DEF Lines, Line
<1>6. ASSUME Head(out).of \in Lines
      PROVE  /\ Head(out) = LineEnd(NextOne) /\ Head(out).of = Line(NextOne)
             /\ NextOne <= LastBegun
  <2>1. PICK n \in Nat : Head(out).of = Line(n)
    BY <1>5, <1>6
  <2>2. Head(out) = LineEnd(n)
    BY <1>3, <2>1 DEF LineEnd
  <2>3. QED
    BY <1>4, <2>1, <2>2
<1>7. ASSUME Head(out).of \notin Lines, NEW n \in Nat, Head(out) = LineEnd(n)
      PROVE  FALSE
  <2>1. Head(out).of \in Own
    <3>1. \A f \in Fragments(Words) : f.of \in Lines \cup Own
      BY DEF Fragments, Words
    <3>2. QED
      BY <1>1, <1>7, <3>1
  <2>2. QED
    BY <1>3, <1>7, <2>1, Fragmented
<1>8. QED
  BY <1>6, <1>7

LEMMA HistoryKept ==
  ASSUME Next
  PROVE  UNCHANGED <<sent, accepted, got, tx>> \/ WriteNext \/ Down \/ Close \/ Send \/ Take
<1>1. CASE OpenFails \/ NoneAnswered \/ Abandon \/ KeepPort \/ Publish \/ SyncGoesOn \/ SyncFails
           \/ OpenPort \/ Wait \/ Raise \/ Backoff
  BY <1>1 DEF OpenFails, NoneAnswered, Abandon, KeepPort, Publish, SyncGoesOn, SyncFails, OpenPort,
              Wait, Raise, Backoff, history, sharedVars
<1>2. CASE Handshake \/ NextPass \/ Read
  BY <1>2 DEF Handshake, NextPass, Read, history
<1>3. CASE Write
  BY <1>3 DEF Write, Resume, KeepAlive, WriteNothing, WritePass, history
<1>4. CASE SetActivity \/ WakeRead \/ StopSets \/ StopCloses
  BY <1>4 DEF SetActivity, WakeRead, StopSets, StopCloses, history, sharedVars
<1>5. CASE Emit \/ Fails \/ TimePasses \/ \E e \in Events : Event(e)
  BY <1>5 DEF Emit, Fails, TimePasses, Event, history, sharedVars
<1>6. QED
  BY <1>1, <1>2, <1>3, <1>4, <1>5 DEF Next, Thread, Captain

LEMMA CountStep ==
  ASSUME TypeOK, ControlInv, CountInv, SendingInv, Next
  PROVE  CountInv'
<1>1. /\ sent \in Nat /\ Len(accepted) \in Nat /\ Len(got) \in Nat /\ Len(tx) \in Nat
      /\ Before \in Nat /\ Before = sent - Len(accepted)
  BY Numbers DEF Before
<1>2. tx \in Seq(Lines) /\ accepted \in Seq(Lines) /\ got \in Seq(Lines)
  BY DEF TypeOK
<1>3. /\ Len(accepted) <= sent /\ Len(got) + Len(tx) <= Len(accepted)
      /\ \A k \in 1 .. Len(accepted) : accepted[k] = Line(Before + k)
      /\ \A k \in 1 .. Len(tx) : tx[k] = Line(sent - Len(tx) + k)
  BY DEF CountInv
<1>4. CASE UNCHANGED <<sent, accepted, got, tx>>
  BY <1>4 DEF CountInv, Before
<1>5. CASE WriteNext
  <2>1. tx # <<>> /\ tx' = Tail(tx) /\ UNCHANGED <<sent, accepted, got>>
    BY <1>5 DEF WriteNext, WritePass, history
  <2>2. /\ Len(tx') \in Nat /\ Len(tx') = Len(tx) - 1
        /\ \A k \in 1 .. Len(tx') : tx'[k] = tx[k + 1]
    BY <1>1, <1>2, <2>1, HeadTailProperties
  <2>3. \A k \in 1 .. Len(tx') : tx'[k] = Line(sent' - Len(tx') + k)
    <3>1. TAKE k \in 1 .. Len(tx')
    <3>2. k + 1 \in 1 .. Len(tx) /\ sent - Len(tx) + (k + 1) = sent' - Len(tx') + k
      BY <1>1, <2>1, <2>2
    <3>3. tx[k + 1] = Line(sent - Len(tx) + (k + 1))
      BY <1>3, <3>2
    <3>4. QED
      BY <2>2, <3>2, <3>3
  <2>4. Len(got') + Len(tx') <= Len(accepted')
    BY <1>1, <1>3, <2>1, <2>2
  <2>5. QED
    BY <1>3, <2>1, <2>3, <2>4 DEF CountInv, Before
<1>6. CASE Down
  <2>1. tx' = <<>> /\ UNCHANGED <<sent, accepted, got>>
    BY <1>6 DEF Down, Discard, history
  <2>2. Len(tx') = 0 /\ 1 .. Len(tx') = {}
    BY <2>1
  <2>3. Len(got') + Len(tx') <= Len(accepted')
    BY <1>1, <1>3, <2>1, <2>2
  <2>4. QED
    BY <1>3, <2>1, <2>2, <2>3 DEF CountInv, Before
<1>7. CASE Close
  <2>1. tx = <<>> /\ tx' = tx /\ sent' = sent /\ accepted' = <<>> /\ got' = <<>>
    BY <1>7 DEF Close, ControlInv, Pumping
  <2>2. Len(tx') = 0 /\ Len(accepted') = 0 /\ Len(got') = 0
    BY <2>1
  <2>3. 1 .. Len(tx') = {} /\ 1 .. Len(accepted') = {}
    BY <2>2
  <2>4. Len(accepted') <= sent' /\ Len(got') + Len(tx') <= Len(accepted')
    BY <1>1, <2>1, <2>2
  <2>5. QED
    BY <2>3, <2>4 DEF CountInv
<1>8. CASE Send
  <2>1. /\ sent' = sent + 1 /\ got' = got
        /\ tx' = Append(tx, Line(sent + 1)) /\ accepted' = Append(accepted, Line(sent + 1))
    BY <1>8 DEF Send, Line
  <2>2. Line(sent + 1) \in Lines
    <3>1. sent + 1 \in 1 .. MaxLines
      BY <1>1, <1>8, SizesAssumption DEF Send
    <3>2. QED
      BY <3>1 DEF Lines, Line
  <2>3. /\ Len(tx') = Len(tx) + 1 /\ tx'[Len(tx) + 1] = Line(sent + 1)
        /\ \A k \in 1 .. Len(tx) : tx'[k] = tx[k]
    BY <1>2, <2>1, <2>2, AppendProperties
  <2>4. /\ Len(accepted') = Len(accepted) + 1
        /\ accepted'[Len(accepted) + 1] = Line(sent + 1)
        /\ \A k \in 1 .. Len(accepted) : accepted'[k] = accepted[k]
    BY <1>2, <2>1, <2>2, AppendProperties
  <2>5. Before' = Before /\ sent' - Len(tx') = sent - Len(tx)
    BY <1>1, <2>1, <2>3, <2>4 DEF Before
  <2>6. \A k \in 1 .. Len(tx') : tx'[k] = Line(sent' - Len(tx') + k)
    <3>1. TAKE k \in 1 .. Len(tx')
    <3>2. CASE k \in 1 .. Len(tx)
      BY <1>3, <2>3, <2>5, <3>2
    <3>3. CASE k = Len(tx) + 1
      <4>1. sent - Len(tx) + k = sent + 1
        BY <1>1, <3>3
      <4>2. QED
        BY <2>3, <2>5, <3>3, <4>1
    <3>4. QED
      BY <1>1, <2>3, <3>2, <3>3
  <2>7. \A k \in 1 .. Len(accepted') : accepted'[k] = Line(Before' + k)
    <3>1. TAKE k \in 1 .. Len(accepted')
    <3>2. CASE k \in 1 .. Len(accepted)
      BY <1>3, <2>4, <2>5, <3>2
    <3>3. CASE k = Len(accepted) + 1
      <4>1. Before + k = sent + 1
        BY <1>1, <3>3
      <4>2. QED
        BY <2>4, <2>5, <3>3, <4>1
    <3>4. QED
      BY <1>1, <2>4, <3>2, <3>3
  <2>8. Len(accepted') <= sent' /\ Len(got') + Len(tx') <= Len(accepted')
    BY <1>1, <1>3, <2>1, <2>3, <2>4
  <2>9. QED
    BY <2>6, <2>7, <2>8 DEF CountInv
<1>9. CASE Take
  <2>1. UNCHANGED <<sent, accepted, tx>>
    BY <1>9 DEF Take, sharedVars
  <2>2. CASE got' = got
    BY <2>1, <2>2 DEF CountInv, Before
  <2>3. CASE got' # got
    <3>1. Head(out).last /\ Head(out).of \in Lines /\ got' = Append(got, Head(out).of)
      BY <1>9, <2>3 DEF Take
    <3>2. NextOne <= LastBegun
      BY <1>9, <3>1, TakenLine
    <3>3. Len(got') = Len(got) + 1
      BY <1>2, <3>1, AppendProperties
    <3>4. Len(got') + Len(tx') <= Len(accepted')
      BY <1>1, <2>1, <3>2, <3>3 DEF NextOne, LastBegun
    <3>5. QED
      BY <1>3, <2>1, <3>4 DEF CountInv, Before
  <2>4. QED
    BY <2>2, <2>3
<1>10. QED
  BY <1>4, <1>5, <1>6, <1>7, <1>8, <1>9, HistoryKept

\* Nothing is written nor taken.
LEMMA SendingSame ==
  ASSUME SendingInv, UNCHANGED <<partial, Sending, NextOne, LastBegun>>,
         open' => open, OnTheWay' => OnTheWay
  PROVE  SendingInv'
BY DEF SendingInv

LEMMA SendingClosed ==
  ASSUME partial' = <<>>, ~open'
  PROVE  SendingInv'
BY DEF SendingInv

\* What is written goes behind what is on its way.
LEMMA WrittenBehind ==
  ASSUME TypeOK, NEW b \in Seq(Fragments(Words)), Wrote(b), partial' = partial
  PROVE  /\ b = pending => Sending' = Sending
         /\ pending = <<>> => Sending' = Sending \o b
<1>1. PICK F : F = Fragments(Words)
  OBVIOUS
<1>2. /\ out' \in Seq(F) /\ pending' \in Seq(F) /\ out' \o pending' = out \o b
  BY <1>1, Types, WroteIs
<1>3. partial \in Seq(F) /\ out \in Seq(F) /\ pending \in Seq(F)
  BY <1>1 DEF TypeOK
<1>4. b \in Seq(F)
  BY <1>1
<1>5. (partial \o out') \o pending' = partial \o (out' \o pending')
  <2>1. partial \in Seq(F) /\ out' \in Seq(F) /\ pending' \in Seq(F)
    BY <1>2, <1>3
  <2>2. QED
    BY ONLY <2>1, ConcatAssociative
<1>6. (partial \o out) \o b = partial \o (out \o b)
  <2>1. partial \in Seq(F) /\ out \in Seq(F) /\ b \in Seq(F)
    BY <1>3, <1>4
  <2>2. QED
    BY ONLY <2>1, ConcatAssociative
<1>7. Sending' = (partial \o out) \o b
  BY <1>2, <1>5, <1>6 DEF Sending
<1>8. ASSUME pending = <<>> PROVE Sending = partial \o out
  <2>1. partial \o out \in Seq(F)
    BY <1>3, Cat
  <2>2. (partial \o out) \o <<>> = partial \o out
    BY <2>1, ConcatEmptySeq
  <2>3. QED
    BY <1>8, <2>2 DEF Sending
<1>9. QED
  BY <1>7, <1>8 DEF Sending

LEMMA SendingGrows ==
  ASSUME TypeOK, SendingInv, NEW x \in Words, NEW h \in Nat,
         NextOne \in Nat, LastBegun \in Nat, NextOne <= LastBegun + 1,
         (h = LastBegun + 1 /\ x = Line(h)) \/ (h = LastBegun /\ x \in Own),
         Sending' = Sending \o Bytes(x), open, OnTheWay,
         partial' = partial, NextOne' = NextOne, LastBegun' = h
  PROVE  SendingInv'
<1>1. PICK s \in Seq(Fragments(Words)) : s = Sending
  BY StreamTypes
<1>2. Sound(s) /\ Ordered(s, NextOne, LastBegun) /\ AllOf(s, NextOne, LastBegun)
  BY <1>1 DEF SendingInv
<1>3. PICK lo \in Nat, hi \in Nat : lo = NextOne /\ hi = LastBegun
  OBVIOUS
<1>4. PICK t : t = s \o Bytes(x)
  OBVIOUS
<1>5. Sound(t) /\ Ordered(t, lo, h) /\ AllOf(t, lo, h)
  <2>1. lo <= hi + 1 /\ ((h = hi + 1 /\ x = Line(h)) \/ (h = hi /\ x \in Own))
    BY <1>3
  <2>2. Sound(s) /\ Ordered(s, lo, hi) /\ AllOf(s, lo, hi)
    BY <1>2, <1>3
  <2>3. QED
    BY <1>4, <2>1, <2>2, OneMore
<1>6. Sending' = t
  BY <1>1, <1>4
<1>7. QED
  BY <1>3, <1>5, <1>6 DEF SendingInv

LEMMA SendingStep ==
  ASSUME TypeOK, ControlInv, CountInv, SendingInv, Next
  PROVE  SendingInv'
<1>1. /\ NextOne \in Nat /\ LastBegun \in Nat /\ NextOne <= LastBegun + 1
      /\ sent \in Nat /\ Len(tx) \in Nat /\ Len(accepted) \in Nat
  BY Numbers
<1>2. UNCHANGED <<sent, accepted, got, tx>> => UNCHANGED <<NextOne, LastBegun>>
  BY DEF NextOne, LastBegun, Before
<1>3. CASE OpenFails \/ NoneAnswered \/ KeepPort \/ SyncGoesOn \/ Wait \/ Raise \/ Backoff
  <2>1. /\ UNCHANGED <<sent, accepted, got, tx, partial, out, pending, open, connected>>
        /\ pc' \in {"sync", "handshake"} => pc \in {"sync", "handshake"}
    BY <1>3 DEF OpenFails, NoneAnswered, KeepPort, SyncGoesOn, GoOn, Wait, Raise, Backoff, Goes,
                history, sharedVars, sessionVars, PortStays, portVars, captainVars
  <2>2. QED
    BY <1>2, <2>1, SendingSame DEF Sending, OnTheWay
<1>4. CASE NextPass \/ Read
  <2>1. /\ UNCHANGED <<sent, accepted, got, tx, partial, out, pending, open, connected>>
        /\ pc' \notin {"sync", "handshake"}
    BY <1>4 DEF NextPass, Read, Goes, captainVars
  <2>2. QED
    BY <1>2, <2>1, SendingSame DEF Sending, OnTheWay
<1>5. CASE SetActivity \/ WakeRead \/ StopSets \/ Emit \/ Fails \/ TimePasses
           \/ \E e \in Events : Event(e)
  <2>1. UNCHANGED <<sent, accepted, got, tx, partial, out, pending, open, connected, pc>>
    BY <1>5 DEF SetActivity, WakeRead, StopSets, Emit, Fails, TimePasses, Event,
                history, sharedVars, sessionVars, PortStays, portVars, captainVars
  <2>2. QED
    BY <1>2, <2>1, SendingSame DEF Sending, OnTheWay
<1>6. CASE Send
  <2>1. /\ UNCHANGED <<got, partial, out, pending, open, connected, pc>>
        /\ sent' = sent + 1
        /\ tx' = Append(tx, Line(sent + 1)) /\ accepted' = Append(accepted, Line(sent + 1))
    BY <1>6 DEF Send, Line, sessionVars, PortStays, portVars, captainVars
  <2>2. Line(sent + 1) \in Lines /\ tx \in Seq(Lines) /\ accepted \in Seq(Lines)
    <3>1. sent + 1 \in 1 .. MaxLines
      BY <1>1, <1>6, SizesAssumption DEF Send
    <3>2. QED
      BY <3>1 DEF Lines, Line, TypeOK
  <2>3. Len(tx') = Len(tx) + 1 /\ Len(accepted') = Len(accepted) + 1
    BY <2>1, <2>2, AppendProperties
  <2>4. Before' = Before /\ LastBegun' = LastBegun
    BY <1>1, <2>1, <2>3 DEF Before, LastBegun
  <2>5. NextOne' = NextOne
    BY <2>1, <2>4 DEF NextOne
  <2>6. QED
    BY <2>1, <2>4, <2>5, SendingSame DEF Sending, OnTheWay
<1>7. CASE Abandon \/ SyncFails \/ Close
  BY <1>7, SendingClosed DEF Abandon, SyncFails, Close, ClosePort
<1>8. CASE StopCloses
  <2>1. CASE published
    BY <1>8, <2>1, SendingClosed DEF StopCloses, ClosePort
  <2>2. CASE ~published
    <3>1. UNCHANGED <<sent, accepted, got, tx, partial, out, pending, open, connected, pc>>
      BY <1>8, <2>2 DEF StopCloses, history, sharedVars, sessionVars, PortStays, portVars, captainVars
    <3>2. QED
      BY <1>2, <3>1, SendingSame DEF Sending, OnTheWay
  <2>3. QED
    BY <2>1, <2>2
<1>9. CASE OpenPort
  <2>1. /\ partial' = <<>> /\ out' = <<>> /\ pending' = <<>>
        /\ ~OnTheWay'
    BY <1>9 DEF OpenPort, Goes, ControlInv, Pumping, Between, OnTheWay, sharedVars
  <2>2. Sending' = <<>>
    BY <2>1 DEF Sending
  <2>3. Sound(<<>>) /\ \A lo, hi : Ordered(<<>>, lo, hi)
    BY DEF Sound, Streamed, Ordered
  <2>4. Len(partial') = 0
    BY <2>1
  <2>5. QED
    BY <2>1, <2>2, <2>3, <2>4 DEF SendingInv
<1>10. CASE Publish
  <2>1. partial = <<>> /\ out = <<>> /\ pending = <<>> /\ tx = <<>> /\ accepted = <<>> /\ got = <<>>
    BY <1>10 DEF Publish, Goes, ControlInv, Pumping, Between
  <2>2. /\ pending' = Bytes(Sentinel) /\ UNCHANGED <<partial, out, open>>
        /\ UNCHANGED <<sent, accepted, got, tx>>
    BY <1>10 DEF Publish, PortStays, portVars, captainVars, history
  <2>3. CASE ~open
    BY <2>1, <2>2, <2>3, SendingClosed
  <2>4. Bytes(Sentinel) \in Seq(Fragments(Words)) /\ Sentinel \in Words /\ Sentinel \in Own
    <3>1. RoundType
      BY Types
    <3>2. Sentinel \in Own
      BY <3>1 DEF RoundType, Sentinel, Own
    <3>3. QED
      BY <3>1, <3>2, OwnBytes, OwnWords
  <2>5. Sending = <<>>
    BY <2>1 DEF Sending
  <2>6. Sending' = <<>> \o Bytes(Sentinel)
    <3>1. <<>> \o Bytes(Sentinel) = Bytes(Sentinel)
      BY <2>4, ConcatEmptySeq
    <3>2. QED
      BY <2>1, <2>2, <3>1 DEF Sending
  <2>7. NextOne = LastBegun + 1
    <3>1. Len(tx) = 0 /\ Len(accepted) = 0 /\ Len(got) = 0
      BY <2>1
    <3>2. QED
      BY <1>1, <3>1 DEF NextOne, LastBegun, Before
  <2>8. CASE open
    <3>1. PICK s : s = <<>> /\ s \in Seq(Fragments(Words))
      BY EmptySeq
    <3>2. PICK lo \in Nat, hi \in Nat : lo = NextOne /\ hi = LastBegun /\ lo = hi + 1
      BY <1>1, <2>7
    <3>3. Sound(s) /\ Ordered(s, lo, hi)
      BY <3>1 DEF Sound, Streamed, Ordered
    <3>4. AllOf(s, lo, hi)
      <4>1. lo .. hi = {}
        BY <3>2
      <4>2. QED
        BY <3>1, <4>1 DEF AllOf, Complete
    <3>5. PICK t : t = s \o Bytes(Sentinel)
      OBVIOUS
    <3>6. lo <= hi + 1
      BY <3>2
    <3>7. Sound(t) /\ Ordered(t, lo, hi) /\ AllOf(t, lo, hi)
      BY <2>4, <3>1, <3>3, <3>4, <3>5, <3>6, OneMore
    <3>8. Sending' = t /\ NextOne' = lo /\ LastBegun' = hi
      BY <1>2, <2>2, <2>6, <3>1, <3>2, <3>5
    <3>9. partial' = <<>> /\ Len(partial') = 0
      BY <2>1, <2>2
    <3>10. QED
      BY <3>7, <3>8, <3>9 DEF SendingInv
  <2>9. QED
    BY <2>3, <2>8
<1>11. CASE Handshake
  <2>1. /\ UNCHANGED <<sent, accepted, got, tx, partial, open>> /\ Wrote(pending)
        /\ pc = "handshake"
    BY <1>11 DEF Handshake, captainVars, history
  <2>2. Sending' = Sending
    BY <2>1, WrittenBehind DEF TypeOK
  <2>3. QED
    BY <1>2, <2>1, <2>2, SendingSame DEF OnTheWay
<1>12. ASSUME NEW b, WritePass(b)
       PROVE  /\ UNCHANGED <<sent, accepted, got, partial, open, connected>> /\ Wrote(b)
              /\ open /\ connected /\ OnTheWay
  BY <1>12 DEF WritePass, CanIO, captainVars, history, ControlInv, Pumping, OnTheWay
<1>13. CASE Resume \/ WriteNothing
  <2>1. PICK b \in Seq(Fragments(Words)) : WritePass(b) /\ b = pending /\ tx' = tx
    <3>1. pending \in Seq(Fragments(Words))
      BY DEF TypeOK
    <3>2. QED
      BY <1>13, <3>1 DEF Resume, WriteNothing
  <2>2. Sending' = Sending
    BY <1>12, <2>1, WrittenBehind
  <2>3. QED
    BY <1>2, <1>12, <2>1, <2>2, SendingSame DEF OnTheWay
<1>14. CASE KeepAlive
  <2>1. WritePass(Bytes(Keepalive)) /\ pending = <<>> /\ tx' = tx
    BY <1>14 DEF KeepAlive
  <2>2. Bytes(Keepalive) \in Seq(Fragments(Words)) /\ Keepalive \in Words /\ Keepalive \in Own
    <3>1. RoundType
      BY Types
    <3>2. Keepalive \in Own
      BY SizesAssumption DEF Keepalive, Own
    <3>3. QED
      BY <3>1, <3>2, OwnBytes, OwnWords
  <2>3. Sending' = Sending \o Bytes(Keepalive)
    BY <1>12, <2>1, <2>2, WrittenBehind
  <2>4. NextOne' = NextOne /\ LastBegun' = LastBegun
    BY <1>2, <1>12, <2>1
  <2>5. QED
    BY <1>1, <1>12, <2>1, <2>2, <2>3, <2>4, SendingGrows
<1>15. CASE WriteNext
  <2>1. WritePass(Bytes(Head(tx))) /\ pending = <<>> /\ tx # <<>> /\ tx' = Tail(tx)
    BY <1>15 DEF WriteNext
  <2>2. Head(tx) = tx[1] /\ Head(tx) \in Lines /\ Len(tx') = Len(tx) - 1 /\ 1 \in 1 .. Len(tx)
    BY <1>1, <2>1, HeadTailProperties, EmptySeq DEF TypeOK
  <2>3. Head(tx) = Line(LastBegun + 1)
    BY <2>2 DEF CountInv, LastBegun
  <2>4. Head(tx) \in Words /\ Bytes(Head(tx)) \in Seq(Fragments(Words))
    BY <2>2, WordBytes DEF Words
  <2>5. Sending' = Sending \o Bytes(Head(tx))
    BY <1>12, <2>1, <2>4, WrittenBehind
  <2>6. NextOne' = NextOne
    BY <1>12, <2>1 DEF NextOne, Before
  <2>7. LastBegun' = LastBegun + 1 /\ LastBegun + 1 \in Nat
    BY <1>1, <1>12, <2>1, <2>2 DEF LastBegun
  <2>8. PICK x, h : x = Head(tx) /\ h = LastBegun + 1
    OBVIOUS
  <2>9. /\ x \in Words /\ h \in Nat /\ x = Line(h) /\ h = LastBegun + 1
        /\ Sending' = Sending \o Bytes(x) /\ LastBegun' = h
        /\ open /\ OnTheWay /\ partial' = partial /\ TypeOK /\ SendingInv
    BY <1>12, <2>1, <2>3, <2>4, <2>5, <2>7, <2>8
  <2>10. NextOne' = NextOne /\ NextOne \in Nat /\ LastBegun \in Nat /\ NextOne <= LastBegun + 1
    BY <1>1, <2>6
  <2>11. QED
    BY <2>9, <2>10, SendingGrows
<1>16. CASE Down
  <2>1. /\ pending' = <<>> /\ tx' = <<>> /\ ~OnTheWay'
        /\ UNCHANGED <<sent, accepted, got, partial, out, open>>
    BY <1>16 DEF Down, Discard, Goes, OnTheWay, PortStays, portVars, captainVars, history
  <2>2. PICK F : F = Fragments(Words)
    OBVIOUS
  <2>3. partial \in Seq(F) /\ out \in Seq(F) /\ pending \in Seq(F)
    BY <2>2 DEF TypeOK
  <2>4. PICK a : a = partial \o out
    OBVIOUS
  <2>5. a \in Seq(F)
    BY <2>3, <2>4, Cat
  <2>6. Sending' = a
    <3>1. a \o <<>> = a
      BY <2>5, ConcatEmptySeq
    <3>2. QED
      BY <2>1, <2>4, <3>1 DEF Sending
  <2>7. PICK s \in Seq(Fragments(Words)) : s = Sending
    BY StreamTypes
  <2>8. SubSeq(s, 1, Len(a)) = a /\ Len(a) \in 0 .. Len(s)
    <3>1. s = a \o pending
      BY <2>4, <2>7 DEF Sending
    <3>2. QED
      BY <2>3, <2>5, <3>1, CatParts
  <2>9. NextOne' = NextOne
    BY <2>1 DEF NextOne, Before
  <2>10. LastBegun' \in Nat /\ LastBegun <= LastBegun'
    <3>1. Len(tx') = 0
      BY <2>1
    <3>2. QED
      BY <1>1, <2>1, <3>1 DEF LastBegun
  <2>11. ASSUME open PROVE Sound(a) /\ Ordered(a, NextOne, LastBegun')
    <3>1. Sound(s) /\ Ordered(s, NextOne, LastBegun)
      BY <2>7, <2>11 DEF SendingInv
    <3>2. PICK lo \in Nat, hi \in Nat, h \in Nat :
            lo = NextOne /\ hi = LastBegun /\ h = LastBegun' /\ hi <= h
      BY <1>1, <2>10
    <3>3. PICK k \in 0 .. Len(s) : k = Len(a)
      BY <2>8
    <3>4. SubSeq(s, 1, k) = a /\ Ordered(s, lo, hi)
      BY <2>8, <3>1, <3>2, <3>3
    <3>5. Sound(a) /\ Ordered(a, lo, h)
      BY <3>1, <3>2, <3>4, CutShort
    <3>6. QED
      BY <3>2, <3>5
  <2>12. QED
    BY <2>1, <2>6, <2>9, <2>11 DEF SendingInv
<1>17. CASE Take
  <2>1. UNCHANGED <<sent, accepted, tx, open, connected, pc>> /\ open
    BY <1>17 DEF Take, Serves, sharedVars
  <2>2. /\ Head(out) \in Fragments(Words)
        /\ Head(out).last => /\ partial' = <<>> /\ Len(Sending) \in Nat /\ Len(Sending) >= 2
                             /\ Sending[2] = Head(out) /\ ~Sending[1].last
                             /\ Sending' = SubSeq(Sending, 3, Len(Sending))
        /\ ~Head(out).last => /\ Sending' = Sending /\ partial' = <<Head(out)>>
    BY <1>17, TakenIs
  <2>3. CASE ~Head(out).last
    <3>1. got' = got
      BY <1>17, <2>3 DEF Take
    <3>2. Len(partial') <= 1 /\ \A i \in 1 .. Len(partial') : ~partial'[i].last
      <4>1. PICK f : f = Head(out)
        OBVIOUS
      <4>2. Len(<<f>>) = 1 /\ <<f>>[1] = f /\ \A i \in 1 .. 1 : i = 1
        OBVIOUS
      <4>3. partial' = <<f>> /\ ~f.last
        BY <2>2, <2>3, <4>1
      <4>4. QED
        BY <4>2, <4>3
    <3>3. Sending' = Sending /\ NextOne' = NextOne /\ LastBegun' = LastBegun
      BY <1>2, <2>1, <2>2, <2>3, <3>1
    <3>4. QED
      BY <2>1, <3>2, <3>3 DEF SendingInv, OnTheWay
  <2>4. CASE Head(out).last
    <3>1. PICK s \in Seq(Fragments(Words)) : s = Sending
      BY StreamTypes
    <3>2. PICK lo \in Nat, hi \in Nat : lo = NextOne /\ hi = LastBegun
      BY <1>1
    <3>3. Sound(s) /\ Ordered(s, lo, hi) /\ Len(s) >= 2
      BY <2>1, <2>2, <2>4, <3>1, <3>2 DEF SendingInv
    <3>4. LastBegun' = hi
      BY <2>1, <3>2 DEF LastBegun
    <3>5. PICK l \in Nat : /\ l = NextOne'
                           /\ \/ s[2] = LineEnd(lo) /\ l = lo + 1
                              \/ (\A n \in Nat : s[2] # LineEnd(n)) /\ l = lo
      <4>1. CASE Head(out).of \in Lines
        <5>1. Head(out) = LineEnd(NextOne)
          BY <1>17, <2>4, <4>1, TakenLine
        <5>2. got' = Append(got, Head(out).of) /\ got \in Seq(Lines)
          BY <1>17, <2>4, <4>1, TakenWhole DEF TypeOK
        <5>3. Len(got') = Len(got) + 1 /\ Len(got) \in Nat
          BY <4>1, <5>2, AppendProperties
        <5>4. NextOne' = NextOne + 1
          <6>1. Before \in Nat /\ Before' = Before
            BY <2>1, Numbers DEF Before
          <6>2. QED
            BY <5>3, <6>1 DEF NextOne
        <5>5. QED
          BY <2>2, <2>4, <3>1, <3>2, <5>1, <5>4
      <4>2. CASE Head(out).of \notin Lines
        <5>1. \A n \in Nat : Head(out) # LineEnd(n)
          BY <1>17, <2>4, <4>2, TakenLine
        <5>2. NextOne' = NextOne
          BY <1>17, <2>1, <4>2 DEF Take, NextOne, Before
        <5>3. QED
          BY <2>2, <2>4, <3>1, <3>2, <5>1, <5>2
      <4>3. QED
        BY <4>1, <4>2
    <3>6. PICK t : t = SubSeq(s, 3, Len(s))
      OBVIOUS
    <3>7. Sound(t) /\ Ordered(t, l, hi) /\ (AllOf(s, lo, hi) => AllOf(t, l, hi))
      <4>1. /\ s \in Seq(Fragments(Words)) /\ lo \in Nat /\ hi \in Nat /\ l \in Nat
            /\ Len(s) >= 2 /\ Sound(s) /\ Ordered(s, lo, hi)
            /\ \/ s[2] = LineEnd(lo) /\ l = lo + 1
               \/ (\A n \in Nat : s[2] # LineEnd(n)) /\ l = lo
        BY <3>3, <3>5
      <4>2. QED
        BY <3>6, <4>1, FirstGone
    <3>8. Sending' = t /\ partial' = <<>> /\ Len(partial') = 0
      BY <2>2, <2>4, <3>1, <3>6
    <3>9. OnTheWay' => AllOf(s, lo, hi)
      BY <2>1, <3>1, <3>2 DEF OnTheWay, SendingInv
    <3>10. QED
      BY <3>4, <3>5, <3>7, <3>8, <3>9 DEF SendingInv
  <2>5. QED
    BY <2>3, <2>4
<1>18. QED
  BY <1>3, <1>4, <1>5, <1>6, <1>7, <1>8, <1>9, <1>10, <1>11, <1>13, <1>14, <1>15, <1>16, <1>17
     DEF Next, Thread, Write, Captain

-----------------------------------------------------------------------------
(* What is on its way from the Captain.                                    *)

LEMMA Answering ==
  /\ \A n, m : ReplyEnd(n) = ReplyEnd(m) => n = m
  /\ \A n, x : ReplyEnd(n) # Fragment(x, FALSE)
  /\ \A n, x : Fragment(x, TRUE) = ReplyEnd(n) => x = Reply(Line(n))
  /\ \A e, x : EventEnd(e) # Fragment(x, FALSE)
  /\ \A e, x : Fragment(x, TRUE) = EventEnd(e) => x = e
  /\ \A n : \A x \in Own : Reply(x) # Reply(Line(n))
  /\ \A n, m : Reply(Line(n)) = Reply(Line(m)) => n = m
  /\ \A x : Fragment(x, FALSE).of = x /\ Fragment(x, TRUE).of = x /\ EventEnd(x).of = x
<1>1. \A n : ReplyEnd(n).of = Reply(Line(n)) /\ ReplyEnd(n).last
  BY Fragmented DEF ReplyEnd
<1>2. \A e : EventEnd(e).of = e /\ EventEnd(e).last
  BY Fragmented DEF EventEnd
<1>3. \A x : Fragment(x, FALSE).of = x /\ Fragment(x, TRUE).of = x /\ ~Fragment(x, FALSE).last
  BY Fragmented
<1>4. \A n, m : Reply(Line(n)) = Reply(Line(m)) => n = m
  BY DEF Reply, Line
<1>5. \A n : \A x \in Own : Reply(x) # Reply(Line(n))
  <2>1. \A n : \A x \in Own : x # Line(n)
    BY DEF Own, Line
  <2>2. \A x, y : Reply(x) = Reply(y) => x = y
    BY DEF Reply
  <2>3. QED
    BY <2>1, <2>2
<1>6. \A n, m : ReplyEnd(n) = ReplyEnd(m) => n = m
  BY <1>1, <1>4
<1>7. \A n, x : /\ ReplyEnd(n) # Fragment(x, FALSE)
                /\ Fragment(x, TRUE) = ReplyEnd(n) => x = Reply(Line(n))
  BY <1>1, <1>3
<1>8. \A e, x : EventEnd(e) # Fragment(x, FALSE)
  BY <1>2, <1>3
<1>9. \A e, x : Fragment(x, TRUE) = EventEnd(e) => x = e
  <2>1. \A e : EventEnd(e).of = e
    BY <1>2
  <2>2. \A x : Fragment(x, TRUE).of = x
    BY <1>3
  <2>3. ASSUME NEW e, NEW x, Fragment(x, TRUE) = EventEnd(e) PROVE x = e
    <3>1. EventEnd(e).of = e /\ Fragment(x, TRUE).of = x
      BY <2>1, <2>2
    <3>2. Fragment(x, TRUE).of = EventEnd(e).of
      BY <2>3
    <3>3. QED
      BY <3>1, <3>2
  <2>4. QED
    BY <2>3
<1>10. QED
  BY <1>2, <1>3, <1>4, <1>5, <1>6, <1>7, <1>8, <1>9

\* What comes first is read, and the rest is in turn still.
LEMMA LaterPart ==
  ASSUME NEW s \in Seq(Fragments(Answers)), NEW k \in 0 .. Len(s),
         NEW lo, NEW hi, NEW E, InTurn(s, lo, hi, E)
  PROVE  LET t == SubSeq(s, k + 1, Len(s))
         IN  /\ InTurn(t, lo, hi, E)
             /\ Complete(s) => Complete(t)
             /\ NoneStale(s) => NoneStale(t)
<1>1. PICK t : t = SubSeq(s, k + 1, Len(s))
  OBVIOUS
<1>2. /\ t \in Seq(Fragments(Answers)) /\ Len(t) = Len(s) - k /\ Len(s) \in Nat
      /\ \A i \in 1 .. Len(t) : i + k \in 1 .. Len(s) /\ t[i] = s[i + k]
      /\ Streamed(t) /\ (Complete(s) => Complete(t))
  BY <1>1, StreamEnds DEF InTurn
<1>3. k \in Nat
  OBVIOUS
<1>4. \A i \in 1 .. Len(t), j \in 1 .. Len(t) : j < i => j + k \in 1 .. (i + k) - 1
  BY <1>2, <1>3
<1>5. \A i \in 1 .. Len(t) : \A j \in 1 .. i - 1 : j \in 1 .. Len(t) /\ j < i
  BY <1>2
<1>6. Replies(t, lo, hi)
  <2>1. SUFFICES ASSUME NEW i \in 1 .. Len(t), NEW n \in Nat, t[i] = ReplyEnd(n)
                 PROVE  /\ lo < n /\ n <= hi
                        /\ \A j \in 1 .. i - 1, m \in Nat : t[j] = ReplyEnd(m) => m < n
    BY DEF Replies
  <2>2. i + k \in 1 .. Len(s) /\ s[i + k] = ReplyEnd(n)
    BY <1>2, <2>1
  <2>3. /\ lo < n /\ n <= hi
        /\ \A j \in 1 .. (i + k) - 1, m \in Nat : s[j] = ReplyEnd(m) => m < n
    BY <2>2 DEF InTurn, Replies
  <2>4. \A j \in 1 .. i - 1 : j + k \in 1 .. (i + k) - 1 /\ t[j] = s[j + k]
    BY <1>2, <1>4, <1>5
  <2>5. QED
    BY <2>3, <2>4
<1>7. EventsOnce(t, E)
  <2>1. SUFFICES ASSUME NEW i \in 1 .. Len(t), NEW e \in Events
                 PROVE  /\ t[i].of = e => e \notin E
                        /\ t[i] = EventEnd(e) => \A j \in 1 .. i - 1 : t[j] # EventEnd(e)
    BY DEF EventsOnce
  <2>2. i + k \in 1 .. Len(s) /\ t[i] = s[i + k]
    BY <1>2
  <2>3. /\ s[i + k].of = e => e \notin E
        /\ s[i + k] = EventEnd(e) => \A j \in 1 .. (i + k) - 1 : s[j] # EventEnd(e)
    BY <2>2 DEF InTurn, EventsOnce
  <2>4. \A j \in 1 .. i - 1 : j + k \in 1 .. (i + k) - 1 /\ t[j] = s[j + k]
    BY <1>2, <1>4, <1>5
  <2>5. QED
    BY <2>2, <2>3, <2>4
<1>8. NoneStale(s) => NoneStale(t)
  BY <1>2 DEF NoneStale
<1>9. QED
  BY <1>1, <1>2, <1>6, <1>7, <1>8 DEF InTurn

\* What is behind it is lost with the port.
LEMMA EarlierPart ==
  ASSUME NEW s \in Seq(Fragments(Answers)), NEW k \in 0 .. Len(s),
         NEW lo, NEW hi, NEW E, InTurn(s, lo, hi, E)
  PROVE  LET t == SubSeq(s, 1, k)
         IN  InTurn(t, lo, hi, E) /\ (NoneStale(s) => NoneStale(t))
<1>1. PICK t : t = SubSeq(s, 1, k)
  OBVIOUS
<1>2. /\ Len(t) = k /\ k \in Nat /\ Len(s) \in Nat /\ k <= Len(s)
      /\ \A i \in 1 .. k : t[i] = s[i]
  BY <1>1
<1>3. \A i \in 1 .. Len(t) : /\ i \in 1 .. Len(s) /\ t[i] = s[i]
                             /\ \A j \in 1 .. i - 1 : t[j] = s[j]
  BY <1>2
<1>4. Streamed(t)
  <2>1. SUFFICES ASSUME NEW i \in 2 .. Len(t)
                 PROVE  /\ t[i].last => t[i - 1] = Fragment(t[i].of, FALSE)
                        /\ ~t[i - 1].last => t[i] = Fragment(t[i - 1].of, TRUE)
    BY DEF Streamed
  <2>2. i \in 2 .. Len(s) /\ t[i] = s[i] /\ t[i - 1] = s[i - 1]
    BY <1>2
  <2>3. QED
    BY <2>2 DEF Streamed, InTurn
<1>5. Replies(t, lo, hi)
  BY <1>3 DEF InTurn, Replies
<1>6. EventsOnce(t, E)
  BY <1>3 DEF InTurn, EventsOnce
<1>7. NoneStale(s) => NoneStale(t)
  BY <1>3 DEF NoneStale
<1>8. QED
  BY <1>1, <1>4, <1>5, <1>6, <1>7 DEF InTurn

\* A reply to the line got last, or an event that was still to come, is sent.
LEMMA OneMoreAnswer ==
  ASSUME NEW s \in Seq(Fragments(Answers)), NEW x \in Answers,
         NEW lo \in Nat, NEW hi \in Nat, NEW h \in Nat, lo <= hi, hi <= h,
         NEW E, NEW D, D \subseteq E, InTurn(s, lo, hi, E), Complete(s),
         \A n \in Nat : x = Reply(Line(n)) => hi < n /\ n <= h,
         x \in Events => x \in E \ D
  PROVE  LET t == s \o Bytes(x)
         IN  /\ InTurn(t, lo, h, D) /\ Complete(t)
             /\ x # Stale /\ NoneStale(s) => NoneStale(t)
<1>1. PICK t : t = s \o Bytes(x)
  OBVIOUS
<1>2. /\ t \in Seq(Fragments(Answers)) /\ Len(t) = Len(s) + 2 /\ Len(s) \in Nat
      /\ \A i \in 1 .. Len(s) : t[i] = s[i]
      /\ t[Len(s) + 1] = Fragment(x, FALSE) /\ t[Len(s) + 2] = Fragment(x, TRUE)
      /\ Streamed(t) /\ Complete(t)
  <2>1. Streamed(s) /\ Complete(s)
    BY DEF InTurn
  <2>2. QED
    BY <1>1, <2>1, StreamGrows, ZenonT(60)
<1>3. PICK l \in Nat : l = Len(s)
  BY <1>2
<1>4. /\ \A i \in 1 .. l : t[i] = s[i]
      /\ t[l + 1] = Fragment(x, FALSE) /\ t[l + 2] = Fragment(x, TRUE)
      /\ \A i \in 1 .. Len(t) : i \in 1 .. l \/ i = l + 1 \/ i = l + 2
      /\ \A i \in 1 .. l : \A j \in 1 .. i - 1 : j \in 1 .. l
      /\ \A j \in 1 .. (l + 2) - 1 : j \in 1 .. l \/ j = l + 1
  <2>1. \A i \in 1 .. l + 2 : i \in 1 .. l \/ i = l + 1 \/ i = l + 2
    OBVIOUS
  <2>2. \A i \in 1 .. l : \A j \in 1 .. i - 1 : j \in 1 .. l
    OBVIOUS
  <2>3. \A j \in 1 .. (l + 2) - 1 : j \in 1 .. l \/ j = l + 1
    OBVIOUS
  <2>4. Len(t) = l + 2
    BY <1>2, <1>3
  <2>5. QED
    BY <1>2, <1>3, <2>1, <2>2, <2>3, <2>4
<1>5. \A j \in 1 .. l, m \in Nat : s[j] = ReplyEnd(m) => m <= hi
  BY <1>3 DEF InTurn, Replies
<1>6. Replies(t, lo, h)
  <2>1. SUFFICES ASSUME NEW i \in 1 .. Len(t), NEW n \in Nat, t[i] = ReplyEnd(n)
                 PROVE  /\ lo < n /\ n <= h
                        /\ \A j \in 1 .. i - 1, m \in Nat : t[j] = ReplyEnd(m) => m < n
    BY DEF Replies
  <2>2. CASE i \in 1 .. l
    <3>1. /\ lo < n /\ n <= hi
          /\ \A j \in 1 .. i - 1, m \in Nat : s[j] = ReplyEnd(m) => m < n
      BY <1>3, <1>4, <2>1, <2>2 DEF InTurn, Replies
    <3>2. n <= h
      BY <3>1
    <3>3. \A j \in 1 .. i - 1 : t[j] = s[j]
      BY <1>4, <2>2
    <3>4. QED
      BY <3>1, <3>2, <3>3
  <2>3. CASE i = l + 2
    <3>1. x = Reply(Line(n))
      BY <1>4, <2>1, <2>3, Answering
    <3>2. hi < n /\ n <= h /\ lo < n
      BY <3>1
    <3>3. \A j \in 1 .. i - 1, m \in Nat : t[j] = ReplyEnd(m) => j \in 1 .. l
      <4>1. \A m : t[l + 1] # ReplyEnd(m)
        BY <1>4, Answering
      <4>2. \A j \in 1 .. i - 1 : j \in 1 .. l \/ j = l + 1
        BY <1>4, <2>3
      <4>3. QED
        BY <4>1, <4>2
    <3>4. \A j \in 1 .. i - 1, m \in Nat : t[j] = ReplyEnd(m) => m <= hi
      BY <1>4, <1>5, <3>3
    <3>5. QED
      BY <3>2, <3>4
  <2>4. i # l + 1
    BY <1>4, <2>1, Answering
  <2>5. QED
    BY <1>4, <2>2, <2>3, <2>4
<1>7. EventsOnce(t, D)
  <2>1. SUFFICES ASSUME NEW i \in 1 .. Len(t), NEW e \in Events
                 PROVE  /\ t[i].of = e => e \notin D
                        /\ t[i] = EventEnd(e) => \A j \in 1 .. i - 1 : t[j] # EventEnd(e)
    BY DEF EventsOnce
  <2>2. \A j \in 1 .. l : s[j].of = e => e \notin E
    BY <1>3 DEF InTurn, EventsOnce
  <2>3. CASE i \in 1 .. l
    <3>1. s[i] = EventEnd(e) => \A j \in 1 .. i - 1 : s[j] # EventEnd(e)
      BY <1>3, <2>3 DEF InTurn, EventsOnce
    <3>2. t[i] = s[i] /\ \A j \in 1 .. i - 1 : t[j] = s[j]
      BY <1>4, <2>3
    <3>3. QED
      BY <2>2, <2>3, <3>1, <3>2
  <2>4. CASE i = l + 1
    <3>1. t[i] = Fragment(x, FALSE)
      BY <1>4, <2>4
    <3>2. t[i] # EventEnd(e) /\ t[i].of = x
      BY <3>1, Answering
    <3>3. QED
      BY <3>2
  <2>5. CASE i = l + 2
    <3>1. t[i] = Fragment(x, TRUE)
      BY <1>4, <2>5
    <3>2. t[i].of = x
      BY <3>1, Answering
    <3>3. ASSUME t[i] = EventEnd(e), NEW j \in 1 .. i - 1, t[j] = EventEnd(e)
          PROVE  FALSE
      <4>1. e = x /\ e \in E
        BY <3>1, <3>3, Answering
      <4>2. j \in 1 .. l
        BY <1>4, <2>5, <3>3, Answering
      <4>3. s[j] = EventEnd(e)
        BY <1>4, <3>3, <4>2
      <4>4. s[j].of = e
        BY <4>3, Answering
      <4>5. QED
        BY <2>2, <4>1, <4>2, <4>4
    <3>4. QED
      BY <3>2, <3>3
  <2>6. QED
    BY <1>4, <2>3, <2>4, <2>5
<1>8. ASSUME x # Stale, NoneStale(s) PROVE NoneStale(t)
  <2>1. \A i \in 1 .. l : t[i].of # Stale
    BY <1>3, <1>4, <1>8 DEF NoneStale
  <2>2. t[l + 1].of = x /\ t[l + 2].of = x
    BY <1>4, Fragmented
  <2>3. QED
    BY <1>4, <1>8, <2>1, <2>2 DEF NoneStale
<1>9. QED
  BY <1>1, <1>2, <1>6, <1>7, <1>8 DEF InTurn

\* What was read leaves the stream, from the front.
LEMMA ReadOff ==
  ASSUME TypeOK, NEW p \in 0 .. Len(rx \o in), rx' = SubSeq(rx \o in, p + 1, Len(rx \o in)),
         in' = <<>>, emit' = emit
  PROVE  /\ p \in 0 .. Len(Coming) /\ Coming' = SubSeq(Coming, p + 1, Len(Coming))
         /\ rx \o in \in Seq(Fragments(Answers)) /\ Len(rx \o in) \in 0 .. Len(Coming)
         /\ \A i \in 1 .. Len(rx \o in) : Coming[i] = (rx \o in)[i]
<1>1. PICK G : G = Fragments(Answers)
  OBVIOUS
<1>2. rx \in Seq(G) /\ in \in Seq(G) /\ emit \in Seq(G)
  BY <1>1 DEF TypeOK
<1>3. PICK b : b = rx \o in
  OBVIOUS
<1>4. b \in Seq(G)
  BY <1>2, <1>3, Cat
<1>5. Coming = b \o emit
  BY <1>3 DEF Coming
<1>6. PICK l, r : l = SubSeq(b, 1, p) /\ r = SubSeq(b, p + 1, Len(b))
  OBVIOUS
<1>7. l \in Seq(G) /\ r \in Seq(G) /\ l \o r = b /\ Len(l) = p /\ p \in 0 .. Len(b)
  <2>1. p \in 0 .. Len(b)
    BY <1>3
  <2>2. QED
    BY <1>4, <1>6, <2>1, Divided
<1>8. PICK c : c = r \o emit
  OBVIOUS
<1>9. c \in Seq(G)
  BY <1>2, <1>7, <1>8, Cat
<1>10. Coming = l \o c
  <2>1. l \in Seq(G) /\ r \in Seq(G) /\ emit \in Seq(G)
    BY <1>2, <1>7
  <2>2. (l \o r) \o emit = l \o (r \o emit)
    BY ONLY <2>1, ConcatAssociative
  <2>3. QED
    BY <1>5, <1>7, <1>8, <2>2
<1>11. SubSeq(Coming, p + 1, Len(Coming)) = c /\ p \in 0 .. Len(Coming)
  BY <1>7, <1>9, <1>10, CatParts
<1>12. Coming' = c
  <2>1. r \o <<>> = r
    BY <1>7, ConcatEmptySeq
  <2>2. rx' = r
    BY <1>3, <1>6
  <2>3. QED
    BY <1>8, <2>1, <2>2 DEF Coming
<1>13. Len(b) \in 0 .. Len(Coming) /\ \A i \in 1 .. Len(b) : Coming[i] = b[i]
  BY <1>2, <1>4, <1>5, Cat, CatParts
<1>14. QED
  BY <1>1, <1>3, <1>4, <1>11, <1>12, <1>13

LEMMA ComingSame ==
  ASSUME ComingInv, UNCHANGED <<Coming, Before, LastGot, events, emit>>,
         open' => open, connected' => connected
  PROVE  ComingInv'
BY DEF ComingInv

LEMMA ComingEmpty ==
  ASSUME Coming' = <<>>, emit' = <<>>
  PROVE  ComingInv'
<1>1. \A lo, hi, E : InTurn(<<>>, lo, hi, E)
  BY DEF InTurn, Streamed, Replies, EventsOnce
<1>2. Complete(<<>>) /\ NoneStale(<<>>)
  BY DEF Complete, NoneStale
<1>3. QED
  BY <1>1, <1>2 DEF ComingInv

\* The port is closed with a part of a line read.
LEMMA ComingClosed ==
  ASSUME TypeOK, ComingInv, rx' \in {rx, <<>>}, in' = <<>>, emit' = <<>>, ~open',
         UNCHANGED <<Before, LastGot, events>>, connected' => connected
  PROVE  ComingInv' /\ \E k \in 0 .. Len(Coming) : Coming' = SubSeq(Coming, 1, k)
<1>1. PICK G : G = Fragments(Answers)
  OBVIOUS
<1>2. rx \in Seq(G) /\ in \in Seq(G) /\ emit \in Seq(G)
  BY <1>1 DEF TypeOK
<1>3. PICK c : c = in \o emit
  OBVIOUS
<1>4. c \in Seq(G)
  BY <1>2, <1>3, Cat
<1>5. Coming = rx \o c
  <2>1. (rx \o in) \o emit = rx \o (in \o emit)
    BY <1>2, ConcatAssociative
  <2>2. QED
    BY <1>3, <2>1 DEF Coming
<1>6. Coming' = rx'
  <2>1. rx' \in Seq(G)
    BY <1>2, Emptied
  <2>2. rx' \o <<>> = rx'
    BY <2>1, ConcatEmptySeq
  <2>3. QED
    BY <2>2 DEF Coming
<1>7. PICK k \in 0 .. Len(Coming) : Coming' = SubSeq(Coming, 1, k)
  <2>1. CASE rx' = rx
    <3>1. SubSeq(rx \o c, 1, Len(rx)) = rx /\ Len(rx) \in 0 .. Len(rx \o c)
      BY <1>2, <1>4, CatParts
    <3>2. QED
      BY <1>5, <1>6, <2>1, <3>1
  <2>2. CASE rx' = <<>>
    <3>1. 0 \in 0 .. Len(Coming) /\ SubSeq(Coming, 1, 0) = <<>>
      <4>1. Coming \in Seq(Fragments(Answers))
        BY StreamTypes
      <4>2. Len(Coming) \in Nat /\ SubSeq(Coming, 1, 0) = <<>>
        BY <4>1, SubSeqEmpty
      <4>3. QED
        BY <4>2
    <3>2. QED
      BY <1>6, <2>2, <3>1
  <2>3. QED
    BY <2>1, <2>2
<1>8. PICK s \in Seq(Fragments(Answers)) : s = Coming
  BY StreamTypes
<1>9. InTurn(Coming', Before, LastGot, events) /\ (NoneStale(Coming) => NoneStale(Coming'))
  <2>1. InTurn(s, Before, LastGot, events) /\ k \in 0 .. Len(s)
    BY <1>7, <1>8 DEF ComingInv
  <2>2. InTurn(SubSeq(s, 1, k), Before, LastGot, events)
        /\ (NoneStale(s) => NoneStale(SubSeq(s, 1, k)))
    BY <2>1, EarlierPart
  <2>3. QED
    BY <1>7, <1>8, <2>2
<1>10. NoneStale(<<>>)
  BY DEF NoneStale
<1>11. QED
  BY <1>7, <1>9, <1>10 DEF ComingInv

LEMMA ComingLater ==
  ASSUME TypeOK, ComingInv, NEW p \in 0 .. Len(Coming),
         Coming' = SubSeq(Coming, p + 1, Len(Coming)),
         UNCHANGED <<Before, LastGot, events, emit, open>>,
         connected' => connected \/ NoneStale(Coming')
  PROVE  ComingInv'
<1>1. PICK s \in Seq(Fragments(Answers)) : s = Coming
  BY StreamTypes
<1>2. InTurn(s, Before, LastGot, events) /\ p \in 0 .. Len(s)
  BY <1>1 DEF ComingInv
<1>3. PICK t : t = SubSeq(s, p + 1, Len(s))
  OBVIOUS
<1>4. /\ InTurn(t, Before, LastGot, events)
      /\ Complete(s) => Complete(t)
      /\ NoneStale(s) => NoneStale(t)
  BY <1>2, <1>3, LaterPart
<1>5. Coming' = t
  BY <1>1, <1>3
<1>6. QED
  BY <1>1, <1>4, <1>5 DEF ComingInv

LEMMA ComingGrows ==
  ASSUME TypeOK, CountInv, ComingInv, NEW x \in Answers, x # Stale, open, emit = <<>>,
         rx' = rx, in' = in, emit' = Bytes(x), Before' = Before, LastGot' \in Nat,
         LastGot <= LastGot', connected' = connected, events' \subseteq events,
         \A n \in Nat : x = Reply(Line(n)) => LastGot < n /\ n <= LastGot',
         x \in Events => x \in events \ events'
  PROVE  ComingInv' /\ Coming' = Coming \o Bytes(x)
<1>1. PICK s \in Seq(Fragments(Answers)) : s = Coming
  BY StreamTypes
<1>2. Coming' = s \o Bytes(x)
  <2>1. rx \o in \in Seq(Fragments(Answers))
    BY Cat DEF TypeOK
  <2>2. (rx \o in) \o <<>> = rx \o in
    BY <2>1, ConcatEmptySeq
  <2>3. QED
    BY <1>1, <2>2 DEF Coming
<1>3. InTurn(s, Before, LastGot, events) /\ Complete(s) /\ (connected => NoneStale(s))
  BY <1>1 DEF ComingInv
<1>4. PICK lo \in Nat, hi \in Nat, h \in Nat :
        lo = Before /\ hi = LastGot /\ h = LastGot' /\ lo <= hi /\ hi <= h
  <2>1. Before \in Nat /\ LastGot \in Nat /\ Len(got) \in Nat
    BY Numbers
  <2>2. Before <= LastGot
    BY <2>1 DEF LastGot
  <2>3. QED
    BY <2>1, <2>2
<1>5. PICK E, D : E = events /\ D = events'
  OBVIOUS
<1>6. PICK t : t = s \o Bytes(x)
  OBVIOUS
<1>7. InTurn(t, lo, h, D) /\ Complete(t) /\ (x # Stale /\ NoneStale(s) => NoneStale(t))
  <2>1. /\ InTurn(s, lo, hi, E) /\ Complete(s) /\ D \subseteq E
        /\ \A n \in Nat : x = Reply(Line(n)) => hi < n /\ n <= h
        /\ x \in Events => x \in E \ D
    BY <1>3, <1>4, <1>5
  <2>2. QED
    BY <1>4, <1>6, <2>1, OneMoreAnswer
<1>8. NoneStale(Bytes(x))
  <2>1. Len(Bytes(x)) = 2 /\ Bytes(x)[1] = Fragment(x, FALSE) /\ Bytes(x)[2] = Fragment(x, TRUE)
    BY DEF Bytes
  <2>2. \A i \in 1 .. 2 : i = 1 \/ i = 2
    OBVIOUS
  <2>3. QED
    BY <2>1, <2>2, Answering DEF NoneStale
<1>9. Coming' = t /\ InTurn(t, Before', LastGot', events')
  BY <1>2, <1>4, <1>5, <1>6, <1>7
<1>10. QED
  BY <1>1, <1>2, <1>3, <1>7, <1>8, <1>9 DEF ComingInv

-----------------------------------------------------------------------------
(* What was handed on.                                                     *)

LEMMA HeardSame ==
  ASSUME HeardInv, UNCHANGED <<Coming, Before, LastGot, events, heard>>, open' => open
  PROVE  HeardInv'
BY DEF HeardInv, FirstWhole

LEMMA HeardNone ==
  ASSUME heard' = {}
  PROVE  HeardInv'
BY DEF HeardInv, FirstWhole

LEMMA HeardClosed ==
  ASSUME TypeOK, HeardInv, NEW k \in 0 .. Len(Coming), Coming' = SubSeq(Coming, 1, k), ~open',
         UNCHANGED <<Before, LastGot, events, heard>>
  PROVE  HeardInv'
<1>1. PICK s \in Seq(Fragments(Answers)) : s = Coming
  BY StreamTypes
<1>2. PICK t : t = SubSeq(s, 1, k)
  OBVIOUS
<1>3. Len(t) = k /\ \A i \in 1 .. Len(t) : i \in 1 .. Len(s) /\ t[i] = s[i]
  <2>1. k \in 0 .. Len(s) /\ Len(s) \in Nat
    BY <1>1
  <2>2. QED
    BY <1>2, <2>1
<1>4. \A l \in heard : CameBefore(l, t)
  BY <1>1, <1>3 DEF HeardInv, CameBefore
<1>5. Coming' = t
  BY <1>1, <1>2
<1>6. QED
  BY <1>4, <1>5 DEF HeardInv

\* A line begun behind what is coming is none of those handed on.
LEMMA HeardGrows ==
  ASSUME TypeOK, CountInv, ComingInv, HeardInv, NEW x \in Answers, open,
         Coming' = Coming \o Bytes(x), Before' = Before, LastGot' \in Nat,
         LastGot <= LastGot', events' \subseteq events, heard' = heard,
         \A n \in Nat : x = Reply(Line(n)) => LastGot < n /\ n <= LastGot',
         x \in Events => x \in events \ events'
  PROVE  HeardInv'
<1>1. PICK s \in Seq(Fragments(Answers)) : s = Coming
  BY StreamTypes
<1>2. PICK t : t = s \o Bytes(x)
  OBVIOUS
<1>3. Streamed(s) /\ Complete(s)
  BY <1>1 DEF ComingInv, InTurn
<1>4. PICK k \in Nat : k = Len(s)
  BY <1>1
<1>5. /\ Len(t) = k + 2
      /\ \A i \in 1 .. k : t[i] = s[i]
      /\ t[k + 1] = Fragment(x, FALSE) /\ t[k + 2] = Fragment(x, TRUE)
  <2>1. /\ Len(t) = Len(s) + 2
        /\ \A i \in 1 .. Len(s) : t[i] = s[i]
        /\ t[Len(s) + 1] = Fragment(x, FALSE) /\ t[Len(s) + 2] = Fragment(x, TRUE)
    BY <1>2, <1>3, StreamGrows, ZenonT(60)
  <2>2. QED
    BY <1>4, <2>1
<1>6. \A i \in 1 .. Len(t) : i \in 1 .. k \/ i = k + 1 \/ i = k + 2
  <2>1. \A i \in 1 .. k + 2 : i \in 1 .. k \/ i = k + 1 \/ i = k + 2
    OBVIOUS
  <2>2. QED
    BY <1>5, <2>1
<1>7. ASSUME t # <<>>, t[1].last PROVE heard = {}
  <2>1. CASE s = <<>>
    <3>1. k + 1 = 1
      BY <1>4, <2>1
    <3>2. t[1] = Fragment(x, FALSE)
      BY <1>5, <3>1
    <3>3. QED
      BY <1>7, <3>2, Fragmented
  <2>2. CASE s # <<>>
    <3>1. 1 \in 1 .. k
      BY <1>4, <2>2, EmptySeq
    <3>2. s[1].last
      BY <1>5, <1>7, <3>1
    <3>3. QED
      BY <1>1, <2>2, <3>2 DEF HeardInv, FirstWhole
  <2>3. QED
    BY <2>1, <2>2
<1>8. LastGot \in Nat /\ Before \in Nat
  BY Numbers
<1>9. ASSUME NEW l \in heard
      PROVE  LineOnce(l) /\ l.of \notin events' /\ Answered(l, Before, LastGot') /\ CameBefore(l, t)
  <2>1. /\ LineOnce(l) /\ l.of \notin events
        /\ Answered(l, Before, LastGot) /\ CameBefore(l, s)
    BY <1>1 DEF HeardInv
  <2>2. Answered(l, Before, LastGot')
    <3>1. \A n \in Nat : n <= LastGot => n <= LastGot'
      BY <1>8
    <3>2. QED
      BY <2>1, <3>1 DEF Answered
  <2>3. ASSUME NEW i \in 1 .. Len(t), l.of \in Events PROVE t[i] # EventEnd(l.of)
    <3>1. i \in 1 .. k => t[i] # EventEnd(l.of)
      BY <1>4, <1>5, <2>1, <2>3 DEF CameBefore
    <3>2. x # l.of
      BY <2>1, <2>3
    <3>3. t[k + 1] # EventEnd(l.of) /\ t[k + 2] # EventEnd(l.of)
      BY <1>5, <3>2, Answering
    <3>4. QED
      BY <1>6, <3>1, <3>3
  <2>4. ASSUME NEW i \in 1 .. Len(t), NEW n \in Nat, NEW m \in Nat,
               l.of = Reply(Line(n)), t[i] = ReplyEnd(m)
        PROVE  n < m
    <3>1. i \in 1 .. k => n < m
      BY <1>4, <1>5, <2>1, <2>4 DEF CameBefore
    <3>2. i # k + 1
      <4>1. ReplyEnd(m) # Fragment(x, FALSE)
        BY Answering
      <4>2. QED
        BY <1>5, <2>4, <4>1
    <3>3. ASSUME i = k + 2 PROVE n < m
      <4>1. x = Reply(Line(m))
        <5>1. Fragment(x, TRUE) = ReplyEnd(m)
          BY <1>5, <2>4, <3>3
        <5>2. QED
          BY <5>1, Answering
      <4>2. LastGot < m /\ n <= LastGot
        BY <2>1, <2>4, <4>1 DEF Answered
      <4>3. QED
        BY <1>8, <4>2
    <3>4. QED
      BY <1>6, <3>1, <3>2, <3>3
  <2>5. CameBefore(l, t)
    BY <2>3, <2>4 DEF CameBefore
  <2>6. QED
    BY <2>1, <2>2, <2>5
<1>10. Coming' = t
  BY <1>1, <1>2
<1>11. QED
  BY <1>7, <1>9, <1>10 DEF HeardInv, FirstWhole

\* What is read is handed on, a line after the other, each the first time.
LEMMA HeardRead ==
  ASSUME TypeOK, ControlInv, CountInv, ComingInv, HeardInv, Feed, connected, open,
         UNCHANGED <<emit, events, sent, accepted, got, open>>
  PROVE  HeardInv' /\ \E p \in 0 .. Len(Coming) : Coming' = SubSeq(Coming, p + 1, Len(Coming))
<1>1. /\ rx' = Rest(rx \o in) /\ in' = <<>>
      /\ heard' = heard \cup {Handed(rx \o in, i) : i \in HandedOn(rx \o in)}
  BY Types, FeedIs
<1>2. PICK p \in Nat : SplitAt(p)
  BY <1>1, Types, SplitIs
<1>3. PICK b : b = rx \o in
  OBVIOUS
<1>4. PICK s \in Seq(Fragments(Answers)) : s = Coming
  BY StreamTypes
<1>5. /\ p \in 0 .. Len(s) /\ Coming' = SubSeq(s, p + 1, Len(s))
      /\ b \in Seq(Fragments(Answers)) /\ Len(b) \in 0 .. Len(s)
      /\ \A i \in 1 .. Len(b) : s[i] = b[i]
  <2>1. p \in 0 .. Len(rx \o in) /\ rx' = SubSeq(rx \o in, p + 1, Len(rx \o in))
    BY <1>2 DEF SplitAt
  <2>2. QED
    BY <1>1, <1>3, <1>4, <2>1, ReadOff
<1>6. /\ (p # 0 => p \in Ends(b)) /\ \A i \in Ends(b) : i <= p
      /\ Ends(b) \subseteq 1 .. Len(b) /\ \A i \in Ends(b) : b[i].last
  BY <1>2, <1>3 DEF SplitAt, Ends
<1>7. /\ Streamed(s) /\ Complete(s) /\ Replies(s, Before, LastGot) /\ EventsOnce(s, events)
      /\ NoneStale(s) /\ (s # <<>> /\ s[1].last => heard = {})
  BY <1>4 DEF ComingInv, InTurn, HeardInv, FirstWhole
<1>8. PICK t : t = SubSeq(s, p + 1, Len(s))
  OBVIOUS
<1>9. /\ Len(t) = Len(s) - p /\ Len(s) \in Nat
      /\ \A i \in 1 .. Len(t) : i + p \in 1 .. Len(s) /\ t[i] = s[i + p]
  BY <1>5, <1>7, <1>8, StreamEnds
<1>10. Len(b) \in Nat /\ Len(b) <= Len(s)
  BY <1>5, <1>9
<1>11. \A i \in Ends(b) : /\ i \in 1 .. Len(s) /\ s[i] = b[i] /\ b[i].last /\ i \in Nat
                          /\ \A j \in 1 .. Len(t) : i \in 1 .. (j + p) - 1
  <2>1. TAKE i \in Ends(b)
  <2>2. i \in 1 .. Len(b) /\ i <= p /\ b[i].last
    BY <1>6
  <2>3. i \in 1 .. Len(s) /\ s[i] = b[i] /\ i \in Nat
    BY <1>5, <1>10, <2>2
  <2>4. \A j \in 1 .. Len(t) : i \in 1 .. (j + p) - 1
    BY <1>9, <2>2, <2>3
  <2>5. QED
    BY <2>2, <2>3, <2>4
\* Only the first line that comes can be cut, and it is the first of the session.
<1>12. ASSUME NEW i \in Ends(b) PROVE IF i = 1 THEN heard = {} ELSE Whole(b, i)
  <2>1. CASE i = 1
    <3>1. s # <<>> /\ s[1].last
      <4>1. 1 \in 1 .. Len(s) /\ s[1].last
        BY <1>11, <2>1
      <4>2. Len(s) # 0
        BY <1>9, <4>1
      <4>3. QED
        BY <4>1, <4>2, EmptySeq
    <3>2. QED
      BY <1>7, <2>1, <3>1
  <2>2. CASE i # 1
    <3>1. i \in 2 .. Len(s) /\ i > 1 /\ i - 1 \in 1 .. Len(b) /\ i \in 1 .. Len(b)
      BY <1>6, <1>9, <1>10, <1>11, <2>2
    <3>2. s[i] = b[i] /\ s[i - 1] = b[i - 1] /\ s[i].last
      BY <1>5, <1>11, <3>1
    <3>3. s[i - 1] = Fragment(s[i].of, FALSE)
      BY <1>7, <3>1, <3>2 DEF Streamed
    <3>4. b[i - 1] = Fragment(b[i].of, FALSE)
      BY <3>2, <3>3
    <3>5. QED
      BY <2>2, <3>1, <3>4 DEF Whole
  <2>3. QED
    BY <2>1, <2>2
<1>13. \A i \in Ends(b) : s[i] = Fragment(b[i].of, TRUE)
  <2>1. \A f \in Fragments(Answers) : f.last => f = Fragment(f.of, TRUE)
    BY DEF Fragments, Fragment
  <2>2. \A i \in 1 .. Len(b) : b[i] \in Fragments(Answers)
    BY <1>5
  <2>3. QED
    BY <1>6, <1>11, <2>1, <2>2
<1>14. \A i \in Ends(b) : b[i].of \in Answers
  <2>1. \A f \in Fragments(Answers) : f.of \in Answers
    BY DEF Fragments
  <2>2. \A i \in 1 .. Len(b) : b[i] \in Fragments(Answers)
    BY <1>5
  <2>3. QED
    BY <1>6, <2>1, <2>2
<1>15. \A x \in Answers : \/ x \in Events \/ x = Stale \/ x \in OwnReplies
                          \/ \E n \in Nat : x = Reply(Line(n))
  <2>1. \A x \in Lines : \E n \in Nat : x = Line(n)
    BY SizesAssumption DEF Lines, Line
  <2>2. QED
    BY <2>1 DEF Answers, OwnReplies, Words
<1>16. HandedOn(b) \subseteq Ends(b)
       /\ \A i \in HandedOn(b) : b[i].of \in OwnReplies => ~Whole(b, i)
  BY DEF HandedOn
\* A line that was handed on before, and one read with it.
<1>17. ASSUME NEW l \in heard, NEW i \in Ends(b)
       PROVE  /\ l.of # b[i].of \/ l.of \in OwnReplies
              /\ \A n, m \in Nat : l.of = Reply(Line(m)) /\ b[i].of = Reply(Line(n)) => m < n
              /\ Whole(b, i)
  <2>1. CameBefore(l, s) /\ LineOnce(l) /\ i \in 1 .. Len(s) /\ s[i] = Fragment(b[i].of, TRUE)
    BY <1>4, <1>11, <1>13 DEF HeardInv
  <2>2. /\ l.of \in Events => s[i] # EventEnd(l.of)
        /\ \A n, m \in Nat : l.of = Reply(Line(n)) /\ s[i] = ReplyEnd(m) => n < m
    BY <2>1 DEF CameBefore
  <2>3. /\ l.of \in Events => l.of # b[i].of
        /\ \A n, m \in Nat : l.of = Reply(Line(m)) /\ b[i].of = Reply(Line(n)) => m < n
    BY <2>1, <2>2 DEF EventEnd, ReplyEnd
  <2>4. Whole(b, i)
    BY <1>12
  <2>5. ASSUME l.of = b[i].of, l.of \notin OwnReplies PROVE FALSE
    <3>1. l.of \in Answers /\ l.of # Stale
      BY <1>14, <2>1, <2>5 DEF LineOnce
    <3>2. l.of \notin Events
      BY <2>3, <2>5
    <3>3. PICK n \in Nat : l.of = Reply(Line(n))
      BY <1>15, <2>5, <3>1, <3>2
    <3>4. n < n
      BY <2>3, <2>5, <3>3
    <3>5. QED
      BY <3>4
  <2>6. QED
    BY <2>3, <2>4, <2>5
\* Two lines read together.
<1>18. ASSUME NEW i \in HandedOn(b), NEW j \in HandedOn(b), j < i
       PROVE  /\ b[j].of # b[i].of
              /\ \A n, m \in Nat : b[j].of = Reply(Line(m)) /\ b[i].of = Reply(Line(n)) => m < n
  <2>1. /\ i \in Ends(b) /\ j \in Ends(b) /\ i \in 1 .. Len(s) /\ j \in 1 .. i - 1 /\ i # 1
        /\ s[i] = Fragment(b[i].of, TRUE) /\ s[j] = Fragment(b[j].of, TRUE)
    <3>1. i \in Ends(b) /\ j \in Ends(b)
      BY <1>16
    <3>2. i \in 1 .. Len(s) /\ j \in 1 .. Len(s)
      BY <1>11, <3>1
    <3>3. j \in 1 .. i - 1 /\ i # 1
      <4>1. Len(s) \in Nat
        OBVIOUS
      <4>2. i \in Nat /\ j \in Nat /\ 1 <= j
        BY <3>2, <4>1
      <4>3. QED
        BY <1>18, <4>2
    <3>4. s[i] = Fragment(b[i].of, TRUE) /\ s[j] = Fragment(b[j].of, TRUE)
      BY <1>13, <3>1
    <3>5. QED
      BY <3>1, <3>2, <3>3, <3>4
  <2>2. \A n, m \in Nat : s[i] = ReplyEnd(n) /\ s[j] = ReplyEnd(m) => m < n
    BY <1>7, <2>1 DEF Replies
  <2>3. \A e \in Events : s[i] = EventEnd(e) => s[j] # EventEnd(e)
    BY <1>7, <2>1 DEF EventsOnce
  <2>4. \A n, m \in Nat : b[j].of = Reply(Line(m)) /\ b[i].of = Reply(Line(n)) => m < n
    BY <2>1, <2>2 DEF ReplyEnd
  <2>5. ASSUME b[j].of = b[i].of PROVE FALSE
    <3>1. b[i].of \notin Events
      BY <2>1, <2>3, <2>5 DEF EventEnd
    <3>2. b[i].of # Stale
      <4>1. s[i].of = b[i].of
        BY <2>1, Answering
      <4>2. QED
        BY <1>7, <2>1, <4>1 DEF NoneStale
    <3>3. b[i].of \notin OwnReplies
      BY <1>12, <1>16, <2>1
    <3>4. PICK n \in Nat : b[i].of = Reply(Line(n))
      BY <1>14, <1>15, <2>1, <3>1, <3>2, <3>3
    <3>5. n < n
      BY <2>4, <2>5, <3>4
    <3>6. QED
      BY <3>5
  <2>6. QED
    BY <2>4, <2>5
<1>19. ASSUME NEW l \in heard PROVE CameBefore(l, t)
  <2>1. CameBefore(l, s)
    BY <1>4 DEF HeardInv
  <2>2. QED
    BY <1>9, <2>1 DEF CameBefore
<1>20. ASSUME NEW i \in HandedOn(b)
       PROVE  LET l == Handed(b, i)
              IN  /\ LineOnce(l) /\ l.of \notin events
                  /\ Answered(l, Before, LastGot) /\ CameBefore(l, t)
  <2>1. /\ i \in Ends(b) /\ i \in 1 .. Len(s) /\ i \in Nat
        /\ s[i] = Fragment(b[i].of, TRUE) /\ s[i].of = b[i].of
    <3>1. i \in Ends(b)
      BY <1>16
    <3>2. QED
      BY <1>11, <1>13, <3>1, Fragmented
  <2>2. PICK l : l = Handed(b, i)
    OBVIOUS
  <2>3. /\ l.of = b[i].of /\ l.whole = Whole(b, i)
        /\ l.after = {k.of : k \in heard} \cup {b[j].of : j \in HandedOn(b) \cap 1 .. i - 1}
    BY <2>2 DEF Handed
  <2>4. \A x \in l.after : \/ \E k \in heard : x = k.of
                           \/ \E j \in HandedOn(b) : j < i /\ x = b[j].of
    <3>1. \A j \in 1 .. i - 1 : j < i
      BY <2>1
    <3>2. QED
      BY <2>3, <3>1
  <2>5. ASSUME l.after # {} PROVE Whole(b, i)
    <3>1. PICK x : x \in l.after
      BY <2>5
    <3>2. CASE \E k \in heard : x = k.of
      BY <1>17, <2>1, <3>2
    <3>3. CASE \E j \in HandedOn(b) : j < i /\ x = b[j].of
      <4>1. i # 1
        BY <1>11, <1>16, <2>1, <3>3
      <4>2. QED
        BY <1>12, <2>1, <4>1
    <3>4. QED
      BY <2>4, <3>1, <3>2, <3>3
  <2>6. b[i].of \in OwnReplies => ~Whole(b, i)
    BY <1>16
  <2>7. b[i].of \notin l.after
    <3>1. SUFFICES ASSUME b[i].of \in l.after PROVE FALSE
      OBVIOUS
    <3>2. CASE \E k \in heard : b[i].of = k.of
      BY <1>17, <2>1, <2>6, <3>2
    <3>3. CASE \E j \in HandedOn(b) : j < i /\ b[i].of = b[j].of
      BY <1>18, <3>3
    <3>4. QED
      BY <2>4, <3>1, <3>2, <3>3
  <2>8. b[i].of # Stale
    BY <1>7, <2>1 DEF NoneStale
  <2>9. LineOnce(l)
    BY <2>3, <2>5, <2>6, <2>7, <2>8 DEF LineOnce
  <2>10. l.of \notin events
    <3>1. events \subseteq Events
      BY DEF TypeOK
    <3>2. \A e \in Events : s[i].of = e => e \notin events
      BY <1>7, <2>1 DEF EventsOnce
    <3>3. QED
      BY <2>1, <2>3, <3>1, <3>2
  <2>11. Answered(l, Before, LastGot)
    <3>1. SUFFICES ASSUME NEW n \in Nat, b[i].of = Reply(Line(n))
                   PROVE  /\ Before < n /\ n <= LastGot
                          /\ \A m \in Nat : Reply(Line(m)) \in l.after => m < n
      BY <2>3 DEF Answered
    <3>2. s[i] = ReplyEnd(n)
      BY <2>1, <3>1 DEF ReplyEnd
    <3>3. Before < n /\ n <= LastGot
      BY <1>7, <2>1, <3>2 DEF Replies
    <3>4. ASSUME NEW m \in Nat, Reply(Line(m)) \in l.after PROVE m < n
      <4>1. CASE \E k \in heard : Reply(Line(m)) = k.of
        BY <1>17, <2>1, <3>1, <4>1
      <4>2. CASE \E j \in HandedOn(b) : j < i /\ Reply(Line(m)) = b[j].of
        BY <1>18, <3>1, <4>2
      <4>3. QED
        BY <2>4, <3>4, <4>1, <4>2
    <3>5. QED
      BY <3>3, <3>4
  <2>12. CameBefore(l, t)
    <3>1. SUFFICES ASSUME NEW k \in 1 .. Len(t)
                   PROVE  /\ b[i].of \in Events => t[k] # EventEnd(b[i].of)
                          /\ \A n, m \in Nat :
                               b[i].of = Reply(Line(n)) /\ t[k] = ReplyEnd(m) => n < m
      BY <2>3 DEF CameBefore
    <3>2. k + p \in 1 .. Len(s) /\ t[k] = s[k + p] /\ i \in 1 .. (k + p) - 1
      BY <1>9, <1>11, <2>1
    <3>3. \A e \in Events : s[k + p] = EventEnd(e) => s[i] # EventEnd(e)
      BY <1>7, <3>2 DEF EventsOnce
    <3>4. \A n, m \in Nat : s[i] = ReplyEnd(n) /\ s[k + p] = ReplyEnd(m) => n < m
      BY <1>7, <3>2 DEF Replies
    <3>5. QED
      BY <2>1, <3>2, <3>3, <3>4 DEF EventEnd, ReplyEnd
  <2>13. QED
    BY <2>2, <2>9, <2>10, <2>11, <2>12
<1>21. ASSUME t # <<>>, t[1].last PROVE heard' = {}
  <2>1. CASE p = 0
    <3>1. Ends(b) = {}
      BY <1>6, <2>1
    <3>2. HandedOn(b) = {}
      BY <1>16, <3>1
    <3>3. heard' = heard
      BY <1>1, <1>3, <3>2
    <3>4. Len(t) # 0 /\ 1 \in 1 .. Len(t) /\ 1 + p = 1
      <4>1. Len(t) \in Nat /\ t \in Seq(Fragments(Answers))
        BY <1>5, <1>7, <1>8, <1>9, StreamEnds
      <4>2. Len(t) # 0
        BY <1>21, <4>1, EmptySeq
      <4>3. QED
        BY <2>1, <4>1, <4>2
    <3>5. t[1] = s[1] /\ 1 \in 1 .. Len(s)
      BY <1>9, <3>4
    <3>6. s # <<>> /\ s[1].last
      <4>1. Len(s) # 0
        BY <1>9, <3>5
      <4>2. QED
        BY <1>21, <3>5, <4>1, EmptySeq
    <3>7. QED
      BY <1>7, <3>3, <3>6
  <2>2. CASE p # 0
    <3>1. p \in Ends(b) /\ s[p].last
      BY <1>6, <1>11, <2>2
    <3>2. Len(t) \in Nat /\ Len(t) # 0
      <4>1. Len(t) \in Nat /\ t \in Seq(Fragments(Answers))
        BY <1>5, <1>7, <1>8, <1>9, StreamEnds
      <4>2. QED
        BY <1>21, <4>1, EmptySeq
    <3>3. 1 \in 1 .. Len(t)
      BY <3>2
    <3>4. t[1] = s[1 + p] /\ 1 + p \in 2 .. Len(s) /\ (1 + p) - 1 = p
      BY <1>9, <2>2, <3>3
    <3>5. s[p] = Fragment(s[1 + p].of, FALSE)
      BY <1>7, <1>21, <3>4 DEF Streamed
    <3>6. QED
      BY <3>1, <3>5, Fragmented
  <2>3. QED
    BY <2>1, <2>2
<1>22. HeardInv'
  <2>1. UNCHANGED <<Before, LastGot, events>> /\ Coming' = t
    BY <1>5, <1>8 DEF Before, LastGot
  <2>2. \A l \in heard : /\ LineOnce(l) /\ l.of \notin events
                         /\ Answered(l, Before, LastGot) /\ CameBefore(l, t)
    BY <1>19 DEF HeardInv
  <2>3. \A l \in heard' : l \in heard \/ \E i \in HandedOn(b) : l = Handed(b, i)
    BY <1>1, <1>3
  <2>4. \A l \in heard' : /\ LineOnce(l) /\ l.of \notin events
                          /\ Answered(l, Before, LastGot) /\ CameBefore(l, t)
    BY <1>20, <2>2, <2>3
  <2>5. QED
    BY <1>21, <2>1, <2>4 DEF HeardInv, FirstWhole
<1>23. QED
  BY <1>4, <1>5, <1>22

-----------------------------------------------------------------------------
(* Every step keeps what is coming and what was handed on.                 *)

LEMMA NoReplies ==
  /\ \A x \in Events \cup {Stale} : \A n \in Nat : x # Reply(Line(n))
  /\ \A x \in Words : Reply(x) \notin Events /\ Reply(x) # Stale
<1>1. \A n \in Nat : Reply(Line(n)) \in {"reply"} \X ({"line", "ping"} \X Nat)
  BY DEF Reply, Line
<1>2. \A x \in Words : Reply(x) \in {"reply"} \X ({"line", "ping"} \X Nat)
  <2>1. \A x \in Words : x \in {"line", "ping"} \X Nat
    BY SizesAssumption DEF Words, Lines, Own
  <2>2. QED
    BY <2>1 DEF Reply
<1>3. QED
  BY <1>1, <1>2, KindsAssumption

\* The Captain gets a line that it does not answer.
LEMMA MoreGot ==
  ASSUME TypeOK, CountInv, ComingInv, HeardInv, UNCHANGED <<Coming, emit, Before, events, heard>>,
         LastGot' \in Nat, LastGot <= LastGot', open' => open, connected' => connected
  PROVE  ComingInv' /\ HeardInv'
<1>1. LastGot \in Nat /\ Before \in Nat
  BY Numbers
<1>2. PICK hi \in Nat, h \in Nat : hi = LastGot /\ h = LastGot'
  BY <1>1
<1>3. \A n \in Nat : n <= hi => n <= h
  BY <1>2
<1>4. \A s, lo, E : InTurn(s, lo, hi, E) => InTurn(s, lo, h, E)
  BY <1>3 DEF InTurn, Replies
<1>5. \A l, lo : Answered(l, lo, hi) => Answered(l, lo, h)
  BY <1>3 DEF Answered
<1>6. ComingInv'
  BY <1>2, <1>4 DEF ComingInv
<1>7. HeardInv'
  BY <1>2, <1>5 DEF HeardInv, FirstWhole
<1>8. QED
  BY <1>6, <1>7

LEMMA StreamSame ==
  ASSUME ComingInv, HeardInv,
         UNCHANGED <<rx, in, emit, events, sent, accepted, got, heard, open>>,
         connected' => connected
  PROVE  ComingInv' /\ HeardInv'
<1>1. UNCHANGED <<Coming, Before, LastGot>>
  BY DEF Coming, Before, LastGot
<1>2. QED
  BY <1>1, ComingSame, HeardSame

LEMMA StreamClosed ==
  ASSUME TypeOK, ComingInv, HeardInv, rx' \in {rx, <<>>}, ClosePort,
         UNCHANGED <<sent, accepted, got, heard>>, connected' => connected
  PROVE  ComingInv' /\ HeardInv'
<1>1. UNCHANGED <<Before, LastGot, events>> /\ in' = <<>> /\ emit' = <<>> /\ ~open'
  BY DEF Before, LastGot, ClosePort
<1>2. ComingInv' /\ \E k \in 0 .. Len(Coming) : Coming' = SubSeq(Coming, 1, k)
  BY <1>1, ComingClosed
<1>3. QED
  BY <1>1, <1>2, HeardClosed

LEMMA StreamOpened ==
  ASSUME TypeOK, ControlInv, OpenPort
  PROVE  ComingInv' /\ HeardInv'
<1>1. /\ rx' = <<>> /\ emit' = <<>> /\ ~connected' /\ heard' = {}
      /\ in' \in {<<>>, <<Fragment(Stale, TRUE)>>}
  BY DEF ControlInv, OpenPort, Goes, Between, Pumping, sharedVars, history
<1>2. CASE in' = <<>>
  <2>1. Coming' = <<>>
    BY <1>1, <1>2 DEF Coming
  <2>2. QED
    BY <1>1, <2>1, ComingEmpty, HeardNone
<1>3. CASE in' = <<Fragment(Stale, TRUE)>>
  <2>1. PICK f : f = Fragment(Stale, TRUE)
    OBVIOUS
  <2>2. PICK s : s = <<f>>
    OBVIOUS
  <2>3. Coming' = s
    BY <1>1, <1>3, <2>1, <2>2 DEF Coming
  <2>4. Len(s) = 1 /\ s[1] = f
    BY <2>2
  <2>5. \A i \in 1 .. Len(s) : s[i] = f /\ 1 .. i - 1 = {}
    BY <2>4
  <2>6. f.last /\ f.of = Stale
    BY <2>1, Fragmented
  <2>7. \A n \in Nat : f # ReplyEnd(n)
    BY <2>1, NoReplies, Answering
  <2>8. \A e \in Events : f.of # e /\ f # EventEnd(e)
    BY <2>1, <2>6, Answering, KindsAssumption
  <2>9. Streamed(s) /\ Complete(s)
    BY <2>4, <2>6 DEF Streamed, Complete
  <2>10. Replies(s, Before', LastGot') /\ EventsOnce(s, events')
    BY <2>5, <2>7, <2>8 DEF Replies, EventsOnce
  <2>11. NoneStale(<<>>)
    BY DEF NoneStale
  <2>12. ComingInv'
    BY <1>1, <2>3, <2>9, <2>10, <2>11 DEF ComingInv, InTurn
  <2>13. QED
    BY <1>1, <2>12, HeardNone
<1>4. QED
  BY <1>1, <1>2, <1>3

\* The handshake has dropped what was left in the driver.
LEMMA StreamShaken ==
  ASSUME TypeOK, ControlInv, ComingInv, HeardInv, Handshake
  PROVE  ComingInv' /\ HeardInv'
<1>1. ~connected /\ heard' = {}
  BY DEF ControlInv, Handshake, Pumping, history
<1>2. in' = <<>> /\ UNCHANGED <<emit, events, sent, accepted, got, open>>
  BY DEF Handshake, history, captainVars
<1>3. UNCHANGED <<Before, LastGot>>
  BY <1>2 DEF Before, LastGot
<1>4. NoneStale(emit)
  BY DEF ComingInv
<1>5. PICK G : G = Fragments(Answers)
  OBVIOUS
<1>6. rx \in Seq(G) /\ in \in Seq(G) /\ emit \in Seq(G)
  BY <1>5 DEF TypeOK
<1>7. CASE rx' = <<>>
  <2>1. PICK b \in Seq(G) : b = rx \o in
    BY <1>6, Cat
  <2>2. Len(b) \in Nat /\ Len(b) \in 0 .. Len(b) /\ SubSeq(b, Len(b) + 1, Len(b)) = <<>>
    <3>1. Len(b) \in Nat /\ SubSeq(b, Len(b) + 1, Len(b)) = <<>>
      BY SubSeqEmpty
    <3>2. QED
      BY <3>1
  <2>3. PICK p \in 0 .. Len(b) : p = Len(b)
    BY <2>2
  <2>4. rx' = SubSeq(rx \o in, p + 1, Len(rx \o in)) /\ p \in 0 .. Len(rx \o in)
    BY <1>7, <2>1, <2>2, <2>3
  <2>5. p \in 0 .. Len(Coming) /\ Coming' = SubSeq(Coming, p + 1, Len(Coming))
    BY <1>2, <2>4, ReadOff
  <2>6. Coming' = emit
    BY <1>2, <1>6, <1>7, ConcatEmptySeq DEF Coming
  <2>7. ComingInv'
    BY <1>2, <1>3, <1>4, <2>5, <2>6, ComingLater
  <2>8. QED
    BY <1>1, <2>7, HeardNone
<1>8. CASE rx' = Rest(rx \o in) /\ connected' = connected
  <2>1. PICK p \in Nat : SplitAt(p)
    BY <1>8, Types, SplitIs
  <2>2. p \in 0 .. Len(rx \o in) /\ rx' = SubSeq(rx \o in, p + 1, Len(rx \o in))
    BY <2>1 DEF SplitAt
  <2>3. p \in 0 .. Len(Coming) /\ Coming' = SubSeq(Coming, p + 1, Len(Coming))
    BY <1>2, <2>2, ReadOff
  <2>4. ComingInv'
    BY <1>2, <1>3, <1>8, <2>3, ComingLater
  <2>5. QED
    BY <1>1, <2>4, HeardNone
<1>9. QED
  BY <1>7, <1>8 DEF Handshake

LEMMA StreamRead ==
  ASSUME TypeOK, ControlInv, CountInv, ComingInv, HeardInv, NextPass \/ Read
  PROVE  ComingInv' /\ HeardInv'
<1>1. /\ Feed /\ connected /\ open /\ connected' = connected
      /\ UNCHANGED <<emit, events, sent, accepted, got, open>>
  BY DEF NextPass, Read, ControlInv, Pumping, CanIO, Goes, captainVars
<1>2. HeardInv' /\ \E p \in 0 .. Len(Coming) : Coming' = SubSeq(Coming, p + 1, Len(Coming))
  BY <1>1, HeardRead
<1>3. UNCHANGED <<Before, LastGot>>
  BY <1>1 DEF Before, LastGot
<1>4. ComingInv'
  BY <1>1, <1>2, <1>3, ComingLater
<1>5. QED
  BY <1>2, <1>4

LEMMA StreamSent ==
  ASSUME TypeOK, CountInv, ComingInv, HeardInv, Send
  PROVE  ComingInv' /\ HeardInv'
<1>1. /\ accepted' = Append(accepted, Line(sent + 1)) /\ sent' = sent + 1 /\ got' = got
      /\ UNCHANGED <<rx, in, emit, events, heard, open, connected>>
  BY DEF Send, Line, PortStays, portVars, captainVars, sessionVars
<1>2. Len(accepted') = Len(accepted) + 1
  <2>1. Line(sent + 1) \in Lines
    <3>1. sent + 1 \in 1 .. MaxLines
      <4>1. sent \in Nat /\ MaxLines \in Nat /\ sent < MaxLines
        BY Numbers, SizesAssumption DEF Send
      <4>2. QED
        BY <4>1
    <3>2. QED
      BY <3>1 DEF Lines, Line
  <2>2. accepted \in Seq(Lines)
    BY DEF TypeOK
  <2>3. QED
    BY <1>1, <2>1, <2>2, AppendProperties
<1>3. sent \in Nat /\ Len(accepted) \in Nat
  BY Numbers
<1>4. UNCHANGED <<Coming, Before>>
  BY <1>1, <1>2, <1>3 DEF Coming, Before
<1>5. UNCHANGED LastGot
  BY <1>1, <1>4 DEF LastGot
<1>6. QED
  BY <1>1, <1>4, <1>5, ComingSame, HeardSame

\* What the Captain sends goes on to the driver.
LEMMA StreamEmitted ==
  ASSUME TypeOK, ComingInv, HeardInv, Emit
  PROVE  ComingInv' /\ HeardInv'
<1>1. /\ in' = Append(in, Head(emit)) /\ emit' = Tail(emit) /\ emit # <<>>
      /\ UNCHANGED <<rx, events, sent, accepted, got, heard, open, connected>>
  BY DEF Emit, history, sessionVars, sharedVars
<1>2. UNCHANGED <<Before, LastGot>>
  BY <1>1 DEF Before, LastGot
<1>3. PICK G : G = Fragments(Answers)
  OBVIOUS
<1>4. rx \in Seq(G) /\ in \in Seq(G) /\ emit \in Seq(G)
  BY <1>3 DEF TypeOK
<1>5. PICK h, r : h = <<Head(emit)>> /\ r = Tail(emit)
  OBVIOUS
<1>6. h \in Seq(G) /\ r \in Seq(G) /\ h \o r = emit /\ in' = in \o h
  BY <1>1, <1>4, <1>5
<1>7. Coming' = Coming
  <2>1. PICK b \in Seq(G) : b = rx \o in
    BY <1>4, Cat
  <2>2. rx \in Seq(G) /\ in \in Seq(G) /\ h \in Seq(G)
    BY <1>4, <1>6
  <2>3. (rx \o in) \o h = rx \o (in \o h)
    BY ONLY <2>2, ConcatAssociative
  <2>4. b \in Seq(G) /\ h \in Seq(G) /\ r \in Seq(G)
    BY <1>6
  <2>5. (b \o h) \o r = b \o (h \o r)
    BY ONLY <2>4, ConcatAssociative
  <2>6. Coming' = (b \o h) \o r
    BY <1>1, <1>5, <1>6, <2>1, <2>3 DEF Coming
  <2>7. Coming = b \o (h \o r)
    BY <1>6, <2>1 DEF Coming
  <2>8. QED
    BY <2>5, <2>6, <2>7
<1>8. NoneStale(emit')
  <2>1. Len(emit') = Len(emit) - 1 /\ Len(emit) \in Nat /\ \A i \in 1 .. Len(emit') : emit'[i] = emit[i + 1]
    BY <1>1, <1>4, HeadTailProperties
  <2>2. \A i \in 1 .. Len(emit') : i + 1 \in 1 .. Len(emit)
    BY <2>1
  <2>3. NoneStale(emit)
    BY DEF ComingInv
  <2>4. QED
    BY <2>1, <2>2, <2>3 DEF NoneStale
<1>9. ComingInv'
  BY <1>1, <1>2, <1>7, <1>8 DEF ComingInv
<1>10. QED
  BY <1>1, <1>2, <1>7, <1>9, HeardSame

LEMMA StreamEvent ==
  ASSUME TypeOK, CountInv, ComingInv, HeardInv, NEW e \in Events, Event(e)
  PROVE  ComingInv' /\ HeardInv'
<1>1. /\ open /\ emit = <<>> /\ e \in events /\ emit' = Bytes(e) /\ events' = events \ {e}
      /\ UNCHANGED <<rx, in, sent, accepted, got, heard, open, connected>>
  BY DEF Event, Serves, history, sessionVars, sharedVars
<1>2. UNCHANGED <<Before, LastGot>>
  BY <1>1 DEF Before, LastGot
<1>3. LastGot \in Nat /\ LastGot' \in Nat /\ LastGot <= LastGot'
  BY <1>2, Numbers
<1>4. e \in Answers /\ e # Stale /\ \A n \in Nat : e # Reply(Line(n))
  BY KindsAssumption, NoReplies DEF Answers
<1>5. events' \subseteq events /\ e \in events \ events'
  BY <1>1
<1>6. ComingInv' /\ Coming' = Coming \o Bytes(e)
  BY <1>1, <1>2, <1>3, <1>4, <1>5, ComingGrows
<1>7. QED
  BY <1>1, <1>2, <1>3, <1>4, <1>5, <1>6, HeardGrows

\* The Captain answers the line it got.
LEMMA StreamTaken ==
  ASSUME TypeOK, ControlInv, CountInv, SendingInv, ComingInv, HeardInv, Take
  PROVE  ComingInv' /\ HeardInv'
<1>1. /\ open /\ emit = <<>> /\ out # <<>>
      /\ UNCHANGED <<rx, in, sent, accepted, heard, open, connected, events>>
      /\ got' = IF Head(out).last /\ Head(out).of \in Lines THEN Append(got, Head(out).of) ELSE got
      /\ emit' = IF Head(out).last /\ PortKind[port] # "console"
                 THEN Bytes(Reply(Head(out).of)) ELSE emit
  BY TakenWhole DEF Take, Serves, sessionVars, sharedVars
<1>2. Before' = Before /\ Len(got) \in Nat /\ Before \in Nat /\ LastGot \in Nat
  BY <1>1, Numbers DEF Before
<1>3. Head(out) \in Fragments(Words) /\ Head(out).of \in Words
  <2>1. \A f \in Fragments(Words) : f.of \in Words
    BY DEF Fragments
  <2>2. QED
    BY <2>1, TakenIs
<1>4. CASE Head(out).last /\ Head(out).of \in Lines
  <2>1. Head(out).of = Line(NextOne)
    BY <1>4, TakenLine
  <2>2. got' = Append(got, Head(out).of)
    BY <1>1, <1>4
  <2>3. Len(got') = Len(got) + 1
    <3>1. got \in Seq(Lines)
      BY DEF TypeOK
    <3>2. QED
      BY <1>4, <2>2, <3>1, AppendProperties
  <2>4. LastGot' = LastGot + 1 /\ NextOne = LastGot + 1
    BY <1>2, <2>3 DEF LastGot, NextOne
  <2>5. LastGot' \in Nat /\ LastGot <= LastGot'
    BY <1>2, <2>4
  <2>6. CASE emit' = emit
    <3>1. UNCHANGED Coming
      BY <1>1, <2>6 DEF Coming
    <3>2. QED
      BY <1>1, <1>2, <2>5, <2>6, <3>1, MoreGot
  <2>7. CASE emit' = Bytes(Reply(Head(out).of))
    <3>1. PICK x : x = Reply(Head(out).of)
      OBVIOUS
    <3>2. x \in Answers /\ x # Stale /\ x \notin Events /\ emit' = Bytes(x)
      BY <1>3, <2>7, <3>1, NoReplies DEF Answers
    <3>3. \A n \in Nat : x = Reply(Line(n)) => LastGot < n /\ n <= LastGot'
      <4>1. \A n \in Nat : x = Reply(Line(n)) => n = NextOne
        BY <2>1, <3>1, Answering
      <4>2. LastGot < NextOne /\ NextOne <= LastGot'
        BY <1>2, <2>4
      <4>3. QED
        BY <4>1, <4>2
    <3>4. ComingInv' /\ Coming' = Coming \o Bytes(x)
      BY <1>1, <1>2, <2>5, <3>2, <3>3, ComingGrows
    <3>5. QED
      BY <1>1, <1>2, <2>5, <3>2, <3>3, <3>4, HeardGrows
  <2>8. QED
    BY <1>1, <2>6, <2>7
<1>5. CASE ~(Head(out).last /\ Head(out).of \in Lines)
  <2>1. got' = got
    BY <1>1, <1>5
  <2>2. LastGot' = LastGot /\ LastGot' \in Nat /\ LastGot <= LastGot'
    BY <1>2, <2>1 DEF LastGot
  <2>3. CASE emit' = emit
    <3>1. UNCHANGED Coming
      BY <1>1, <2>3 DEF Coming
    <3>2. QED
      BY <1>1, <1>2, <2>2, <2>3, <3>1, MoreGot
  <2>4. CASE Head(out).last /\ emit' = Bytes(Reply(Head(out).of))
    <3>1. PICK x : x = Reply(Head(out).of)
      OBVIOUS
    <3>2. x \in Answers /\ x # Stale /\ x \notin Events /\ emit' = Bytes(x)
      BY <1>3, <2>4, <3>1, NoReplies DEF Answers
    <3>3. \A n \in Nat : x # Reply(Line(n))
      <4>1. Head(out).of \in Own
        BY <1>3, <1>5, <2>4 DEF Words
      <4>2. QED
        BY <3>1, <4>1, Answering
    <3>4. ComingInv' /\ Coming' = Coming \o Bytes(x)
      BY <1>1, <1>2, <2>2, <3>2, <3>3, ComingGrows
    <3>5. QED
      BY <1>1, <1>2, <2>2, <3>2, <3>3, <3>4, HeardGrows
  <2>5. QED
    BY <1>1, <2>3, <2>4
<1>6. QED
  BY <1>4, <1>5

LEMMA StreamStep ==
  ASSUME TypeOK, ControlInv, CountInv, SendingInv, ComingInv, HeardInv, Next
  PROVE  ComingInv' /\ HeardInv'
<1>1. CASE OpenFails \/ NoneAnswered \/ KeepPort \/ Publish \/ SyncGoesOn \/ Wait \/ Raise
           \/ Backoff \/ Down
  <2>1. /\ PortStays /\ UNCHANGED <<rx, history>>
        /\ connected' = connected \/ ~connected'
    BY <1>1 DEF OpenFails, NoneAnswered, KeepPort, Publish, SyncGoesOn, Wait, Raise, Backoff, Down,
                Discard, sharedVars, sessionVars
  <2>2. UNCHANGED <<rx, in, emit, events, sent, accepted, got, heard, open>>
    BY <2>1 DEF PortStays, portVars, captainVars, history
  <2>3. QED
    BY <2>1, <2>2, StreamSame
<1>2. CASE Write
  <2>1. UNCHANGED <<rx, in, emit, events, sent, accepted, got, heard, open, connected>>
    BY <1>2 DEF Write, Resume, WriteNext, KeepAlive, WriteNothing, WritePass, captainVars, history
  <2>2. QED
    BY <2>1, StreamSame
<1>3. CASE SetActivity \/ WakeRead \/ StopSets \/ Fails \/ TimePasses
  <2>1. UNCHANGED <<rx, in, emit, events, sent, accepted, got, heard, open, connected>>
    BY <1>3 DEF SetActivity, WakeRead, StopSets, Fails, TimePasses, PortStays, portVars, captainVars,
                sharedVars, sessionVars, history
  <2>2. QED
    BY <2>1, StreamSame
<1>4. CASE Abandon \/ SyncFails
  <2>1. /\ rx' \in {rx, <<>>} /\ ClosePort
        /\ UNCHANGED <<sent, accepted, got, heard>> /\ connected' = connected
    BY <1>4 DEF Abandon, SyncFails, sharedVars, sessionVars, history
  <2>2. QED
    BY <2>1, StreamClosed
<1>5. CASE StopCloses
  <2>1. UNCHANGED <<rx, sent, accepted, got, heard, connected>>
    BY <1>5 DEF StopCloses, sharedVars, sessionVars, history
  <2>2. CASE ClosePort
    BY <2>1, <2>2, StreamClosed
  <2>3. CASE PortStays
    <3>1. UNCHANGED <<in, emit, events, open>>
      BY <2>3 DEF PortStays, portVars, captainVars
    <3>2. QED
      BY <2>1, <3>1, StreamSame
  <2>4. QED
    BY <1>5, <2>2, <2>3 DEF StopCloses
<1>6. CASE Close
  <2>1. Coming' = <<>> /\ emit' = <<>> /\ heard' = {}
    BY <1>6 DEF Close, ClosePort, Coming
  <2>2. QED
    BY <2>1, ComingEmpty, HeardNone
<1>7. QED
  BY <1>1, <1>2, <1>3, <1>4, <1>5, <1>6, StreamOpened, StreamShaken, StreamRead, StreamSent,
     StreamEmitted, StreamEvent, StreamTaken
     DEF Next, Thread, Captain

-----------------------------------------------------------------------------
(* The invariant.                                                          *)

LEMMA InvInit == Init => IInv
<1> SUFFICES ASSUME Init PROVE IInv
  OBVIOUS
<1>1. TypeOK
  BY TypeInit
<1>2. ControlInv /\ WakeInv
  BY DEF Init, ControlInv, WakeInv, Pumping, Between
<1>3. Len(<<>>) = 0 /\ 1 .. 0 = {} /\ 0 <= 0 /\ 0 + 0 <= 0
  OBVIOUS
<1>4. CountInv
  BY <1>3 DEF Init, CountInv
<1>5. SendingInv
  BY <1>3 DEF Init, SendingInv
<1>6. ComingInv /\ HeardInv
  <2>1. \A lo, hi, E : InTurn(<<>>, lo, hi, E)
    BY DEF InTurn, Streamed, Replies, EventsOnce
  <2>2. Coming = <<>> /\ ~open /\ ~connected /\ emit = <<>> /\ heard = {}
    BY DEF Init, Coming
  <2>3. NoneStale(<<>>)
    BY DEF NoneStale
  <2>4. QED
    BY <2>1, <2>2, <2>3 DEF ComingInv, HeardInv
<1>7. QED
  BY <1>1, <1>2, <1>4, <1>5, <1>6 DEF IInv

LEMMA InvStep == IInv /\ [Next]_vars => IInv'
<1> SUFFICES ASSUME IInv, [Next]_vars PROVE IInv'
  OBVIOUS
<1>1. TypeOK /\ ControlInv /\ WakeInv /\ CountInv /\ SendingInv /\ ComingInv /\ HeardInv
  BY DEF IInv
<1>2. TypeOK'
  BY <1>1, TypeStep
<1>3. CASE Next
  <2>1. ASSUME Take, got' # got PROVE accepted # <<>>
    <3>1. Head(out).last /\ Head(out).of \in Lines
      BY <2>1 DEF Take
    <3>2. NextOne <= LastBegun
      BY <1>1, <2>1, <3>1, TakenLine
    <3>3. Len(accepted) # 0
      <4>1. /\ sent \in Nat /\ Len(accepted) \in Nat /\ Len(got) \in Nat /\ Len(tx) \in Nat
        BY <1>1, Numbers
      <4>2. QED
        BY <3>2, <4>1 DEF NextOne, LastBegun, Before
    <3>4. QED
      BY <3>3
  <2>2. ControlInv'
    BY <1>1, <1>3, <2>1, ControlStep
  <2>3. QED
    BY <1>1, <1>2, <1>3, <2>2, WakeStep, CountStep, SendingStep, StreamStep DEF IInv
<1>4. CASE UNCHANGED vars
  <2>1. /\ UNCHANGED <<pc, stop, activity, published, connected, tx, pending, rx, sender, opens>>
        /\ UNCHANGED <<open, woken, out, in, partial, emit, events, sent, accepted, got, heard>>
    BY <1>4 DEF vars, roundVars, sharedVars, sessionVars, callerVars, portVars, captainVars, history
  <2>2. UNCHANGED <<Sending, Coming, Before, NextOne, LastBegun, LastGot, OnTheWay>>
    BY <2>1 DEF Sending, Coming, Before, NextOne, LastBegun, LastGot, OnTheWay
  <2>3. ControlInv' /\ WakeInv' /\ CountInv'
    BY <1>1, <2>1, <2>2 DEF ControlInv, WakeInv, CountInv
  <2>4. SendingInv' /\ ComingInv' /\ HeardInv'
    BY <1>1, <2>1, <2>2, SendingSame, ComingSame, HeardSame
  <2>5. QED
    BY <1>2, <2>3, <2>4 DEF IInv
<1>5. QED
  BY <1>3, <1>4

\* Control, wake-ups, counts and both streams are what they have to be in every state
\* the link, its callers and the Captain can come to.
THEOREM Inductive == Spec => []IInv
<1>1. Init => IInv
  BY InvInit
<1>2. IInv /\ [Next]_vars => IInv'
  BY InvStep
<1>3. QED
  BY <1>1, <1>2, PTL DEF Spec

\* The link keeps its types and the driver's buffers their sizes, for every number of
\* lines, ports and failures.
THEOREM TypeCorrect == Spec => []TypeOK
<1>1. IInv => TypeOK
  BY DEF IInv
<1>2. QED
  BY Inductive, <1>1, PTL

\* The thread never sleeps with a line in the queue and no caller left to wake it,
\* wherever in a pass the line was put there (link.py:497-508, 652-655).
THEOREM NoWakeupIsLost == Spec => []NoLostWakeup
<1>1. IInv => NoLostWakeup
  BY DEF IInv, WakeInv, NoLostWakeup
<1>2. QED
  BY Inductive, <1>1, PTL

\* What is handed on to the hub is in the order of the lines it answers, each line once
\* and none left from an earlier session, and only the first may be cut (link.py:707-725).
THEOREM OnlyFirstIsCut == Spec => []OnlyFirstCut
<1>1. ASSUME IInv, NEW l \in heard, NEW m \in DOMAIN accepted, NEW n \in DOMAIN accepted,
             m < n, l.of = Reply(accepted[m])
      PROVE  Reply(accepted[n]) \notin l.after
  <2>1. TypeOK /\ CountInv /\ HeardInv
    BY <1>1 DEF IInv
  <2>2. accepted \in Seq(Lines) /\ Len(accepted) \in Nat /\ Before \in Nat
    BY <2>1, Numbers DEF TypeOK
  <2>3. m \in 1 .. Len(accepted) /\ n \in 1 .. Len(accepted)
    BY <2>2
  <2>4. accepted[m] = Line(Before + m) /\ accepted[n] = Line(Before + n)
    BY <2>1, <2>3 DEF CountInv
  <2>5. PICK j, k : j = Before + m /\ k = Before + n
    OBVIOUS
  <2>6. j \in Nat /\ k \in Nat /\ ~(k < j)
    BY <1>1, <2>2, <2>3, <2>5
  <2>7. l.of = Reply(Line(j)) /\ accepted[n] = Line(k)
    BY <1>1, <2>4, <2>5
  <2>8. \A i \in Nat : Reply(Line(i)) \in l.after => i < j
    BY <2>1, <2>6, <2>7 DEF HeardInv, Answered
  <2>9. QED
    BY <2>6, <2>7, <2>8
<1>2. ASSUME IInv, NEW l \in heard PROVE LineOnce(l)
  BY <1>2 DEF IInv, HeardInv
<1>3. IInv => OnlyFirstCut
  BY <1>1, <1>2 DEF OnlyFirstCut, LineOnce
<1>4. QED
  BY Inductive, <1>3, PTL

\* A line of the hub that the Captain gets is the next of those accepted.
LEMMA Delivered ==
  ASSUME IInv, Take
  PROVE  Session!Deliver \/ UNCHANGED Session!vars
<1>1. TypeOK /\ CountInv /\ SendingInv
  BY DEF IInv
<1>2. /\ UNCHANGED <<connected, accepted>>
      /\ got' = IF Head(out).last /\ Head(out).of \in Lines THEN Append(got, Head(out).of) ELSE got
  <2>1. UNCHANGED <<connected, accepted>>
    BY DEF Take, sharedVars
  <2>2. QED
    BY <1>1, <2>1, TakenWhole
<1>3. CASE Head(out).last /\ Head(out).of \in Lines
  <2>1. Head(out).of = Line(NextOne) /\ NextOne <= LastBegun
    BY <1>1, <1>3, TakenLine
  <2>2. /\ sent \in Nat /\ Len(accepted) \in Nat /\ Len(got) \in Nat /\ Len(tx) \in Nat
        /\ Before = sent - Len(accepted)
    BY <1>1, Numbers DEF Before
  <2>3. Len(got) < Len(accepted)
    BY <2>1, <2>2 DEF NextOne, LastBegun
  <2>4. Len(got) + 1 \in 1 .. Len(accepted) /\ Before + (Len(got) + 1) = NextOne
    BY <2>2, <2>3 DEF NextOne
  <2>5. accepted[Len(got) + 1] = Line(NextOne)
    BY <1>1, <2>4 DEF CountInv
  <2>6. QED
    BY <1>2, <1>3, <2>1, <2>3, <2>5 DEF Session!Deliver
<1>4. CASE ~(Head(out).last /\ Head(out).of \in Lines)
  BY <1>2, <1>4 DEF Session!vars
<1>5. QED
  BY <1>3, <1>4

LEMMA SessionStep == IInv /\ [Next]_vars => [Session!Next]_(Session!vars)
<1> SUFFICES ASSUME IInv, [Next]_vars PROVE Session!Next \/ UNCHANGED Session!vars
  OBVIOUS
<1>1. TypeOK /\ ControlInv
  BY DEF IInv
<1>2. CASE OpenFails \/ OpenPort \/ NoneAnswered \/ Abandon \/ KeepPort \/ Publish \/ SyncGoesOn
           \/ SyncFails \/ Wait \/ Raise \/ Backoff
  BY <1>2 DEF OpenFails, OpenPort, NoneAnswered, Abandon, KeepPort, Publish, SyncGoesOn, SyncFails,
              Wait, Raise, Backoff, sharedVars, history, Session!vars
<1>3. CASE Handshake
  <2>1. ~connected /\ accepted = <<>> /\ got = <<>> /\ UNCHANGED <<accepted, got>>
    BY <1>1, <1>3 DEF Handshake, ControlInv, Pumping, history
  <2>2. connected' = TRUE \/ UNCHANGED connected
    BY <1>3 DEF Handshake
  <2>3. QED
    BY <2>1, <2>2 DEF Session!Next, Session!Starts, Session!vars
<1>4. CASE NextPass \/ Write \/ Read
  BY <1>4 DEF NextPass, Read, Write, Resume, WriteNext, KeepAlive, WriteNothing, WritePass, history,
              Session!vars
<1>5. CASE Down
  <2>1. connected' = FALSE /\ UNCHANGED <<accepted, got>>
    BY <1>5 DEF Down, Discard, history
  <2>2. connected \in BOOLEAN
    BY <1>1 DEF TypeOK
  <2>3. QED
    BY <2>1, <2>2 DEF Session!Next, Session!Ends, Session!vars
<1>6. CASE Close
  BY <1>1, <1>6 DEF Close, ControlInv, Pumping, Session!Next, Session!Closes
<1>7. CASE Send
  <2>1. /\ connected /\ accepted' = Append(accepted, Line(sent + 1)) /\ UNCHANGED <<connected, got>>
    BY <1>7 DEF Send, Line
  <2>2. Line(sent + 1) \in Lines
    <3>1. sent + 1 \in 1 .. MaxLines
      <4>1. sent \in Nat /\ MaxLines \in Nat /\ sent < MaxLines
        BY <1>7, Numbers, SizesAssumption DEF Send, IInv
      <4>2. QED
        BY <4>1
    <3>2. QED
      BY <3>1 DEF Lines, Line
  <2>3. QED
    BY <2>1, <2>2 DEF Session!Next, Session!Accept
<1>8. CASE Take
  BY <1>8, Delivered DEF Session!Next
<1>9. CASE SetActivity \/ WakeRead \/ StopSets \/ StopCloses
  BY <1>9 DEF SetActivity, WakeRead, StopSets, StopCloses, sharedVars, history, Session!vars
<1>10. CASE Emit \/ Fails \/ TimePasses \/ \E e \in Events : Event(e)
  BY <1>10 DEF Emit, Fails, TimePasses, Event, sharedVars, history, Session!vars
<1>11. CASE UNCHANGED vars
  BY <1>11 DEF vars, sharedVars, history, Session!vars
<1>12. QED
  BY <1>2, <1>3, <1>4, <1>5, <1>6, <1>7, <1>8, <1>9, <1>10, <1>11 DEF Next, Thread, Captain

\* The Captain gets the lines of a session in the order they were accepted, each once,
\* and none of another session: the link is a SessionLines, whose session starts with
\* the handshake that succeeds and is over when the port is closed.
THEOREM LinesKeepSession == Spec => LinesInSession
<1>1. Init => Session!Init
  BY DEF Init, Session!Init
<1>2. IInv /\ [Next]_vars => [Session!Next]_(Session!vars)
  BY SessionStep
<1>3. QED
  BY Inductive, <1>1, <1>2, PTL DEF Spec, LinesInSession, Session!Spec

=============================================================================
