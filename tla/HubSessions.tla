----------------------------- MODULE HubSessions -----------------------------
(***************************************************************************)
(* The network side of the hub: its sockets, one session for each client,  *)
(* with the queue between the hub and that client, and the way the process *)
(* starts and stops.  Stage clients (WebSocket) are told the state of the  *)
(* link, raw clients (TCP) are not.                                        *)
(*                                                                         *)
(* Lines are numbered for each client as the hub offers them.  What a      *)
(* client has been sent is a stream: one line at a time may be on its way, *)
(* and the pump waits for it.                                              *)
(***************************************************************************)
EXTENDS Naturals, Sequences

CONSTANTS Stage, Raw,   \* the clients of each kind; each connects once
          QueueMax,     \* SUBSCRIBER_QUEUE_MAX
          MaxLines,     \* bound on the number of a line
          Visits,       \* bounds: who comes, and after how many of the lines
          MaxMoves      \* bound on the times the link goes up or down

ASSUME SessionsAssumption ==
  /\ Stage \cap Raw = {}
  /\ QueueMax \in Nat /\ QueueMax >= 3
  /\ {MaxLines, MaxMoves} \subseteq Nat
  /\ \A v \in Visits : v \in [DOMAIN v -> 0 .. MaxLines] /\ DOMAIN v \subseteq Stage \cup Raw

VARIABLES
  run,       \* where server.run is; the name of a socket when it is bound next
  sockets,   \* the sockets that are open
  working,   \* an update is at work
  up,        \* link.connected
  posted,    \* what the link thread posted and the loop has not dispatched
  moves,     \* how often the link has changed
  knows,     \* the raw clients that know the TCP port
  handler,   \* the handler of each connection
  subs,      \* Hub._subs
  queue,     \* Subscription._queue
  pump,      \* pump_down: the item it holds, or what it does
  unsent,    \* clients with bytes in the transport's buffer
  shut,      \* connections the hub has begun to close
  left,      \* clients that are gone
  offered,   \* lines offered to each client so far
  seen       \* the last line in a client's stream, and the status after it

hubVars     == <<run, sockets, working, knows>>
linkVars    == <<up, posted, moves>>
clientVars  == <<handler, shut, left>>
streamVars  == <<queue, pump, unsent, seen>>
sessionVars == <<hubVars, linkVars, clientVars, subs, streamVars, offered>>
-----------------------------------------------------------------------------
Clients == Stage \cup Raw
After == [tcp |-> "ws", ws |-> "udp", udp |-> "http", http |-> "serving"]
Starting == DOMAIN After
SocketOf(c) == IF c \in Stage THEN "ws" ELSE "tcp"

\* Items of a queue: a line, a status, or the end.
Numbered(n) == <<"line", n>>
Up == <<"up", 0>>
Down == <<"down", 0>>
Status(s) == IF s THEN Up ELSE Down
Close == <<"close", 0>>
Items == {Numbered(n) : n \in 1 .. MaxLines} \cup {Up, Down, Close}

\* A pump that holds nothing.
Waiting == <<"waiting", 0>>
Ended == <<"ended", 0>>

\* What follows the last line of a stream: nothing, "down", or down and up again.
ToldAfter(told, item) ==
  CASE item = Down /\ told = "none" -> "down"
    [] item = Up /\ told = "down"   -> "both"
    [] OTHER                        -> told
SeenAfter(s, item) == IF item[1] = "line" THEN [last |-> item[2], told |-> "none"]
                      ELSE [s EXCEPT !.told = ToldAfter(@, item)]

SessionsTypeOK ==
  /\ run \in Starting \cup {"serving", "draining", "waiting", "leaving", "ended"}
  /\ sockets \subseteq Starting \cup {"closing udp"}
  /\ {working, up} \subseteq BOOLEAN
  /\ posted \in Seq(BOOLEAN) /\ Len(posted) <= 2 /\ moves \in 0 .. MaxMoves
  /\ knows \subseteq Raw
  /\ handler \in [Clients -> {"away", "reading", "closing", "gone"}]
  /\ subs \subseteq Clients /\ {unsent, shut, left} \subseteq SUBSET Clients
  /\ \A c \in Clients : queue[c] \in Seq(Items) /\ Len(queue[c]) <= QueueMax
  /\ pump \in [Clients -> (Items \ {Close}) \cup {Waiting, Ended}]
  /\ offered \in [Clients -> 0 .. MaxLines]
  /\ seen \in [Clients -> [last : 0 .. MaxLines, told : {"none", "down", "both"}]]

SessionsInit ==
  /\ run = "tcp" /\ sockets = {} /\ working = FALSE
  /\ up = FALSE /\ posted = <<>> /\ moves = 0
  /\ knows \in SUBSET Raw
  /\ \E v \in Visits :
        /\ handler = [c \in Clients |-> IF c \in DOMAIN v THEN "away" ELSE "gone"]
        /\ offered = [c \in Clients |-> IF c \in DOMAIN v THEN v[c] ELSE 0]
  /\ subs = {} /\ unsent = {} /\ shut = {} /\ left = {}
  /\ queue = [c \in Clients |-> <<>>]
  /\ pump = [c \in Clients |-> Ended]
  /\ seen = [c \in Clients |-> [last |-> offered[c], told |-> "none"]]
-----------------------------------------------------------------------------
(***************************************************************************)
(* Subscriptions.                                                          *)
(***************************************************************************)
Full(c) == Len(queue[c]) = QueueMax

\* Mutant: every client loses its oldest item.
OfferedOldest(c, item) == Append(IF Full(c) THEN Tail(queue[c]) ELSE queue[c], item)

\* Subscription._offer: the backlog of a Stage client that is too slow becomes
\* a disconnection.
Offered(c, item) ==
  IF ~Full(c) THEN Append(queue[c], item)
  ELSE IF c \in Stage THEN <<Down, Up, item>>
  ELSE Append(Tail(queue[c]), item)

OfferTo(S, item(_)) ==
  queue' = [c \in Clients |-> IF c \in S THEN Offered(c, item(c)) ELSE queue[c]]

\* Mutant: the sentinel goes into a queue that is full.
ClosedAlways(S) ==
  [c \in Clients |-> IF c \in S THEN Append(queue[c], Close) ELSE queue[c]]

\* Subscription.close: the sentinel is lost if the queue is full.
Closed(S) ==
  [c \in Clients |-> IF c \in S /\ ~Full(c) THEN Append(queue[c], Close) ELSE queue[c]]

\* A line for every client, or the reply to one of them.
Line ==
  /\ \E S \in {subs} \cup {{c} : c \in subs} :
        /\ S # {} /\ \A c \in S : offered[c] < MaxLines
        /\ OfferTo(S, LAMBDA c : Numbered(offered[c] + 1))
        /\ offered' = [c \in Clients |-> IF c \in S THEN offered[c] + 1 ELSE offered[c]]
  /\ UNCHANGED <<hubVars, linkVars, clientVars, subs, pump, unsent, seen>>

LinkMoves ==
  /\ run \notin {"waiting", "leaving", "ended"}
  /\ posted = <<>> /\ moves < MaxMoves
  /\ up' = ~up /\ posted' = <<~up>> /\ moves' = moves + 1
  /\ UNCHANGED <<hubVars, clientVars, subs, streamVars, offered>>

\* Errors for requests that the link took down are lines before this one.
DispatchStatus ==
  /\ posted # <<>> /\ run # "ended"
  /\ OfferTo(subs \cap Stage, LAMBDA c : Status(Head(posted)))
  /\ posted' = Tail(posted)
  /\ UNCHANGED <<hubVars, up, moves, clientVars, subs, pump, unsent, seen, offered>>
-----------------------------------------------------------------------------
(***************************************************************************)
(* Clients and their handlers.                                             *)
(***************************************************************************)
\* A datagram that asks for the hub in the right words is answered.
Datagrams == [type : {"BOSUN_DISCOVER", "other"}, version : {1, 2}, nonce : {"fit", "unfit"}]
Request == [type |-> "BOSUN_DISCOVER", version |-> 1, nonce |-> "fit"]

Discover(c) ==
  /\ "udp" \in sockets /\ handler[c] = "away"
  /\ \E d \in Datagrams : knows' = IF d = Request THEN knows \cup {c} ELSE knows
  /\ UNCHANGED <<run, sockets, working, linkVars, clientVars, subs, streamVars, offered>>

Connect(c) ==
  /\ handler[c] = "away" /\ SocketOf(c) \in sockets
  /\ c \in Raw => c \in knows
  /\ handler' = [handler EXCEPT ![c] = "reading"]
  /\ subs' = subs \cup {c}
  /\ OfferTo({c} \cap Stage, LAMBDA d : Status(up))
  /\ pump' = [pump EXCEPT ![c] = Waiting]
  /\ UNCHANGED <<hubVars, linkVars, shut, left, unsent, seen, offered>>

PumpTakes(c) ==
  /\ pump[c] = Waiting /\ queue[c] # <<>>
  /\ queue' = [queue EXCEPT ![c] = Tail(@)]
  /\ pump' = [pump EXCEPT ![c] = IF Head(queue[c]) = Close THEN Ended ELSE Head(queue[c])]
  /\ UNCHANGED <<hubVars, linkVars, clientVars, subs, unsent, seen, offered>>

PumpSent(c) ==
  /\ pump[c] \in Items /\ c \notin unsent \cup shut \cup left
  /\ unsent' = unsent \cup {c}
  /\ seen' = [seen EXCEPT ![c] = SeenAfter(@, pump[c])]
  /\ pump' = [pump EXCEPT ![c] = Waiting]
  /\ UNCHANGED <<hubVars, linkVars, clientVars, subs, queue, offered>>

\* The connection is closing: what is written is dropped, or the write raises.
PumpLoses(c) ==
  /\ pump[c] \in Items /\ c \in shut \cup left
  /\ \E s \in {Waiting, Ended} : pump' = [pump EXCEPT ![c] = s]
  /\ UNCHANGED <<hubVars, linkVars, clientVars, subs, queue, unsent, seen, offered>>

ClientTakes(c) ==
  /\ c \in unsent
  /\ unsent' = unsent \ {c}
  /\ UNCHANGED <<hubVars, linkVars, clientVars, subs, queue, pump, seen, offered>>

ClientLeaves(c) ==
  /\ handler[c] \in {"reading", "closing"} /\ c \notin left
  /\ left' = left \cup {c} /\ unsent' = unsent \ {c}
  /\ UNCHANGED <<hubVars, linkVars, handler, shut, subs, queue, pump, seen, offered>>

\* The end of a handler: the WebSocket library closes the connection after it,
\* the TCP handler waits until it is closed.
EndSession(c) ==
  /\ handler[c] = "reading"
  /\ subs' = subs \ {c} /\ queue' = Closed({c})
  /\ pump' = [pump EXCEPT ![c] = Ended]
  /\ shut' = shut \cup {c}
  /\ handler' = [handler EXCEPT ![c] = IF c \in Stage THEN "gone" ELSE "closing"]
  /\ UNCHANGED <<hubVars, linkVars, left, unsent, seen, offered>>

\* Reading fails or ends; a TCP connection the hub closes is flushed first, and
\* a WebSocket that does not answer the close is dropped.
ReadEnds(c) ==
  /\ \/ c \in left \/ run = "leaving"
     \/ c \in shut /\ (c \in Stage \/ c \notin unsent)
  /\ EndSession(c)

\* A line over the limit ends the session of a client that is still there.
LineTooLong(c) == c \notin shut \cup left /\ EndSession(c)

ConnectionClosed(c) ==
  /\ handler[c] = "closing"
  /\ c \notin unsent \/ c \in left \/ run = "leaving"
  /\ handler' = [handler EXCEPT ![c] = "gone"]
  /\ UNCHANGED <<hubVars, linkVars, shut, left, subs, streamVars, offered>>
-----------------------------------------------------------------------------
(***************************************************************************)
(* server.run.                                                             *)
(***************************************************************************)
\* A hub without discovery, and one without a bundle to serve, go on.
Bind ==
  /\ run \in Starting
  /\ run' = After[run]
  /\ \/ sockets' = sockets \cup {run}
     \/ run \in {"udp", "http"} /\ UNCHANGED sockets
  /\ UNCHANGED <<working, knows, linkVars, clientVars, subs, streamVars, offered>>

UpdateMoves ==
  /\ working \/ run = "serving"
  /\ working' = ~working
  /\ UNCHANGED <<run, sockets, knows, linkVars, clientVars, subs, streamVars, offered>>

\* The first half of its finally.  The WebSocket server closes its connections.
CloseServers ==
  /\ run' = "draining"
  /\ sockets' = {"closing udp" : s \in sockets \cap {"udp"}}
  /\ shut' = IF "ws" \in sockets THEN shut \cup {c \in Stage : handler[c] = "reading"} ELSE shut
  /\ UNCHANGED <<working, knows, linkVars, handler, left, subs, streamVars, offered>>

BindFails == run \in Starting \ {"udp"} /\ CloseServers
Cancelled == run \in Starting \cup {"serving"} /\ CloseServers

DiscoveryLost ==
  /\ "closing udp" \in sockets
  /\ sockets' = {}
  /\ UNCHANGED <<run, working, knows, linkVars, clientVars, subs, streamVars, offered>>

StopHub ==
  /\ run = "draining" /\ ~working
  /\ run' = "waiting"
  /\ up' = FALSE /\ posted' = IF up THEN Append(posted, FALSE) ELSE posted
  /\ queue' = Closed(subs) /\ subs' = {}
  /\ UNCHANGED <<sockets, working, knows, moves, handler, left, pump, unsent, seen, offered>>

\* Mutant: idle desktops are waited for.
DrainedOnly == StopHub /\ UNCHANGED shut

\* Its second half, once the update is over.
Drained ==
  /\ StopHub
  /\ shut' = shut \cup {c \in Raw : handler[c] \in {"reading", "closing"}}

\* A second signal while it waits: the rest is left to the end of the loop,
\* which cancels every handler.
CancelledAgain ==
  /\ run \in {"draining", "waiting"}
  /\ run' = "leaving"
  /\ UNCHANGED <<sockets, working, knows, linkVars, clientVars, subs, streamVars, offered>>

Finish ==
  /\ \/ run = "waiting" /\ "closing udp" \notin sockets
     \/ run = "leaving" /\ ~working
  /\ \A c \in Clients : handler[c] \in {"away", "gone"}
  /\ run' = "ended" /\ sockets' = {}
  /\ UNCHANGED <<working, knows, linkVars, clientVars, subs, streamVars, offered>>

SessionsNext ==
  \/ Line \/ LinkMoves \/ DispatchStatus
  \/ Bind \/ BindFails \/ UpdateMoves \/ Cancelled \/ DiscoveryLost \/ Drained \/ CancelledAgain
  \/ Finish
  \/ \E c \in Raw : Discover(c)
  \/ \E c \in Clients :
        \/ Connect(c) \/ PumpTakes(c) \/ PumpSent(c) \/ PumpLoses(c) \/ ClientTakes(c)
        \/ ClientLeaves(c) \/ ReadEnds(c) \/ LineTooLong(c) \/ ConnectionClosed(c)

SessionsLoop ==
  \/ DiscoveryLost \/ Drained \/ Finish
  \/ \E c \in Clients : ReadEnds(c) \/ ConnectionClosed(c)

\* The loop goes on while something is ready; an update ends (UpdateService); the
\* clients that stay connected go on reading.
SessionsFairness ==
  /\ WF_sessionVars(SessionsLoop) /\ WF_sessionVars(working /\ UpdateMoves)
  /\ WF_sessionVars(\E c \in Clients : ClientTakes(c))

SessionsSpec == SessionsInit /\ [][SessionsNext]_sessionVars /\ SessionsFairness
-----------------------------------------------------------------------------
\* A Stage client whose stream leaves out lines is told of a lost link and of a
\* new one before the next line (hub.py:105-115), so it reads everything again.
GapIsSeen ==
  [][\A c \in Stage : seen'[c].last # seen[c].last =>
        seen'[c].last = seen[c].last + 1 \/ seen[c].told = "both"]_seen

\* A hub that is told to stop, or cannot start, ends, with no subscription, no
\* connection and no socket left: a desktop that stays idle does not hold it
\* open (server.py:217-218), nor does a queue whose end marker was lost.
ShutdownEnds ==
  run \in {"draining", "waiting", "leaving"}
    ~> /\ run = "ended" /\ sockets = {} /\ subs = {}
       /\ \A c \in Clients : handler[c] \in {"away", "gone"} /\ pump[c] = Ended
=============================================================================
