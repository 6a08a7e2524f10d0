------------------------------ MODULE HubReads ------------------------------
(***************************************************************************)
(* The hub's keyed single flight and cache for GET_PATCH: how many browser *)
(* and TCP clients share one slow serial conversation with the Captain,    *)
(* and why none of them is ever shown a patch older than a change the hub  *)
(* had already passed on.                                                  *)
(*                                                                         *)
(* Four parties take steps.  The hub's asyncio thread runs the clients'    *)
(* sends, the timers and the callbacks posted to it.  The link thread ends *)
(* and opens serial sessions and posts lines and state changes to the      *)
(* asyncio thread, in order.  The Captain answers the lines of a session   *)
(* one at a time, in order.  Clients come and go.                          *)
(*                                                                         *)
(* What a key reads is the number of the last change made to it.  Several  *)
(* keys share a location: the empty profile name reads the active profile, *)
(* drafts included, and the profile's own name reads only what is saved.   *)
(***************************************************************************)
EXTENDS Naturals, Sequences, FiniteSets

CONSTANTS
  Subs,              \* the clients' subscriptions
  Requests,          \* the GET_PATCH requests the clients may make, each once
  Owner,             \* the subscription each request comes from
  Keys,              \* (profile, bank, slot)
  SavedKeys,         \* the keys with a profile name, which read a saved file
  Locations,         \* (bank, slot)
  LocOf,             \* the location a key names
  WireMax,           \* lines the link queues before it refuses more
  WaitersMax,        \* PATCH_WAITERS_MAX
  WaitersPerSubMax,  \* PATCH_WAITERS_PER_SUB_MAX
  MaxWrites,         \* bound on the changes and saves
  MaxSessions,       \* bound on the serial sessions opened
  MaxPosted,         \* bound on the callbacks pending when an event arrives
  LoopKeepsUp        \* the loop has run the end of a session before the next

ASSUME RequestsAssumption ==
  /\ Owner \in [Requests -> Subs]
  /\ LocOf \in [Keys -> Locations]
  /\ SavedKeys \subseteq Keys
ASSUME LimitsAssumption ==
  /\ {WireMax, WaitersMax, WaitersPerSubMax} \subseteq Nat \ {0}
  /\ {MaxWrites, MaxSessions, MaxPosted} \subseteq Nat
  /\ LoopKeepsUp \in BOOLEAN

VARIABLES
  link,       \* link.connected, which the link thread sets under its lock
  sessions,   \* sessions opened so far
  wire,       \* lines accepted for the Captain and not yet executed
  stored,     \* what the Captain would answer for each key
  writes,     \* the changes and saves numbered so far
  promised,   \* for each key, the last change passed on to the Captain (history)
  posted,     \* callbacks the link thread has posted to the asyncio thread
  subs,       \* Hub._subs
  cache,      \* Hub._patch_cache
  flight,     \* Hub._patch_flights, and in them Hub._patch_flight_ids
  seq,        \* Hub._patch_flight_seq
  tracked,    \* Hub._upstream_reads
  asked,      \* for each request, its key and what was promised for it then
  answer      \* what each request was answered with

captainVars == <<link, sessions, wire, stored, writes, promised>>
hubVars     == <<subs, cache, flight, seq, tracked>>
clientVars  == <<asked, answer>>
vars == <<captainVars, posted, hubVars, clientVars>>

-----------------------------------------------------------------------------
None     == [kind |-> "none"]
NotAsked == [kind |-> "no"]
Patch(v) == [kind |-> "patch", val |-> v]
\* An ERROR, whichever: link_down, link_busy, patch_busy, patch_timeout,
\* patch_protocol or the Captain's own.
Failed   == [kind |-> "error"]

\* A flight: the id of the read that is out, whether it can still be joined, who
\* waits for it and who waits for the one after it.  Id 0 is none.
Out(i, W) == [id |-> i, gate |-> "open", waiters |-> W, next |-> {}]
NoFlight == Out(0, {})

ReadLine(i, k)  == [type |-> "read", id |-> i, key |-> k]
WriteLine(K, n) == [type |-> "write", keys |-> K, n |-> n]

Reads    == [type : {"read"}, id : Nat, key : Keys]
Changes  == [type : {"write"}, keys : SUBSET Keys, n : Nat]
Replies  == [type : {"patch"}, id : Nat, val : Nat]
              \cup [type : {"error"}, id : Nat]
Notices  == [type : {"down"}] \cup [type : {"switched"}, loc : Locations]
Outcomes == [kind : {"patch"}, val : Nat] \cup {Failed}
Flights  == [id : 0 .. seq, gate : {"open", "sealed"},
             waiters : SUBSET Requests, next : SUBSET Requests]
Asking   == [kind : {"asked"}, key : Keys, promised : Nat]

TypeOK ==
  /\ link \in {"up", "down"}
  /\ sessions \in Nat /\ writes \in Nat /\ seq \in Nat
  /\ wire \in Seq(Reads \cup Changes)
  /\ stored \in [Keys -> Nat]
  /\ promised \in [Keys -> Nat]
  /\ posted \in Seq(Replies \cup Notices)
  /\ subs \subseteq Subs
  /\ cache \in [Keys -> {None} \cup [kind : {"patch"}, val : Nat]]
  /\ flight \in [Keys -> Flights]
  /\ tracked \subseteq 1 .. seq
  /\ asked \in [Requests -> {NotAsked} \cup Asking]
  /\ answer \in [Requests -> {None} \cup Outcomes]

Init ==
  /\ link = "down"
  /\ sessions = 0
  /\ wire = <<>>
  /\ stored = [k \in Keys |-> 0]
  /\ writes = 0
  /\ promised = stored
  /\ posted = <<>>
  /\ subs = Subs
  /\ cache = [k \in Keys |-> None]
  /\ flight = [k \in Keys |-> NoFlight]
  /\ seq = 0
  /\ tracked = {}
  /\ asked = [r \in Requests |-> NotAsked]
  /\ answer = [r \in Requests |-> None]

-----------------------------------------------------------------------------
(* What the handlers are built from.                                       *)

InFlight(k) == flight[k].id # 0
WaitersOf(k) == flight[k].waiters \cup flight[k].next
AllWaiters == UNION {WaitersOf(k) : k \in Keys}
WaitersOfSub(s) == {r \in AllWaiters : Owner[r] = s}
Waiting(r) == asked[r] # NotAsked /\ answer[r] = None /\ Owner[r] \in subs

connected == link = "up"
LinkAccepts == connected /\ Len(wire) < WireMax

\* A count that lets one request too many in.
OneWaiterTooMany(s) ==
  \/ Cardinality(AllWaiters) > WaitersMax
  \/ Cardinality(WaitersOfSub(s)) > WaitersPerSubMax
TooManyWaiters(s) ==
  \/ Cardinality(AllWaiters) >= WaitersMax
  \/ Cardinality(WaitersOfSub(s)) >= WaitersPerSubMax

\* _patch_flight_seq never gives an id twice.
SameSeq == seq
NextSeq == seq + 1

\* A reply is worth keeping, and a flight worth joining, until its seal.
EvenIfSealed(k) == TRUE
Joinable(k) == flight[k].gate = "open"
Keepable(k) == flight[k].gate = "open"

\* Every flight a request is out for, at these locations, takes no more waiters.
Sealed(f, S) ==
  [k \in Keys |-> IF LocOf[k] \in S /\ f[k].id # 0
                  THEN [f[k] EXCEPT !.gate = "sealed"] ELSE f[k]]

\* A generation that ends and forgets those who wait for the next.
FinishForgetsNext(k, outcome, finished) ==
  /\ answer' = [r \in Requests |-> IF r \in flight[k].waiters THEN outcome
                                   ELSE answer[r]]
  /\ flight' = [flight EXCEPT ![k] = NoFlight]
  /\ tracked' = tracked \ finished
  /\ UNCHANGED <<seq, wire>>

\* The generation ends: its waiters get the outcome, and those who came after
\* the seal become the waiters of a new request, unless the link refuses it.
Finish(k, outcome, finished) ==
  LET f == flight[k]
      restart == f.next # {} /\ LinkAccepts
  IN /\ answer' = [r \in Requests |->
                     IF r \in f.waiters THEN outcome
                     ELSE IF r \in f.next /\ ~restart THEN Failed
                     ELSE answer[r]]
     /\ seq' = IF f.next = {} THEN seq ELSE NextSeq
     /\ flight' = [flight EXCEPT ![k] =
                     IF restart THEN Out(seq + 1, f.next) ELSE NoFlight]
     /\ tracked' = (tracked \ finished) \cup (IF restart THEN {seq + 1} ELSE {})
     /\ wire' = IF restart THEN Append(wire, ReadLine(seq + 1, k)) ELSE wire

-----------------------------------------------------------------------------
(* The asyncio thread: a client's line arrives.                            *)

\* A client that has not closed its subscription asks for a patch.
Asks(r, k) ==
  /\ Owner[r] \in subs
  /\ asked[r] = NotAsked
  /\ asked' = [asked EXCEPT ![r] = [kind |-> "asked", key |-> k,
                                    promised |-> promised[k]]]

\* _queue_patch_request answers at once: no link, a cached patch, or too many
\* requests waiting already.
AnswerAtOnce(r, k) ==
  /\ Asks(r, k)
  /\ \/ /\ ~connected
        /\ answer' = [answer EXCEPT ![r] = Failed]
     \/ /\ connected
        /\ cache[k] # None
        /\ answer' = [answer EXCEPT ![r] = cache[k]]
     \/ /\ connected
        /\ cache[k] = None
        /\ TooManyWaiters(Owner[r])
        /\ answer' = [answer EXCEPT ![r] = Failed]
  /\ UNCHANGED <<captainVars, posted, hubVars>>

MustRead(r, k) ==
  connected /\ cache[k] = None /\ ~TooManyWaiters(Owner[r])

JoinFlight(r, k) ==
  /\ Asks(r, k)
  /\ MustRead(r, k)
  /\ InFlight(k)
  /\ flight' = IF Joinable(k)
               THEN [flight EXCEPT ![k].waiters = @ \cup {r}]
               ELSE [flight EXCEPT ![k].next = @ \cup {r}]
  /\ UNCHANGED <<captainVars, posted, subs, cache, seq, tracked, answer>>

StartFlight(r, k) ==
  /\ Asks(r, k)
  /\ MustRead(r, k)
  /\ ~InFlight(k)
  /\ LinkAccepts
  /\ seq' = NextSeq
  /\ flight' = [flight EXCEPT ![k] = Out(seq + 1, {r})]
  /\ tracked' = tracked \cup {seq + 1}
  /\ wire' = Append(wire, ReadLine(seq + 1, k))
  /\ UNCHANGED <<link, sessions, stored, writes, promised, posted, subs, cache,
                 answer>>

\* The link refuses the line: _start_patch_flight fails the flight it has begun.
RefusedFlight(r, k) ==
  /\ Asks(r, k)
  /\ MustRead(r, k)
  /\ ~InFlight(k)
  /\ ~LinkAccepts
  /\ seq' = NextSeq
  /\ answer' = [answer EXCEPT ![r] = Failed]
  /\ UNCHANGED <<captainVars, posted, subs, cache, flight, tracked>>

\* Before a change to the patches of S is passed on, the hub forgets what it knows
\* of them and seals the flights that are out for them.
Forget(S) ==
  /\ subs # {}
  /\ writes < MaxWrites
  /\ writes' = writes + 1
  /\ cache' = [k \in Keys |-> IF LocOf[k] \in S THEN None ELSE cache[k]]
  /\ flight' = Sealed(flight, S)
  /\ UNCHANGED <<link, sessions, stored, posted, subs, seq, tracked, clientVars>>

KeysAt(S) == {k \in Keys : LocOf[k] \in S}

\* K is what the change changes there: a draft, a saved file, both, or nothing
\* when the Captain refuses it.
Write(S, K) ==
  /\ Forget(S)
  /\ LinkAccepts
  /\ K \subseteq KeysAt(S)
  /\ wire' = Append(wire, WriteLine(K, writes + 1))
  /\ promised' = [k \in Keys |-> IF k \in K THEN writes + 1 ELSE promised[k]]

\* The link, or the limit on requests, refuses the change.
RefusedWrite(S) == Forget(S) /\ UNCHANGED <<wire, promised>>

\* SWITCH_PATCH changes no patch: it only ends the joining of flights.
SwitchPatch(S) ==
  /\ subs # {}
  /\ flight' = Sealed(flight, S)
  /\ UNCHANGED <<captainVars, posted, subs, cache, seq, tracked, clientVars>>

CloseSub(s) ==
  /\ s \in subs
  /\ subs' = subs \ {s}
  /\ flight' = [k \in Keys |->
                  [flight[k] EXCEPT !.waiters = {r \in @ : Owner[r] # s},
                                    !.next = {r \in @ : Owner[r] # s}]]
  /\ UNCHANGED <<captainVars, posted, cache, seq, tracked, clientVars>>

\* The client's deadline does not withdraw the read the Captain has queued.
Timeout(k) ==
  /\ InFlight(k)
  /\ Finish(k, Failed, {})
  /\ UNCHANGED <<link, sessions, stored, writes, promised, posted,
                 subs, cache, asked>>

-----------------------------------------------------------------------------
(* The asyncio thread: it runs the first callback posted to it.            *)

NextIs(type) ==
  /\ posted # <<>>
  /\ Head(posted).type = type
  /\ posted' = Tail(posted)

FlightOf(i) == {k \in Keys : flight[k].id = i}

\* A late reply that is only dropped.
DropReplyOnly ==
  /\ \E type \in {"patch", "error"} : NextIs(type)
  /\ FlightOf(Head(posted).id) = {}
  /\ UNCHANGED <<captainVars, hubVars, clientVars>>

\* A reply ends the tracking of its read even when nobody waits for it.
DropReply ==
  /\ \E type \in {"patch", "error"} : NextIs(type)
  /\ FlightOf(Head(posted).id) = {}
  /\ tracked' = tracked \ {Head(posted).id}
  /\ UNCHANGED <<captainVars, subs, cache, flight, seq, clientVars>>

TakePatch ==
  /\ NextIs("patch")
  /\ \E k \in FlightOf(Head(posted).id) :
       /\ cache' = IF Keepable(k)
                   THEN [cache EXCEPT ![k] = Patch(Head(posted).val)]
                   ELSE cache
       /\ Finish(k, Patch(Head(posted).val), {Head(posted).id})
  /\ UNCHANGED <<link, sessions, stored, writes, promised, subs, asked>>

\* The Captain's ERROR, or a reply that is partial, for another key, or no PATCH.
TakeError ==
  /\ NextIs("error")
  /\ \E k \in FlightOf(Head(posted).id) : Finish(k, Failed, {Head(posted).id})
  /\ UNCHANGED <<link, sessions, stored, writes, promised, subs, cache,
                 asked>>

SeePatchSwitched ==
  /\ NextIs("switched")
  /\ flight' = Sealed(flight, {Head(posted).loc})
  /\ UNCHANGED <<captainVars, subs, cache, seq, tracked, clientVars>>

\* The end of a session that fails the generation that is out, and only that one.
SeeDownFailsCurrent ==
  /\ NextIs("down")
  /\ cache' = [k \in Keys |-> None]
  /\ answer' = [r \in Requests |->
                  IF r \in UNION {flight[k].waiters : k \in Keys} THEN Failed
                  ELSE answer[r]]
  /\ flight' = [k \in Keys |-> NoFlight]
  /\ tracked' = {}
  /\ UNCHANGED <<captainVars, subs, seq, asked>>

SeeDown ==
  /\ NextIs("down")
  /\ cache' = [k \in Keys |-> None]
  /\ answer' = [r \in Requests |-> IF r \in AllWaiters THEN Failed
                                   ELSE answer[r]]
  /\ flight' = [k \in Keys |-> NoFlight]
  /\ tracked' = {}
  /\ UNCHANGED <<captainVars, subs, seq, asked>>

-----------------------------------------------------------------------------
(* The link thread and the Captain.                                        *)

\* The hub only tells its clients that the link is up.
SessionStarts ==
  /\ ~connected
  /\ sessions < MaxSessions
  /\ LoopKeepsUp => \A i \in DOMAIN posted : posted[i].type # "down"
  /\ link' = "up"
  /\ sessions' = sessions + 1
  /\ UNCHANGED <<wire, stored, writes, promised, posted, hubVars, clientVars>>

\* Lines not yet executed die with the session, and so do their promises.
SessionEnds ==
  /\ connected
  /\ link' = "down"
  /\ wire' = <<>>
  /\ promised' = [k \in Keys |-> IF k \in SavedKeys /\ promised[k] <= stored[k]
                                 THEN promised[k] ELSE stored[k]]
  /\ posted' = Append(posted, [type |-> "down"])
  /\ UNCHANGED <<sessions, stored, writes, hubVars, clientVars>>

ExecuteRead ==
  /\ wire # <<>>
  /\ Head(wire).type = "read"
  /\ wire' = Tail(wire)
  /\ LET i == Head(wire).id
         v == stored[Head(wire).key]
     IN \/ posted' = Append(posted, [type |-> "patch", id |-> i, val |-> v])
        \/ posted' = Append(posted, [type |-> "error", id |-> i])
  /\ UNCHANGED <<link, sessions, stored, writes, promised, hubVars,
                 clientVars>>

ExecuteWrite ==
  /\ wire # <<>>
  /\ Head(wire).type = "write"
  /\ wire' = Tail(wire)
  /\ stored' = [k \in Keys |-> IF k \in Head(wire).keys THEN Head(wire).n
                               ELSE stored[k]]
  /\ UNCHANGED <<link, sessions, writes, promised, posted, hubVars,
                 clientVars>>

\* A foot on the pedal changes the current patch, and the Captain says so.
PedalSwitches(l) ==
  /\ connected
  /\ Len(posted) < MaxPosted
  /\ posted' = Append(posted, [type |-> "switched", loc |-> l])
  /\ UNCHANGED <<captainVars, hubVars, clientVars>>

\* The Captain saves a draft, on SAVE_NOW or by itself some seconds after the edit:
\* a named key of the active profile now reads the draft's contents.
SavesDraft(k) ==
  /\ k \in SavedKeys
  /\ writes < MaxWrites
  /\ writes' = writes + 1
  /\ stored' = [stored EXCEPT ![k] = writes + 1]
  /\ UNCHANGED <<link, sessions, wire, promised, posted, hubVars, clientVars>>

\* Unplugged from the hub, the Captain is edited by another editor.  People take
\* longer than the callbacks the loop has pending.
EditedElsewhere(k) ==
  /\ ~connected
  /\ posted = <<>>
  /\ writes < MaxWrites
  /\ writes' = writes + 1
  /\ stored' = [stored EXCEPT ![k] = writes + 1]
  /\ promised' = [promised EXCEPT ![k] = writes + 1]
  /\ UNCHANGED <<link, sessions, wire, posted, hubVars, clientVars>>

-----------------------------------------------------------------------------
Dispatch == DropReply \/ TakePatch \/ TakeError \/ SeePatchSwitched
              \/ SeeDown

\* A mutation names one bank and slot, or none and so all of them.
Selections == {{l} : l \in Locations} \cup {Locations}

ClientStep ==
  \/ \E r \in Requests, k \in Keys :
       \/ AnswerAtOnce(r, k)
       \/ JoinFlight(r, k)
       \/ StartFlight(r, k)
       \/ RefusedFlight(r, k)
  \/ \E S \in Selections :
       \/ \E K \in SUBSET Keys : Write(S, K)
       \/ RefusedWrite(S)
       \/ SwitchPatch(S)
  \/ \E s \in Subs : CloseSub(s)

CaptainStep ==
  \/ SessionStarts
  \/ SessionEnds
  \/ ExecuteRead
  \/ ExecuteWrite
  \/ \E l \in Locations : PedalSwitches(l)
  \/ \E k \in Keys : SavesDraft(k) \/ EditedElsewhere(k)

Next ==
  \/ ClientStep
  \/ \E k \in Keys : Timeout(k)
  \/ Dispatch
  \/ CaptainStep

Spec == Init /\ [][Next]_vars

\* The event loop runs what was posted to it and the timers that are due; the
\* Captain and the link promise nothing.
Fairness ==
  /\ WF_vars(Dispatch)
  /\ \A k \in Keys : WF_vars(Timeout(k))

FairSpec == Spec /\ Fairness
-----------------------------------------------------------------------------
(* What makes it correct.                                                  *)

\* The hub never keeps a patch older than a change it has passed on, nor one from
\* before the Captain was edited elsewhere: _prepare_patch_mutation forgets before
\* it forwards, and _consume_patch_reply keeps nothing for a sealed flight.
CacheFresh ==
  \A k \in Keys : cache[k] # None => cache[k].val >= promised[k]

\* With a session up and nothing on its way, what the hub keeps for the active
\* profile is what the Captain would answer, drafts and all.
Quiet == connected /\ wire = <<>> /\ posted = <<>>
CurrentFor(K) ==
  Quiet => \A k \in K : cache[k] # None => cache[k].val = stored[k]
ActiveCacheCurrent == CurrentFor(Keys \ SavedKeys)

\* The same for every key: the hub never exposes a stale patch (hub.py:363-366).
\* A saved draft is no change to it, so a named key it keeps goes stale.
CacheCurrent == CurrentFor(Keys)

\* Through joins, seals, timeouts, refusals, closed clients and lost sessions, a
\* client that has no answer yet is a waiter of exactly the flight of its key, and
\* nobody else is.
NoLostWaiter ==
  \A r \in Requests, k \in Keys :
    r \in WaitersOf(k) <=> Waiting(r) /\ asked[r].key = k

\* The limits of _queue_patch_request hold for all flights and generations
\* together, counted again at every request.
WaiterLimits ==
  /\ Cardinality(AllWaiters) <= WaitersMax
  /\ \A s \in Subs : Cardinality(WaitersOfSub(s)) <= WaitersPerSubMax

IdsOf(lines) == {lines[i].id : i \in {j \in DOMAIN lines : lines[j].type \notin
                   {"write", "down", "switched"}}}
DownPending == \E i \in DOMAIN posted : posted[i].type = "down"

\* The hub follows a read from the moment it is sent until the Captain answers it
\* or the session ends, even after its client gave up on it: a firmware update
\* waits for these before it takes the serial port (hub.py:57-59).
TrackedUntilAnswered == IdsOf(wire) \cup IdsOf(posted) \subseteq tracked \/ DownPending

\* And it follows none whose answer, or the end of its session, is not still to
\* come: one followed for ever would keep every firmware update out (hub.py:816).
FollowedIsOwed ==
  /\ TrackedUntilAnswered
  /\ tracked \subseteq IdsOf(wire) \cup IdsOf(posted) \/ DownPending

\* Every client that waits and does not close is answered, whatever the Captain,
\* the link and the other clients do: generations end by reply, by timeout or by
\* the end of the session.
EveryWaiterAnswered == \A r \in Requests : Waiting(r) ~> ~Waiting(r)

\* The cache, the single flight and the sessions are invisible to a client that
\* asks for a patch: each request is answered at most once, by an error or by
\* contents no older than what was promised when it asked.
Fresh == INSTANCE FreshReads
ReadsAreFresh == Fresh!Spec
=============================================================================
