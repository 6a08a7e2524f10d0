----------------------------- MODULE HubRequests -----------------------------
(***************************************************************************)
(* What the hub does with every request but a canonical GET_PATCH: it puts *)
(* an id of its own in place of the client's, gives the reply back to the  *)
(* client that asked, lets clients that ask for the context at the same    *)
(* time share one snapshot, and follows the reads the Captain still owes.  *)
(*                                                                         *)
(* The asyncio thread runs the clients' sends, the timers and what the     *)
(* link thread has posted, in order; the Captain serves the lines of a     *)
(* session in order.  What the context shows is the set of the changes the *)
(* Captain has made so far.                                                *)
(***************************************************************************)
EXTENDS Naturals, Sequences, FiniteSets

CONSTANTS
  Subs,               \* the clients' subscriptions
  Requests,           \* the requests the clients may make, each once
  Owner,              \* the subscription each request comes from
  KindOf,             \* what each request is
  Batches,            \* sets of requests: those of one are made
  Changes,            \* the changes clients ask for and the Captain makes
  NoChange,           \* no change
  NoRequest,          \* a line that is no client's request
  WireMax,            \* lines the link queues before it refuses more
  RequestsMax,        \* REQUESTS_MAX
  RequestsPerSubMax,  \* REQUESTS_PER_SUB_MAX
  ContextMax,         \* CONTEXT_WAITERS_MAX
  ContextPerSubMax,   \* CONTEXT_WAITERS_PER_SUB_MAX
  MaxSessions,        \* bound on the serial sessions opened
  MaxPosted           \* bound on the callbacks pending when a line arrives

\* A canonical GET_CONTEXT; a tracked read with an id, and one without, whose
\* reply is for everybody; any other request with an id, which may change
\* something.
Kinds == {"context", "read", "open", "command"}

ASSUME RequestsAssumption ==
  /\ Owner \in [Requests -> Subs]
  /\ KindOf \in [Requests -> Kinds]
  /\ Batches \subseteq SUBSET Requests
ASSUME NamesAssumption == NoChange \notin Changes /\ NoRequest \notin Requests
ASSUME BoundsAssumption ==
  {WireMax, RequestsMax, RequestsPerSubMax, ContextMax, ContextPerSubMax,
   MaxSessions, MaxPosted} \subseteq Nat

VARIABLES
  link,         \* "up", "down", or "off" once the hub is stopped
  sessions,     \* sessions opened so far
  wire,         \* lines accepted for the Captain and not yet served
  made,         \* the changes the Captain has made
  passed,       \* the changes the hub has passed on or reported (history)
  posted,       \* callbacks the link thread has posted to the asyncio thread
  subs,         \* Hub._subs
  maintenance,  \* updates.maintenance
  flight,       \* Hub._context_flight_id, its gate and both lists of waiters
  pending,      \* Hub._request_pending
  index,        \* Hub._request_ids_by_sub
  seq,          \* Hub._context_flight_seq and Hub._request_seq
  tracked,      \* Hub._upstream_reads
  call,         \* each request: not made, not answered yet, or answered
  due,          \* what had been passed on when it was made (history)
  said          \* the answers given in the last step

captainVars == <<link, sessions, wire, made, passed>>
contextVars == <<flight>>
requestVars == <<pending, index>>
clientVars  == <<call, due, said>>
waitingVars == <<call, due>>
vars == <<captainVars, posted, subs, maintenance, contextVars, requestVars, seq,
          tracked, clientVars>>

-----------------------------------------------------------------------------
\* The ids the hub makes up, with a prefix for the snapshots and one for the rest.
Id(prefix, n) == <<prefix, n>>
NoId == Id("none", 0)
Ids == {"ctx", "req"} \X Nat

Failed   == [kind |-> "error"]
Own(r)   == [kind |-> "own", of |-> r]
Context(S) == [kind |-> "context", val |-> S]
Outcomes == {Failed} \cup [kind : {"own"}, of : Requests]
              \cup [kind : {"context"}, val : SUBSET Changes]

Line(i, r, c) == [id |-> i, of |-> r, change |-> c]
Lines == [id : Ids \cup {NoId}, of : Requests \cup {NoRequest},
          change : Changes \cup {NoChange}]
Replies == [type : {"reply"}, id : Ids, of : Requests \cup {NoRequest},
            val : SUBSET Changes] \cup [type : {"error"}, id : Ids]
Notices == [type : {"push"}, val : SUBSET Changes] \cup [type : {"down"}]

Snapshot(i, W) == [id |-> i, gate |-> "open", waiters |-> W, next |-> {}]
NoFlight == Snapshot(NoId, {})

TypeOK ==
  /\ link \in {"up", "down", "off"} /\ sessions \in Nat
  /\ wire \in Seq(Lines)
  /\ made \subseteq Changes /\ passed \subseteq Changes
  /\ posted \in Seq(Replies \cup Notices)
  /\ subs \subseteq Subs /\ maintenance \in BOOLEAN
  /\ flight \in [id : Ids \cup {NoId}, gate : {"open", "sealed"},
                 waiters : SUBSET Requests, next : SUBSET Requests]
  /\ pending \subseteq [id : {"req"} \X (1 .. seq.req), req : Requests, mine : BOOLEAN]
  /\ index \in [Subs -> SUBSET ({"req"} \X (1 .. seq.req))]
  /\ seq \in [ctx : Nat, req : Nat]
  /\ tracked \subseteq {<<"ctx", n>> : n \in 1 .. seq.ctx}
                         \cup {<<"req", n>> : n \in 1 .. seq.req}
  /\ call \in [Requests -> {"new", "waiting", "done"}]
  /\ due \in [Requests -> SUBSET Changes]
  /\ said \subseteq [req : Requests, outcome : Outcomes]

Init ==
  /\ link = "down" /\ sessions = 0 /\ wire = <<>> /\ posted = <<>>
  /\ made = {} /\ passed = {}
  /\ subs = Subs
  /\ maintenance = FALSE
  /\ flight = NoFlight
  /\ pending = {} /\ index = [s \in Subs |-> {}]
  /\ seq = [ctx |-> 0, req |-> 0]
  /\ tracked = {}
  /\ \E B \in Batches :
       call = [r \in Requests |-> IF r \in B THEN "new" ELSE "done"]
  /\ due = [r \in Requests |-> {}]
  /\ said = {}

-----------------------------------------------------------------------------
(* What the handlers are built from.                                       *)

connected == link = "up"
LinkAccepts == connected /\ Len(wire) < WireMax

InFlight == flight # NoFlight
AllWaiters == flight.waiters \cup flight.next
OfSub(s, R) == {r \in R : Owner[r] = s}

TooManyWaiters(s) ==
  \/ Cardinality(AllWaiters) >= ContextMax
  \/ Cardinality(OfSub(s, AllWaiters)) >= ContextPerSubMax
TooManyRequests(s) ==
  \/ Cardinality(pending) >= RequestsMax
  \/ Cardinality(index[s]) >= RequestsPerSubMax

TooMany(r) ==
  IF KindOf[r] = "context" THEN TooManyWaiters(Owner[r]) ELSE TooManyRequests(Owner[r])

\* A snapshot that a barrier does not close.
NeverSealed(f) == f
Sealed(f) == IF f = NoFlight THEN f ELSE [f EXCEPT !.gate = "sealed"]
SealedBy(r) == IF KindOf[r] = "command" THEN Sealed(flight) ELSE flight

\* The id on the wire is the hub's own; a mutant lags behind.
LastId(s) == Id("req", seq.req)
PrivateId(s) == Id("req", seq.req + 1)

Say(R, outcome) == {[req |-> r, outcome |-> outcome] : r \in R}
Answer(A) ==
  LET R == {a.req : a \in A}
  IN /\ said' = A
     /\ call' = [r \in Requests |-> IF r \in R THEN "done" ELSE call[r]]
     /\ due' = [r \in Requests |-> IF r \in R THEN {} ELSE due[r]]
Silent == said' = {}

\* _take_request: out of the table and out of the index of its subscription; mutant,
\* out of the table only.
OnlyOutOfTheTable(p) == pending' = pending \ {p} /\ UNCHANGED index
Without(p) ==
  /\ pending' = pending \ {p}
  /\ index' = [s \in Subs |-> IF s = Owner[p.req] /\ p.mine
                              THEN index[s] \ {p.id} ELSE index[s]]

\* The snapshot ends: its waiters get the outcome, and those that came after the
\* seal start another, unless the link refuses it.
FinishForgetsNext(outcome, finished) ==
  /\ Answer(Say(flight.waiters, outcome))
  /\ flight' = NoFlight
  /\ tracked' = tracked \ finished
  /\ UNCHANGED <<seq, wire>>

Finish(outcome, finished) ==
  LET sent == flight.next # {} /\ LinkAccepts
      id == Id("ctx", seq.ctx + 1)
  IN /\ Answer(Say(flight.waiters, outcome)
                 \cup IF sent THEN {} ELSE Say(flight.next, Failed))
     /\ seq' = IF sent THEN [seq EXCEPT !.ctx = @ + 1] ELSE seq
     /\ flight' = IF sent THEN Snapshot(id, flight.next) ELSE NoFlight
     /\ tracked' = (tracked \ finished) \cup (IF sent THEN {id} ELSE {})
     /\ wire' = IF sent THEN Append(wire, Line(id, NoRequest, NoChange)) ELSE wire

-----------------------------------------------------------------------------
(* The asyncio thread: a client's line arrives (Hub._send).                *)

Asks(r) == Owner[r] \in subs /\ call[r] = "new"

Waits(r) ==
  /\ call' = [call EXCEPT ![r] = "waiting"]
  /\ due' = [due EXCEPT ![r] = passed]
  /\ Silent
Refuse(r) == Answer(Say({r}, Failed))

\* Nothing of a client goes through while an update owns the Captain.
InMaintenance(r) ==
  /\ Asks(r)
  /\ maintenance
  /\ Refuse(r)
  /\ UNCHANGED <<captainVars, posted, subs, maintenance, flight, requestVars,
                 seq, tracked>>

\* No link, or too many requests already.  A change ends the joining of the
\* snapshot that is out even so.
RefusedAtOnce(r) ==
  /\ Asks(r)
  /\ ~maintenance
  /\ ~connected \/ TooMany(r)
  /\ Refuse(r)
  /\ flight' = SealedBy(r)
  /\ UNCHANGED <<captainVars, posted, subs, maintenance, requestVars, seq, tracked>>

Accepted(r) == Asks(r) /\ ~maintenance /\ connected /\ ~TooMany(r)

JoinSnapshot(r) ==
  /\ Accepted(r) /\ KindOf[r] = "context"
  /\ InFlight
  /\ flight' = IF flight.gate = "open"
               THEN [flight EXCEPT !.waiters = @ \cup {r}]
               ELSE [flight EXCEPT !.next = @ \cup {r}]
  /\ Waits(r)
  /\ UNCHANGED <<captainVars, posted, subs, maintenance, requestVars, seq, tracked>>

StartSnapshot(r) ==
  /\ Accepted(r) /\ KindOf[r] = "context"
  /\ ~InFlight
  /\ LinkAccepts
  /\ LET id == Id("ctx", seq.ctx + 1)
     IN /\ flight' = Snapshot(id, {r})
        /\ tracked' = tracked \cup {id}
        /\ wire' = Append(wire, Line(id, NoRequest, NoChange))
  /\ seq' = [seq EXCEPT !.ctx = @ + 1]
  /\ Waits(r)
  /\ UNCHANGED <<link, sessions, made, passed, posted, subs, maintenance,
                 requestVars>>

Fresh(c) == c \in Changes /\ c \notin made \cup passed

\* A change the Captain may refuse: then the line carries none.
SendRequest(r, c) ==
  /\ Accepted(r)
  /\ KindOf[r] # "context"
  /\ c # NoChange => KindOf[r] = "command" /\ Fresh(c)
  /\ LinkAccepts
  /\ LET id == PrivateId(Owner[r])
     IN /\ pending' = pending \cup {[id |-> id, req |-> r, mine |-> TRUE]}
        /\ index' = [index EXCEPT ![Owner[r]] = @ \cup {id}]
        /\ tracked' = IF KindOf[r] = "command" THEN tracked ELSE tracked \cup {id}
        /\ wire' = Append(wire, Line(id, r, c))
  /\ seq' = [seq EXCEPT !.req = @ + 1]
  /\ flight' = SealedBy(r)
  /\ passed' = passed \cup ({c} \cap Changes)
  /\ Waits(r)
  /\ UNCHANGED <<link, sessions, made, posted, subs, maintenance>>

\* The link refuses the line: the number it would have had is left out.
RefusedLine(r) ==
  /\ Accepted(r)
  /\ KindOf[r] = "context" => ~InFlight
  /\ ~LinkAccepts
  /\ flight' = SealedBy(r)
  /\ Refuse(r)
  /\ UNCHANGED <<captainVars, posted, subs, maintenance, requestVars, seq, tracked>>

\* A change without an id is passed on as it is, or refused; its reply, if any, is
\* for everybody.
PassOn(c) ==
  /\ subs # {} /\ ~maintenance
  /\ Fresh(c)
  /\ flight' = Sealed(flight)
  /\ \/ /\ LinkAccepts
        /\ wire' = Append(wire, Line(NoId, NoRequest, c))
        /\ passed' = passed \cup {c}
     \/ /\ ~LinkAccepts
        /\ UNCHANGED <<wire, passed>>
  /\ Silent
  /\ UNCHANGED <<link, sessions, made, posted, subs, maintenance, requestVars,
                 seq, tracked, waitingVars>>

\* The read a closed client has sent for everybody stays.
IsOpenRead(p) == KindOf[p.req] = "open"
CloseSub(s) ==
  /\ s \in subs
  /\ subs' = subs \ {s}
  /\ flight' = [flight EXCEPT !.waiters = @ \ OfSub(s, @), !.next = @ \ OfSub(s, @)]
  /\ pending' = {p \in pending : Owner[p.req] # s}
                  \cup {[p EXCEPT !.mine = FALSE] :
                          p \in {q \in pending : Owner[q.req] = s /\ IsOpenRead(q)}}
  /\ index' = [index EXCEPT ![s] = {}]
  /\ Silent
  /\ UNCHANGED <<captainVars, posted, maintenance, seq, tracked, waitingVars>>

\* A timeout answers the client and withdraws nothing from the Captain.
SnapshotTimeout ==
  /\ InFlight
  /\ Finish(Failed, {})
  /\ UNCHANGED <<link, sessions, made, passed, posted, subs, maintenance,
                 requestVars>>

RequestTimeout(p) ==
  /\ p \in pending
  /\ Without(p)
  /\ Answer(Say({p.req}, Failed))
  /\ UNCHANGED <<captainVars, posted, subs, maintenance, flight, seq, tracked>>

\* An update begins.  What comes after is UpdateService's.
Maintenance ==
  /\ ~maintenance
  /\ link # "off"
  /\ maintenance' = TRUE
  /\ Silent
  /\ UNCHANGED <<captainVars, posted, subs, flight, requestVars, seq, tracked,
                 waitingVars>>

\* Hub.stop: nobody is answered any more, and every subscription is closed.
Stop ==
  /\ link # "off"
  /\ link' = "off"
  /\ wire' = <<>>
  /\ posted' = IF connected THEN Append(posted, [type |-> "down"]) ELSE posted
  /\ subs' = {}
  /\ flight' = NoFlight
  /\ pending' = {} /\ index' = [s \in Subs |-> {}]
  /\ tracked' = {}
  /\ Silent
  /\ UNCHANGED <<sessions, made, passed, maintenance, seq, waitingVars>>

-----------------------------------------------------------------------------
(* The asyncio thread: it runs the first callback posted to it.            *)

NextIs(type) ==
  /\ posted # <<>>
  /\ Head(posted).type = type
  /\ posted' = Tail(posted)
Prefix(id) == id[1]

\* A late reply: nobody waits for it, and the Captain owes it no longer.  Mutant:
\* it is only dropped.
DropOnly ==
  /\ \E type \in {"reply", "error"} : NextIs(type)
  /\ Head(posted).id # flight.id
  /\ \A p \in pending : p.id # Head(posted).id
  /\ Silent
  /\ UNCHANGED <<captainVars, subs, maintenance, flight, requestVars, seq, tracked,
                 waitingVars>>
DropLate ==
  /\ \E type \in {"reply", "error"} : NextIs(type)
  /\ Head(posted).id # flight.id
  /\ \A p \in pending : p.id # Head(posted).id
  /\ tracked' = tracked \ {Head(posted).id}
  /\ Silent
  /\ UNCHANGED <<captainVars, subs, maintenance, flight, requestVars, seq, waitingVars>>

\* A CONTEXT, or an ERROR, or a reply that is partial or no CONTEXT at all.
TakeSnapshot ==
  /\ \E type \in {"reply", "error"} : NextIs(type)
  /\ Head(posted).id = flight.id
  /\ Finish(IF Head(posted).type = "reply" THEN Context(Head(posted).val) ELSE Failed,
            {Head(posted).id})
  /\ UNCHANGED <<link, sessions, made, passed, subs, maintenance, requestVars>>

\* The first reply with the private id is the client's, or everybody's.
TakeReply ==
  /\ NextIs("reply")
  /\ \E p \in pending :
       /\ p.id = Head(posted).id
       /\ Without(p)
       /\ Answer(Say({p.req}, Own(Head(posted).of)))
  /\ tracked' = tracked \ {Head(posted).id}
  /\ UNCHANGED <<captainVars, subs, maintenance, flight, seq>>

\* A CONTEXT the Captain sends by itself, or its word that a patch was switched or
\* a binding fired, is for everybody.
SeePush ==
  /\ NextIs("push")
  /\ flight' = Sealed(flight)
  /\ passed' = passed \cup Head(posted).val
  /\ Silent
  /\ UNCHANGED <<link, sessions, wire, made, subs, maintenance, requestVars, seq,
                 tracked, waitingVars>>

\* The end of a session fails every request; mutants, but for those that wait for
\* the next snapshot, and its reads are still followed.
DownKeepsReads ==
  /\ NextIs("down")
  /\ Answer(Say(AllWaiters \cup {p.req : p \in pending}, Failed))
  /\ flight' = NoFlight
  /\ pending' = {} /\ index' = [s \in Subs |-> {}]
  /\ UNCHANGED <<captainVars, subs, maintenance, seq, tracked>>
SeeDown ==
  /\ NextIs("down")
  /\ Answer(Say(AllWaiters \cup {p.req : p \in pending}, Failed))
  /\ flight' = NoFlight
  /\ pending' = {} /\ index' = [s \in Subs |-> {}]
  /\ tracked' = {}
  /\ UNCHANGED <<captainVars, subs, maintenance, seq>>

-----------------------------------------------------------------------------
(* The link thread and the Captain.                                        *)

SessionStarts ==
  /\ link = "down"
  /\ sessions < MaxSessions
  /\ link' = "up"
  /\ sessions' = sessions + 1
  /\ Silent
  /\ UNCHANGED <<wire, made, passed, posted, subs, maintenance, flight, requestVars,
                 seq, tracked, waitingVars>>

\* What the Captain has not served dies with the session.
SessionEnds ==
  /\ connected
  /\ link' = "down"
  /\ wire' = <<>>
  /\ passed' = passed \cap made
  /\ due' = [r \in Requests |-> due[r] \cap made]
  /\ posted' = Append(posted, [type |-> "down"])
  /\ Silent
  /\ UNCHANGED <<sessions, made, subs, maintenance, flight, requestVars, seq,
                 tracked, call>>

\* The Captain serves a line: it makes the change, and answers a line with an id.
Serve ==
  /\ wire # <<>>
  /\ Len(posted) < MaxPosted
  /\ wire' = Tail(wire)
  /\ LET l == Head(wire)
         now == made \cup ({l.change} \cap Changes)
     IN /\ made' = now
        /\ \/ /\ l.id = NoId
              /\ UNCHANGED posted
           \/ /\ l.id # NoId
              /\ posted' = Append(posted, [type |-> "reply", id |-> l.id,
                                           of |-> l.of, val |-> now])
           \/ /\ Prefix(l.id) = "ctx"
              /\ posted' = Append(posted, [type |-> "error", id |-> l.id])
  /\ Silent
  /\ UNCHANGED <<link, sessions, passed, subs, maintenance, flight, requestVars,
                 seq, tracked, waitingVars>>

\* A foot on the pedal, or another device, changes what the context shows.
PedalChanges(c) ==
  /\ connected
  /\ Fresh(c)
  /\ Len(posted) < MaxPosted
  /\ made' = made \cup {c}
  /\ posted' = Append(posted, [type |-> "push", val |-> made \cup {c}])
  /\ Silent
  /\ UNCHANGED <<link, sessions, wire, passed, subs, maintenance, flight,
                 requestVars, seq, tracked, waitingVars>>

-----------------------------------------------------------------------------
Dispatch == DropLate \/ TakeSnapshot \/ TakeReply \/ SeePush \/ SeeDown

ClientStep ==
  \/ \E r \in Requests :
       \/ InMaintenance(r)
       \/ RefusedAtOnce(r)
       \/ \E c \in Changes \cup {NoChange} : SendRequest(r, c)
       \/ RefusedLine(r)
       \/ JoinSnapshot(r)
       \/ StartSnapshot(r)
  \/ \E c \in Changes : PassOn(c)
  \/ \E s \in Subs : CloseSub(s)

Next ==
  \/ ClientStep
  \/ SnapshotTimeout
  \/ \E p \in pending : RequestTimeout(p)
  \/ Maintenance
  \/ Stop
  \/ Dispatch
  \/ SessionStarts
  \/ SessionEnds
  \/ Serve
  \/ \E c \in Changes : PedalChanges(c)

Spec == Init /\ [][Next]_vars

\* The event loop goes on, with what was posted to it or with a timer that is due.  A link
\* whose Captain serves nothing is ended by the watchdog of the link thread.
Fairness ==
  /\ WF_vars(Dispatch \/ SnapshotTimeout \/ \E p \in pending : RequestTimeout(p))
  /\ WF_vars(Serve \/ SessionEnds)

FairSpec == Spec /\ Fairness
-----------------------------------------------------------------------------
(* What makes it correct.                                                  *)

\* A request that is not answered yet and that somebody is there for: its client,
\* or everybody when it is a read without an id.
Waiting(r) ==
  /\ call[r] = "waiting"
  /\ link # "off"
  /\ Owner[r] \in subs \/ KindOf[r] = "open"

IdsOn(q) == {q[i].id : i \in {j \in DOMAIN q : "id" \in DOMAIN q[j]}}
DownPending == \E i \in DOMAIN posted : posted[i].type = "down"

\* Through refusals, timeouts, closed clients and lost sessions, what the hub keeps
\* is exactly what somebody waits for, each in one place (hub.py:848-1024 for the
\* snapshots, 421-577 for the others).  And a read is followed only while its reply or
\* the end of its session is still to come: one followed for ever would keep every
\* firmware update out (update_service.py:397).
NothingLost ==
  /\ DownPending \/ tracked \subseteq IdsOn(wire) \cup IdsOn(posted)
  /\ \A r \in Requests :
       /\ Waiting(r) <=> r \in AllWaiters \/ \E p \in pending : p.req = r
       /\ ~(r \in flight.waiters /\ r \in flight.next)
       /\ Cardinality({p \in pending : p.req = r}) <= 1

\* The index by which a closed client's requests are found, and by which each
\* client's share is counted, lists its requests and no others; so that the limits
\* hold for each client and for all together, detached reads and both batches of
\* waiters included.
IndexExact ==
  /\ \A s \in Subs :
        /\ index[s] = {p.id : p \in {q \in pending : q.mine /\ Owner[q.req] = s}}
        /\ Cardinality(index[s]) <= RequestsPerSubMax
        /\ Cardinality(OfSub(s, AllWaiters)) <= ContextPerSubMax
  /\ Cardinality(pending) <= RequestsMax /\ Cardinality(AllWaiters) <= ContextMax

\* Every request is answered while there is somebody to answer, whatever the
\* Captain, the link and the other clients do: once no more are made, nobody waits.
SomebodyWaits == \E r \in Requests : Waiting(r)
EveryRequestAnswered == SomebodyWaits ~> ~SomebodyWaits

\* An update that has closed the hub to its clients gets its turn: what they were
\* promised is settled, and nothing is left for the Captain to answer.
MaintenanceDrains ==
  maintenance ~> \/ ~maintenance \/ link = "off"
                 \/ pending = {} /\ tracked = {}

\* Private ids, shared snapshots, seals and sessions are invisible to the clients:
\* each request is answered once, by an error, by the reply to that very request,
\* or by a context with all that was passed on before it was made.
Answers == INSTANCE OwnAnswers
AnswersAreOwn == Answers!Spec
=============================================================================
