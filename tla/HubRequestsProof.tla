-------------------------- MODULE HubRequestsProof --------------------------
(***************************************************************************)
(* What holds of the hub's other requests for any clients, requests,       *)
(* limits and sessions: that what the hub keeps is what somebody waits     *)
(* for, that the index and the limits are exact, and that private ids and  *)
(* shared snapshots cannot be seen in the answers (OwnAnswers).            *)
(*                                                                         *)
(* The argument about snapshots is that nothing may be passed on to the    *)
(* Captain while one can still be joined: what was passed on before is     *)
(* made by the Captain, or on the wire in front of the snapshot's line.    *)
(***************************************************************************)
EXTENDS HubRequests, FiniteSetTheorems, TLAPS

(***************************************************************************)
(* The inductive invariant.                                                *)
(***************************************************************************)
\* The snapshot that is out has the id given last to one, and no waiter twice.
FlightInv ==
  /\ flight.id = NoId => flight = NoFlight
  /\ flight.id \in {NoId} \cup ({"ctx"} \X (1 .. seq.ctx))
  /\ flight.waiters \cap flight.next = {}
  /\ \A r \in AllWaiters : KindOf[r] = "context"

\* No request is pending twice, and no two have the same id.
PendingInv ==
  /\ \A p, q \in pending : p.req = q.req \/ p.id = q.id => p = q
  /\ \A p \in pending : KindOf[p.req] # "context" /\ (p.mine <=> Owner[p.req] \in subs)

\* What is kept is what somebody waits for.
Kept(r) == r \in AllWaiters \/ \E p \in pending : p.req = r
WaitingInv == \A r \in Requests : Waiting(r) <=> Kept(r)

\* The index, and the limits it is used for.
IndexInv == \A s \in Subs : index[s] = {p.id : p \in {q \in pending : q.mine /\ Owner[q.req] = s}}
LimitInv ==
  /\ IsFiniteSet(pending) /\ Cardinality(pending) <= RequestsMax
  /\ IsFiniteSet(AllWaiters) /\ Cardinality(AllWaiters) <= ContextMax
  /\ \A s \in Subs : /\ IsFiniteSet(index[s]) /\ Cardinality(index[s]) <= RequestsPerSubMax
                     /\ Cardinality(OfSub(s, AllWaiters)) <= ContextPerSubMax

\* The ids under way were given before, and those that are followed are under way.
GivenIds == {NoId} \cup ({"ctx"} \X (1 .. seq.ctx)) \cup ({"req"} \X (1 .. seq.req))
IdsInv ==
  /\ \A i \in DOMAIN wire : wire[i].id \in GivenIds
  /\ \A i \in DOMAIN posted : posted[i].type \in {"reply", "error"} => posted[i].id \in GivenIds
UnderWay(t) == \/ \E i \in DOMAIN wire : wire[i].id = t
               \/ \E i \in DOMAIN posted : posted[i].type \in {"reply", "error"} /\ posted[i].id = t
TrackedInv == DownPending \/ \A t \in tracked : UnderWay(t)

\* The lines and the replies with the id of a request are that request's.
OwnInv == \A p \in pending :
  /\ \A i \in DOMAIN wire : wire[i].id = p.id => wire[i].of = p.req
  /\ \A i \in DOMAIN posted : posted[i].type = "reply" /\ posted[i].id = p.id => posted[i].of = p.req

\* What was passed on was made by the Captain, or is on its way to it.
OnWire(k) == {wire[i].change : i \in 1 .. k}
PassedInv ==
  /\ \A r \in Requests : due[r] \subseteq passed
  /\ link # "off" => passed \subseteq made \cup OnWire(Len(wire))
  /\ link = "off" => flight = NoFlight /\ pending = {} /\ subs = {} /\ wire = <<>>
  /\ \A i \in DOMAIN posted : posted[i].type = "push" => posted[i].val \subseteq made

\* What a snapshot shows is what is due to those that wait for it, and all that was passed
\* on while it can be joined.
Owed(S) == /\ \A r \in flight.waiters : due[r] \subseteq S
           /\ flight.gate = "open" => passed \subseteq S
SnapshotInv ==
  flight # NoFlight =>
    /\ \A k \in DOMAIN wire : wire[k].id = flight.id => Owed(made \cup OnWire(k))
    /\ \A i \in DOMAIN posted :
         posted[i].type = "reply" /\ posted[i].id = flight.id => Owed(posted[i].val)

IInv == /\ TypeOK /\ FlightInv /\ PendingInv /\ WaitingInv /\ IndexInv /\ LimitInv
        /\ IdsInv /\ TrackedInv /\ OwnInv /\ PassedInv /\ SnapshotInv

(***************************************************************************)
(* Sequences, lines and answers.                                           *)
(***************************************************************************)
LEMMA AppendFacts ==
  ASSUME NEW S, NEW q \in Seq(S), NEW e \in S
  PROVE  /\ Append(q, e) \in Seq(S) /\ Len(Append(q, e)) = Len(q) + 1
         /\ \A i \in 1 .. Len(q) : Append(q, e)[i] = q[i]
         /\ Append(q, e)[Len(q) + 1] = e
         /\ DOMAIN q = 1 .. Len(q) /\ Len(q) \in Nat
         /\ DOMAIN Append(q, e) = 1 .. (Len(q) + 1)
OBVIOUS

LEMMA TailFacts ==
  ASSUME NEW S, NEW q \in Seq(S), q # <<>>
  PROVE  /\ Tail(q) \in Seq(S) /\ Len(Tail(q)) = Len(q) - 1
         /\ \A i \in 1 .. Len(q) - 1 : Tail(q)[i] = q[i + 1]
         /\ DOMAIN q = 1 .. Len(q) /\ Len(q) \in Nat /\ Len(q) > 0
         /\ DOMAIN Tail(q) = 1 .. (Len(q) - 1)
         /\ Head(q) = q[1] /\ Head(q) \in S
OBVIOUS

LEMMA LineType ==
  ASSUME NEW i \in Ids \cup {NoId}, NEW r \in Requests \cup {NoRequest}, NEW c \in Changes \cup {NoChange}
  PROVE  /\ Line(i, r, c) \in Lines
         /\ Line(i, r, c).id = i /\ Line(i, r, c).of = r /\ Line(i, r, c).change = c
BY DEF Line, Lines

LEMMA AnswerType ==
  ASSUME TypeOK, NEW A \in SUBSET [req : Requests, outcome : Outcomes], Answer(A)
  PROVE  /\ said' \subseteq [req : Requests, outcome : Outcomes]
         /\ call' \in [Requests -> {"new", "waiting", "done"}]
         /\ due' \in [Requests -> SUBSET Changes]
BY DEF TypeOK, Answer

LEMMA SayType ==
  ASSUME NEW R \in SUBSET Requests, NEW o \in Outcomes
  PROVE  Say(R, o) \in SUBSET [req : Requests, outcome : Outcomes]
BY DEF Say

LEMMA OutcomeTypes ==
  /\ Failed \in Outcomes
  /\ \A r \in Requests : Own(r) \in Outcomes
  /\ \A S \in SUBSET Changes : Context(S) \in Outcomes
BY DEF Failed, Own, Context, Outcomes

LEMMA SnapshotType ==
  ASSUME TypeOK, NEW i \in Ids, NEW W \in SUBSET Requests
  PROVE  /\ Snapshot(i, W) \in [id : Ids \cup {NoId}, gate : {"open", "sealed"},
                                waiters : SUBSET Requests, next : SUBSET Requests]
         /\ NoFlight \in [id : Ids \cup {NoId}, gate : {"open", "sealed"},
                           waiters : SUBSET Requests, next : SUBSET Requests]
BY DEF Snapshot, NoFlight

LEMMA FlightType ==
  ASSUME TypeOK
  PROVE  /\ flight.id \in Ids \cup {NoId} /\ flight.gate \in {"open", "sealed"}
         /\ flight.waiters \subseteq Requests /\ flight.next \subseteq Requests
         /\ AllWaiters \subseteq Requests
BY DEF TypeOK, AllWaiters

\* Ending the joining of a snapshot changes nothing else of it.
LEMMA SealedIs ==
  ASSUME TypeOK, NEW f, f \in {flight, Sealed(flight)}
  PROVE  /\ f \in [id : Ids \cup {NoId}, gate : {"open", "sealed"},
                    waiters : SUBSET Requests, next : SUBSET Requests]
         /\ f.id = flight.id /\ f.waiters = flight.waiters /\ f.next = flight.next
         /\ f = NoFlight <=> flight = NoFlight
         /\ f.gate = "open" => f = flight
         /\ f = Sealed(flight) /\ flight # NoFlight => f.gate = "sealed"
<1>1. CASE f = flight
  BY <1>1 DEF TypeOK, Sealed
<1>2. CASE f = Sealed(flight)
  BY <1>2 DEF TypeOK, Sealed, NoFlight, Snapshot
<1> QED BY <1>1, <1>2

\* What a snapshot that ends leaves behind.
LEMMA FinishIs ==
  ASSUME TypeOK, NEW o \in Outcomes, NEW finished, Finish(o, finished)
  PROVE  \/ /\ flight.next # {} /\ LinkAccepts
            /\ Answer(Say(flight.waiters, o)) /\ seq' = [seq EXCEPT !.ctx = @ + 1]
            /\ flight' = Snapshot(Id("ctx", seq.ctx + 1), flight.next)
            /\ tracked' = (tracked \ finished) \cup {Id("ctx", seq.ctx + 1)}
            /\ wire' = Append(wire, Line(Id("ctx", seq.ctx + 1), NoRequest, NoChange))
         \/ /\ Answer(Say(flight.waiters, o) \cup Say(flight.next, Failed))
            /\ flight' = NoFlight /\ tracked' = tracked \ finished /\ UNCHANGED <<seq, wire>>
<1>1. CASE flight.next # {} /\ LinkAccepts
  <2>1. Say(flight.waiters, o) \cup {} = Say(flight.waiters, o)
    OBVIOUS
  <2> QED BY <1>1, <2>1 DEF Finish
<1>2. CASE ~(flight.next # {} /\ LinkAccepts)
  BY <1>2 DEF Finish
<1> QED BY <1>1, <1>2

(***************************************************************************)
(* The types.                                                              *)
(***************************************************************************)
\* The ids given stay given.
LEMMA Growing ==
  ASSUME TypeOK, seq' \in {seq, [seq EXCEPT !.ctx = @ + 1], [seq EXCEPT !.req = @ + 1]}
  PROVE  /\ seq' \in [ctx : Nat, req : Nat] /\ seq'.req >= seq.req /\ seq'.ctx >= seq.ctx
         /\ 1 .. seq.req \subseteq 1 .. seq'.req /\ 1 .. seq.ctx \subseteq 1 .. seq'.ctx
         /\ seq' = [seq EXCEPT !.ctx = @ + 1] => seq'.ctx = seq.ctx + 1 /\ seq'.req = seq.req
         /\ seq' = [seq EXCEPT !.req = @ + 1] => seq'.req = seq.req + 1 /\ seq'.ctx = seq.ctx
BY DEF TypeOK

LEMMA IdTypes ==
  ASSUME TypeOK
  PROVE  /\ Id("ctx", seq.ctx + 1) \in Ids /\ Id("req", seq.req + 1) \in Ids
         /\ Id("ctx", seq.ctx + 1) = <<"ctx", seq.ctx + 1>> /\ Id("req", seq.req + 1) = <<"req", seq.req + 1>>
         /\ NoId = <<"none", 0>> /\ seq.ctx \in Nat /\ seq.req \in Nat
BY DEF TypeOK, Id, Ids, NoId

\* The line with the next id, and the ids that may be followed after that.
LEMMA NewLine ==
  ASSUME TypeOK, NEW i \in {Id("ctx", seq.ctx + 1), Id("req", seq.req + 1)},
         NEW r \in Requests \cup {NoRequest}, NEW c \in Changes \cup {NoChange}
  PROVE  Append(wire, Line(i, r, c)) \in Seq(Lines)
<1>1. Line(i, r, c) \in Lines
  BY IdTypes, LineType
<1>2. wire \in Seq(Lines)
  BY DEF TypeOK
<1> QED BY <1>1, <1>2, AppendFacts

LEMMA NewTracked ==
  ASSUME TypeOK
  PROVE  /\ seq' = [seq EXCEPT !.ctx = @ + 1] =>
              tracked \cup {Id("ctx", seq.ctx + 1)}
                \subseteq {<<"ctx", n>> : n \in 1 .. seq'.ctx} \cup {<<"req", n>> : n \in 1 .. seq'.req}
         /\ seq' = [seq EXCEPT !.req = @ + 1] =>
              tracked \cup {Id("req", seq.req + 1)}
                \subseteq {<<"ctx", n>> : n \in 1 .. seq'.ctx} \cup {<<"req", n>> : n \in 1 .. seq'.req}
<1> DEFINE Given(s) == {<<"ctx", n>> : n \in 1 .. s.ctx} \cup {<<"req", n>> : n \in 1 .. s.req}
<1>1. tracked \subseteq Given(seq)
  BY DEF TypeOK
<1>2. ASSUME seq' = [seq EXCEPT !.ctx = @ + 1]
      PROVE  tracked \cup {Id("ctx", seq.ctx + 1)} \subseteq Given(seq')
  <2>1. seq'.ctx = seq.ctx + 1 /\ seq'.req = seq.req /\ seq.ctx \in Nat
    BY <1>2, Growing, IdTypes
  <2>2. Given(seq) \subseteq Given(seq') /\ <<"ctx", seq.ctx + 1>> \in Given(seq')
    BY <2>1
  <2> QED BY <1>1, <2>2, IdTypes
<1>3. ASSUME seq' = [seq EXCEPT !.req = @ + 1]
      PROVE  tracked \cup {Id("req", seq.req + 1)} \subseteq Given(seq')
  <2>1. seq'.req = seq.req + 1 /\ seq'.ctx = seq.ctx /\ seq.req \in Nat
    BY <1>3, Growing, IdTypes
  <2>2. Given(seq) \subseteq Given(seq') /\ <<"req", seq.req + 1>> \in Given(seq')
    BY <2>1
  <2> QED BY <1>1, <2>2, IdTypes
<1> QED BY <1>2, <1>3

\* The tables, when requests are only taken out of them.
LEMMA TablesType ==
  ASSUME TypeOK, NEW P \in SUBSET pending, NEW T \in SUBSET tracked,
         pending' = P, tracked' = T,
         index' \in [Subs -> SUBSET ({"req"} \X (1 .. seq.req))],
         seq' \in {seq, [seq EXCEPT !.ctx = @ + 1]}
  PROVE  /\ pending' \subseteq [id : {"req"} \X (1 .. seq'.req), req : Requests, mine : BOOLEAN]
         /\ index' \in [Subs -> SUBSET ({"req"} \X (1 .. seq'.req))]
         /\ seq' \in [ctx : Nat, req : Nat]
         /\ tracked' \subseteq {<<"ctx", n>> : n \in 1 .. seq'.ctx} \cup {<<"req", n>> : n \in 1 .. seq'.req}
BY Growing DEF TypeOK

LEMMA WithoutType ==
  ASSUME TypeOK, NEW p \in pending, Without(p)
  PROVE  /\ pending' = pending \ {p} /\ index' \in [Subs -> SUBSET ({"req"} \X (1 .. seq.req))]
BY DEF TypeOK, Without

LEMMA FinishType ==
  ASSUME TypeOK, NEW o \in Outcomes, NEW finished, Finish(o, finished), UNCHANGED requestVars
  PROVE  /\ flight' \in [id : Ids \cup {NoId}, gate : {"open", "sealed"},
                         waiters : SUBSET Requests, next : SUBSET Requests]
         /\ wire' \in Seq(Lines) /\ seq' \in [ctx : Nat, req : Nat]
         /\ pending' \subseteq [id : {"req"} \X (1 .. seq'.req), req : Requests, mine : BOOLEAN]
         /\ index' \in [Subs -> SUBSET ({"req"} \X (1 .. seq'.req))]
         /\ tracked' \subseteq {<<"ctx", n>> : n \in 1 .. seq'.ctx} \cup {<<"req", n>> : n \in 1 .. seq'.req}
         /\ said' \subseteq [req : Requests, outcome : Outcomes]
         /\ call' \in [Requests -> {"new", "waiting", "done"}]
         /\ due' \in [Requests -> SUBSET Changes]
<1>1. /\ flight.waiters \in SUBSET Requests /\ flight.next \in SUBSET Requests /\ wire \in Seq(Lines)
      /\ UNCHANGED <<pending, index>>
  BY FlightType DEF TypeOK, requestVars
<1>2. Say(flight.waiters, o) \in SUBSET [req : Requests, outcome : Outcomes]
  BY <1>1, SayType
<1>3. Say(flight.next, Failed) \in SUBSET [req : Requests, outcome : Outcomes]
  BY <1>1, SayType, OutcomeTypes
<1>4. CASE /\ Answer(Say(flight.waiters, o)) /\ seq' = [seq EXCEPT !.ctx = @ + 1]
           /\ flight' = Snapshot(Id("ctx", seq.ctx + 1), flight.next)
           /\ tracked' = (tracked \ finished) \cup {Id("ctx", seq.ctx + 1)}
           /\ wire' = Append(wire, Line(Id("ctx", seq.ctx + 1), NoRequest, NoChange))
  <2>1. wire' \in Seq(Lines)
    BY <1>4, NewLine
  <2>2. flight' \in [id : Ids \cup {NoId}, gate : {"open", "sealed"},
                     waiters : SUBSET Requests, next : SUBSET Requests]
    BY <1>1, <1>4, IdTypes, SnapshotType
  <2>3. /\ seq' \in [ctx : Nat, req : Nat] /\ seq'.ctx = seq.ctx + 1 /\ seq'.req = seq.req
    BY <1>4, Growing
  <2>4. tracked' \subseteq {<<"ctx", n>> : n \in 1 .. seq'.ctx} \cup {<<"req", n>> : n \in 1 .. seq'.req}
    BY <1>4, NewTracked
  <2>5. pending' \subseteq [id : {"req"} \X (1 .. seq'.req), req : Requests, mine : BOOLEAN]
    BY <1>1, <2>3 DEF TypeOK
  <2>6. index' \in [Subs -> SUBSET ({"req"} \X (1 .. seq'.req))]
    BY <1>1, <2>3 DEF TypeOK
  <2> QED BY <1>2, <1>4, <2>1, <2>2, <2>3, <2>4, <2>5, <2>6, AnswerType
<1>5. CASE /\ Answer(Say(flight.waiters, o) \cup Say(flight.next, Failed))
           /\ flight' = NoFlight /\ tracked' = tracked \ finished /\ UNCHANGED <<seq, wire>>
  <2>1. flight' \in [id : Ids \cup {NoId}, gate : {"open", "sealed"},
                     waiters : SUBSET Requests, next : SUBSET Requests]
    BY <1>5, IdTypes, SnapshotType
  <2>2. Say(flight.waiters, o) \cup Say(flight.next, Failed) \in SUBSET [req : Requests, outcome : Outcomes]
    BY <1>2, <1>3
  <2>3. /\ tracked' \subseteq {<<"ctx", n>> : n \in 1 .. seq'.ctx} \cup {<<"req", n>> : n \in 1 .. seq'.req}
        /\ wire' \in Seq(Lines) /\ seq' \in [ctx : Nat, req : Nat]
        /\ pending' \subseteq [id : {"req"} \X (1 .. seq'.req), req : Requests, mine : BOOLEAN]
        /\ index' \in [Subs -> SUBSET ({"req"} \X (1 .. seq'.req))]
    BY <1>1, <1>5 DEF TypeOK
  <2> QED BY <1>5, <2>1, <2>2, <2>3, AnswerType
<1> QED BY <1>4, <1>5, FinishIs

(***************************************************************************)
(* What the steps do, for the proofs: actions with the same effect are     *)
(* taken together.                                                         *)
(***************************************************************************)
KeepsTables == UNCHANGED <<pending, index, seq, tracked>>

\* Nothing but the link, from down to up, and the word that an update begins.
Idle ==
  /\ link' = link \/ (link = "down" /\ link' = "up")
  /\ said' \in {said, {}}
  /\ maintenance' \in BOOLEAN /\ sessions' \in Nat
  /\ KeepsTables
  /\ UNCHANGED <<wire, made, passed, posted, subs, flight, call, due>>

\* A request is refused.
Refused(r) ==
  /\ Asks(r) /\ Refuse(r)
  /\ flight' \in {flight, Sealed(flight)}
  /\ KeepsTables
  /\ UNCHANGED <<link, sessions, wire, made, passed, posted, subs, maintenance>>

\* A reply or an error is taken from what was posted, and F is its id.
Took(F) ==
  /\ posted # <<>> /\ posted' = Tail(posted)
  /\ Head(posted).type \in {"reply", "error"}
  /\ F = {Head(posted).id}

\* A snapshot ends, or a request leaves the table, with an error or with what was posted first.
Ends(o, F) ==
  /\ \/ o = Failed
     \/ /\ posted # <<>> /\ Head(posted).type = "reply" /\ Head(posted).id = flight.id
        /\ o = Context(Head(posted).val)
  /\ Finish(o, F)
  /\ posted' = posted \/ Took(F)
  /\ UNCHANGED <<link, sessions, made, passed, subs, maintenance, pending, index>>
Leaves(p, o, F) ==
  /\ \/ o = Failed
     \/ /\ posted # <<>> /\ Head(posted).type = "reply" /\ Head(posted).id = p.id
        /\ o = Own(Head(posted).of)
  /\ Without(p) /\ Answer(Say({p.req}, o))
  /\ tracked' = tracked \ F
  /\ posted' = posted \/ Took(F)
  /\ UNCHANGED <<link, sessions, wire, made, passed, subs, maintenance, flight, seq>>

Drops(F) ==
  /\ Took(F) /\ tracked' = tracked \ F /\ Silent
  /\ UNCHANGED <<link, sessions, wire, made, passed, subs, maintenance, flight, pending, index,
                 seq, call, due>>

\* What a reply says is of one of these kinds.
LEMMA PostedType ==
  ASSUME TypeOK, posted # <<>>
  PROVE  /\ Head(posted) \in Replies \cup Notices
         /\ posted = <<Head(posted)>> \o Tail(posted)
         /\ Tail(posted) \in Seq(Replies \cup Notices)
         /\ Head(posted).type = "reply" =>
              Head(posted).of \in Requests \cup {NoRequest} /\ Head(posted).val \subseteq Changes
         /\ Head(posted).type = "push" => Head(posted).val \subseteq Changes
<1>1. posted \in Seq(Replies \cup Notices)
  BY DEF TypeOK
<1>2. Head(posted) \in Replies \cup Notices /\ posted = <<Head(posted)>> \o Tail(posted)
      /\ Tail(posted) \in Seq(Replies \cup Notices)
  BY <1>1
<1> QED BY <1>2 DEF Replies, Notices

LEMMA FirstIs ==
  ASSUME TypeOK, NEW t, NextIs(t)
  PROVE  posted # <<>> /\ posted' = Tail(posted) /\ Head(posted).type = t
BY DEF NextIs

\* Every step is of one of these kinds.
LEMMA StepCases ==
  ASSUME TypeOK, OwnInv, [Next]_vars
  PROVE  \/ Idle
         \/ \E r \in Requests : Refused(r)
         \/ \E r \in Requests : JoinSnapshot(r)
         \/ \E r \in Requests : StartSnapshot(r)
         \/ \E r \in Requests, c \in Changes \cup {NoChange} : SendRequest(r, c)
         \/ \E c \in Changes : PassOn(c)
         \/ \E s \in Subs : CloseSub(s)
         \/ \E o \in Outcomes, F \in SUBSET Ids : Ends(o, F)
         \/ \E p \in pending, o \in Outcomes, F \in SUBSET Ids : Leaves(p, o, F)
         \/ \E F \in SUBSET Ids : Drops(F)
         \/ Stop \/ SeePush \/ SeeDown \/ SessionEnds \/ Serve
         \/ \E c \in Changes : PedalChanges(c)
<1>1. CASE UNCHANGED vars
  BY <1>1 DEF Idle, KeepsTables, vars, captainVars, contextVars, requestVars, clientVars, TypeOK
<1>2. CASE Maintenance
  BY <1>2 DEF Maintenance, Idle, KeepsTables, Silent, captainVars, requestVars, waitingVars, TypeOK
<1>8. CASE SessionStarts
  BY <1>8 DEF SessionStarts, Idle, KeepsTables, Silent, requestVars, waitingVars, TypeOK
<1>3. CASE \E r \in Requests : InMaintenance(r) \/ RefusedAtOnce(r) \/ RefusedLine(r)
  BY <1>3 DEF InMaintenance, RefusedAtOnce, RefusedLine, Accepted, Refused, SealedBy, KeepsTables,
              captainVars, requestVars
<1>4. CASE SnapshotTimeout
  BY <1>4, OutcomeTypes DEF SnapshotTimeout, Ends, requestVars
<1>5. CASE TakeSnapshot
  <2>1. PICK t \in {"reply", "error"} : NextIs(t)
    BY <1>5 DEF TakeSnapshot
  <2>2. Took({Head(posted).id})
    BY <2>1, FirstIs DEF Took
  <2>3. {Head(posted).id} \in SUBSET Ids
    BY <2>1, FirstIs, PostedType DEF Replies, Notices
  <2>4. (IF Head(posted).type = "reply" THEN Context(Head(posted).val) ELSE Failed) \in Outcomes
    BY <2>1, FirstIs, PostedType, OutcomeTypes
  <2>5. PICK o \in Outcomes : o = IF Head(posted).type = "reply" THEN Context(Head(posted).val) ELSE Failed
    BY <2>4
  <2>6. /\ Finish(o, {Head(posted).id}) /\ Head(posted).id = flight.id
        /\ UNCHANGED <<link, sessions, made, passed, subs, maintenance, pending, index>>
    BY <1>5, <2>5 DEF TakeSnapshot, requestVars
  <2>7. o = Failed \/ (Head(posted).type = "reply" /\ o = Context(Head(posted).val))
    BY <2>5
  <2>8. Ends(o, {Head(posted).id})
    BY <2>2, <2>6, <2>7 DEF Ends, Took
  <2> QED BY <2>3, <2>8
<1>6. CASE \E p \in pending : RequestTimeout(p)
  <2>1. PICK p \in pending : RequestTimeout(p)
    BY <1>6
  <2>2. tracked' = tracked \ {}
    BY <2>1 DEF RequestTimeout
  <2>3. Leaves(p, Failed, {})
    BY <2>1, <2>2 DEF RequestTimeout, Leaves, captainVars
  <2> QED BY <2>3, OutcomeTypes
<1>7. CASE TakeReply
  <2>1. NextIs("reply")
    BY <1>7 DEF TakeReply
  <2>2. Took({Head(posted).id})
    BY <2>1, FirstIs DEF Took
  <2>3. {Head(posted).id} \in SUBSET Ids
    BY <2>1, FirstIs, PostedType DEF Replies, Notices
  <2>4. PICK p \in pending : /\ p.id = Head(posted).id /\ Without(p)
                             /\ Answer(Say({p.req}, Own(Head(posted).of)))
    BY <1>7 DEF TakeReply
  <2>5. posted[1] = Head(posted) /\ 1 \in DOMAIN posted
    BY <2>1, FirstIs, TailFacts DEF TypeOK
  <2>6. Head(posted).of = p.req /\ p.req \in Requests
    BY <2>1, <2>4, <2>5, FirstIs DEF OwnInv, TypeOK
  <2>7. Own(Head(posted).of) \in Outcomes
    BY <2>6, OutcomeTypes
  <2>8. Leaves(p, Own(Head(posted).of), {Head(posted).id})
    BY <1>7, <2>1, <2>2, <2>4, FirstIs DEF TakeReply, Leaves, captainVars
  <2> QED BY <2>3, <2>7, <2>8
<1>9. CASE DropLate
  <2>1. PICK t \in {"reply", "error"} : NextIs(t)
    BY <1>9 DEF DropLate
  <2>2. Took({Head(posted).id})
    BY <2>1, FirstIs DEF Took
  <2>3. {Head(posted).id} \in SUBSET Ids
    BY <2>1, FirstIs, PostedType DEF Replies, Notices
  <2>4. Drops({Head(posted).id})
    BY <1>9, <2>2 DEF DropLate, Drops, captainVars, requestVars, waitingVars
  <2> QED BY <2>3, <2>4
<1> QED
  BY <1>1, <1>2, <1>3, <1>4, <1>5, <1>6, <1>7, <1>8, <1>9 DEF Next, ClientStep, Dispatch

LEMMA PostedStays ==
  ASSUME TypeOK
  PROVE  /\ \A F : Took(F) => posted' \in Seq(Replies \cup Notices)
         /\ \A t : NextIs(t) => posted' \in Seq(Replies \cup Notices)
         /\ Append(posted, [type |-> "down"]) \in Seq(Replies \cup Notices)
         /\ \A S \in SUBSET Changes :
              Append(posted, [type |-> "push", val |-> S]) \in Seq(Replies \cup Notices)
<1>1. \A F : Took(F) => posted' \in Seq(Replies \cup Notices)
  BY PostedType DEF Took
<1>2. \A t : NextIs(t) => posted' \in Seq(Replies \cup Notices)
  BY PostedType DEF NextIs
<1>3. /\ [type |-> "down"] \in Notices
      /\ \A S \in SUBSET Changes : [type |-> "push", val |-> S] \in Notices
  BY DEF Notices
<1>4. posted \in Seq(Replies \cup Notices)
  BY DEF TypeOK
<1> QED BY <1>1, <1>2, <1>3, <1>4

\* A request that waits from now on, for what has been passed on.
LEMMA WaitsType ==
  ASSUME TypeOK, NEW r \in Requests, Waits(r)
  PROVE  /\ said' \subseteq [req : Requests, outcome : Outcomes]
         /\ call' \in [Requests -> {"new", "waiting", "done"}]
         /\ due' \in [Requests -> SUBSET Changes]
         /\ call'[r] = "waiting" /\ due'[r] = passed
         /\ \A q \in Requests \ {r} : call'[q] = call[q] /\ due'[q] = due[q]
BY DEF TypeOK, Waits, Silent

LEMMA ServeType ==
  ASSUME TypeOK, Serve
  PROVE  /\ wire # <<>> /\ Head(wire) \in Lines /\ wire' = Tail(wire)
         /\ wire' \in Seq(Lines) /\ made' \subseteq Changes
         /\ made' = made \cup ({Head(wire).change} \cap Changes)
         /\ posted' \in Seq(Replies \cup Notices)
<1>1. /\ wire # <<>> /\ Head(wire) \in Lines /\ wire' = Tail(wire) /\ wire' \in Seq(Lines)
  BY TailFacts DEF Serve, TypeOK
<1>2. made' = made \cup ({Head(wire).change} \cap Changes)
  BY DEF Serve
<1>3. made' \subseteq Changes
  BY <1>2 DEF TypeOK
<1>4. Head(wire).id \in Ids \cup {NoId} /\ Head(wire).of \in Requests \cup {NoRequest}
  BY <1>1 DEF Lines
<1>5. ASSUME Head(wire).id # NoId
      PROVE  /\ [type |-> "reply", id |-> Head(wire).id, of |-> Head(wire).of, val |-> made'] \in Replies
             /\ [type |-> "error", id |-> Head(wire).id] \in Replies
  BY <1>3, <1>4, <1>5 DEF Replies
<1>6. Prefix(Head(wire).id) = "ctx" => Head(wire).id # NoId
  BY DEF Prefix, NoId, Id
<1>7. posted \in Seq(Replies \cup Notices)
  BY DEF TypeOK
<1>8. \/ UNCHANGED posted
      \/ /\ Head(wire).id # NoId
         /\ \/ posted' = Append(posted, [type |-> "reply", id |-> Head(wire).id, of |-> Head(wire).of,
                                         val |-> made'])
            \/ posted' = Append(posted, [type |-> "error", id |-> Head(wire).id])
  BY <1>2, <1>6 DEF Serve
<1>9. posted' \in Seq(Replies \cup Notices)
  <2>1. \A e \in Replies : Append(posted, e) \in Seq(Replies \cup Notices)
    BY <1>7
  <2> QED BY <1>5, <1>7, <1>8, <2>1
<1> QED BY <1>1, <1>2, <1>3, <1>9

LEMMA TypeStep ==
  ASSUME TypeOK, OwnInv, [Next]_vars
  PROVE  TypeOK'
<1>1. CASE Idle
  BY <1>1 DEF Idle, KeepsTables, TypeOK
<1>2. ASSUME NEW r \in Requests, Refused(r)
      PROVE  TypeOK'
  <2>1. flight' \in [id : Ids \cup {NoId}, gate : {"open", "sealed"},
                     waiters : SUBSET Requests, next : SUBSET Requests]
    BY <1>2, SealedIs DEF Refused
  <2>2. /\ said' \subseteq [req : Requests, outcome : Outcomes]
        /\ call' \in [Requests -> {"new", "waiting", "done"}]
        /\ due' \in [Requests -> SUBSET Changes]
    BY <1>2, SayType, OutcomeTypes, AnswerType DEF Refused, Refuse
  <2> QED BY <1>2, <2>1, <2>2 DEF Refused, KeepsTables, TypeOK
<1>3. ASSUME NEW r \in Requests, JoinSnapshot(r)
      PROVE  TypeOK'
  <2>1. flight' \in [id : Ids \cup {NoId}, gate : {"open", "sealed"},
                     waiters : SUBSET Requests, next : SUBSET Requests]
    BY <1>3 DEF JoinSnapshot, TypeOK
  <2> QED BY <1>3, <2>1, WaitsType DEF JoinSnapshot, TypeOK, captainVars, requestVars
<1>4. ASSUME NEW r \in Requests, StartSnapshot(r)
      PROVE  TypeOK'
  <2>1. /\ flight' = Snapshot(Id("ctx", seq.ctx + 1), {r})
        /\ tracked' = tracked \cup {Id("ctx", seq.ctx + 1)}
        /\ wire' = Append(wire, Line(Id("ctx", seq.ctx + 1), NoRequest, NoChange))
        /\ seq' = [seq EXCEPT !.ctx = @ + 1] /\ Waits(r)
        /\ UNCHANGED <<link, sessions, made, passed, posted, subs, maintenance, pending, index>>
    BY <1>4 DEF StartSnapshot, requestVars
  <2>2. wire' \in Seq(Lines)
    BY <2>1, NewLine
  <2>3. flight' \in [id : Ids \cup {NoId}, gate : {"open", "sealed"},
                     waiters : SUBSET Requests, next : SUBSET Requests]
    <3>1. {r} \in SUBSET Requests /\ Id("ctx", seq.ctx + 1) \in Ids
      BY IdTypes
    <3> QED BY <2>1, <3>1, SnapshotType
  <2>4. /\ seq' \in [ctx : Nat, req : Nat] /\ seq'.ctx = seq.ctx + 1 /\ seq'.req = seq.req
    BY <2>1, Growing
  <2>5. tracked' \subseteq {<<"ctx", n>> : n \in 1 .. seq'.ctx} \cup {<<"req", n>> : n \in 1 .. seq'.req}
    BY <2>1, NewTracked
  <2> QED BY <2>1, <2>2, <2>3, <2>4, <2>5, WaitsType DEF TypeOK
<1>5. ASSUME NEW r \in Requests, NEW c \in Changes \cup {NoChange}, SendRequest(r, c)
      PROVE  TypeOK'
  <2>1. /\ pending' = pending \cup {[id |-> Id("req", seq.req + 1), req |-> r, mine |-> TRUE]}
        /\ index' = [index EXCEPT ![Owner[r]] = @ \cup {Id("req", seq.req + 1)}]
        /\ tracked' \subseteq tracked \cup {Id("req", seq.req + 1)}
        /\ wire' = Append(wire, Line(Id("req", seq.req + 1), r, c))
        /\ seq' = [seq EXCEPT !.req = @ + 1] /\ Waits(r)
        /\ flight' \in {flight, Sealed(flight)}
        /\ passed' = passed \cup ({c} \cap Changes)
        /\ UNCHANGED <<link, sessions, made, posted, subs, maintenance>>
    BY <1>5 DEF SendRequest, PrivateId, SealedBy
  <2>2. wire' \in Seq(Lines)
    BY <2>1, NewLine
  <2>3. flight' \in [id : Ids \cup {NoId}, gate : {"open", "sealed"},
                     waiters : SUBSET Requests, next : SUBSET Requests]
    BY <2>1, SealedIs
  <2>4. /\ seq' \in [ctx : Nat, req : Nat] /\ seq'.ctx = seq.ctx /\ seq'.req = seq.req + 1
    BY <2>1, Growing
  <2>5. tracked' \subseteq {<<"ctx", n>> : n \in 1 .. seq'.ctx} \cup {<<"req", n>> : n \in 1 .. seq'.req}
    BY <2>1, NewTracked
  <2>9. /\ Id("req", seq.req + 1) \in {"req"} \X (1 .. seq'.req)
        /\ {"req"} \X (1 .. seq.req) \subseteq {"req"} \X (1 .. seq'.req)
    BY <2>4, IdTypes
  <2>6. pending' \subseteq [id : {"req"} \X (1 .. seq'.req), req : Requests, mine : BOOLEAN]
    <3>1. [id |-> Id("req", seq.req + 1), req |-> r, mine |-> TRUE]
            \in [id : {"req"} \X (1 .. seq'.req), req : Requests, mine : BOOLEAN]
      BY <2>9
    <3>2. pending \subseteq [id : {"req"} \X (1 .. seq'.req), req : Requests, mine : BOOLEAN]
      BY <2>9 DEF TypeOK
    <3> QED BY <2>1, <3>1, <3>2
  <2>7. index' \in [Subs -> SUBSET ({"req"} \X (1 .. seq'.req))]
    <3>1. index \in [Subs -> SUBSET ({"req"} \X (1 .. seq.req))]
      BY DEF TypeOK
    <3>2. index \in [Subs -> SUBSET ({"req"} \X (1 .. seq'.req))]
      BY <2>9, <3>1
    <3> QED BY <2>1, <2>9, <3>2
  <2>8. passed' \subseteq Changes
    BY <2>1 DEF TypeOK
  <2> QED BY <2>1, <2>2, <2>3, <2>4, <2>5, <2>6, <2>7, <2>8, WaitsType DEF TypeOK
<1>6. ASSUME NEW c \in Changes, PassOn(c)
      PROVE  TypeOK'
  <2>1. flight' \in [id : Ids \cup {NoId}, gate : {"open", "sealed"},
                     waiters : SUBSET Requests, next : SUBSET Requests]
    BY <1>6, SealedIs DEF PassOn
  <2>2. Line(NoId, NoRequest, c) \in Lines /\ wire \in Seq(Lines) /\ passed \subseteq Changes
    BY LineType DEF TypeOK
  <2>3. \/ wire' = Append(wire, Line(NoId, NoRequest, c)) /\ passed' = passed \cup {c}
        \/ wire' = wire /\ passed' = passed
    BY <1>6 DEF PassOn
  <2>4. wire' \in Seq(Lines) /\ passed' \subseteq Changes
    BY <2>2, <2>3, AppendFacts
  <2> QED BY <1>6, <2>1, <2>4 DEF PassOn, TypeOK, Silent, requestVars, waitingVars
<1>7. ASSUME NEW s \in Subs, CloseSub(s)
      PROVE  TypeOK'
  <2>1. flight' \in [id : Ids \cup {NoId}, gate : {"open", "sealed"},
                     waiters : SUBSET Requests, next : SUBSET Requests]
    BY <1>7 DEF CloseSub, TypeOK
  <2>4. \A p \in pending : /\ p \in [id : {"req"} \X (1 .. seq.req), req : Requests, mine : BOOLEAN]
                           /\ [p EXCEPT !.mine = FALSE]
                                \in [id : {"req"} \X (1 .. seq.req), req : Requests, mine : BOOLEAN]
    <3> DEFINE P == [id : {"req"} \X (1 .. seq.req), req : Requests, mine : BOOLEAN]
    <3>1. \A p \in P : [p EXCEPT !.mine = FALSE] \in P
      OBVIOUS
    <3>2. pending \subseteq P
      BY DEF TypeOK
    <3> QED BY <3>1, <3>2
  <2>2. pending' \subseteq [id : {"req"} \X (1 .. seq.req), req : Requests, mine : BOOLEAN]
    BY <1>7, <2>4 DEF CloseSub
  <2>3. index' \in [Subs -> SUBSET ({"req"} \X (1 .. seq.req))] /\ subs' \subseteq Subs
    BY <1>7 DEF CloseSub, TypeOK
  <2> QED BY <1>7, <2>1, <2>2, <2>3 DEF CloseSub, TypeOK, Silent, captainVars, waitingVars
<1>8. ASSUME NEW o \in Outcomes, NEW F \in SUBSET Ids, Ends(o, F)
      PROVE  TypeOK'
  <2>1. UNCHANGED requestVars
    BY <1>8 DEF Ends, requestVars
  <2>2. posted' \in Seq(Replies \cup Notices)
    BY <1>8, PostedStays DEF Ends, TypeOK
  <2> QED BY <1>8, <2>1, <2>2, FinishType DEF Ends, TypeOK
<1>9. ASSUME NEW p \in pending, NEW o \in Outcomes, NEW F \in SUBSET Ids, Leaves(p, o, F)
      PROVE  TypeOK'
  <2>1. posted' \in Seq(Replies \cup Notices)
    BY <1>9, PostedStays DEF Leaves, TypeOK
  <2>2. /\ said' \subseteq [req : Requests, outcome : Outcomes]
        /\ call' \in [Requests -> {"new", "waiting", "done"}]
        /\ due' \in [Requests -> SUBSET Changes]
    <3>1. {p.req} \in SUBSET Requests
      BY DEF TypeOK
    <3> QED BY <1>9, <3>1, SayType, AnswerType DEF Leaves
  <2>3. /\ pending' = pending \ {p} /\ tracked' = tracked \ F
        /\ index' \in [Subs -> SUBSET ({"req"} \X (1 .. seq.req))]
    BY <1>9, WithoutType DEF Leaves
  <2> QED BY <1>9, <2>1, <2>2, <2>3 DEF Leaves, TypeOK
<1>10. ASSUME NEW F \in SUBSET Ids, Drops(F)
       PROVE  TypeOK'
  BY <1>10, PostedStays DEF Drops, TypeOK, Silent
<1>11. CASE Stop
  <2>1. flight' \in [id : Ids \cup {NoId}, gate : {"open", "sealed"},
                     waiters : SUBSET Requests, next : SUBSET Requests]
    BY <1>11, IdTypes, SnapshotType DEF Stop
  <2>2. posted' \in Seq(Replies \cup Notices)
    BY <1>11, PostedStays DEF Stop, TypeOK
  <2>3. wire' \in Seq(Lines) /\ link' \in {"up", "down", "off"}
        /\ index' \in [Subs -> SUBSET ({"req"} \X (1 .. seq.req))]
    BY <1>11 DEF Stop
  <2> QED BY <1>11, <2>1, <2>2, <2>3 DEF Stop, TypeOK, Silent, waitingVars
<1>12. CASE SeePush
  <2>1. flight' \in [id : Ids \cup {NoId}, gate : {"open", "sealed"},
                     waiters : SUBSET Requests, next : SUBSET Requests]
    BY <1>12, SealedIs DEF SeePush
  <2>2. posted' \in Seq(Replies \cup Notices) /\ passed' \subseteq Changes
    BY <1>12, PostedStays, FirstIs, PostedType DEF SeePush, TypeOK
  <2> QED BY <1>12, <2>1, <2>2 DEF SeePush, TypeOK, Silent, requestVars, waitingVars
<1>13. CASE SeeDown
  <2>1. flight' \in [id : Ids \cup {NoId}, gate : {"open", "sealed"},
                     waiters : SUBSET Requests, next : SUBSET Requests]
    BY <1>13, IdTypes, SnapshotType DEF SeeDown
  <2>2. posted' \in Seq(Replies \cup Notices)
    BY <1>13, PostedStays DEF SeeDown
  <2>3. /\ said' \subseteq [req : Requests, outcome : Outcomes]
        /\ call' \in [Requests -> {"new", "waiting", "done"}]
        /\ due' \in [Requests -> SUBSET Changes]
    <3>1. AllWaiters \cup {p.req : p \in pending} \in SUBSET Requests
      BY FlightType DEF TypeOK
    <3> QED BY <1>13, <3>1, OutcomeTypes, SayType, AnswerType DEF SeeDown
  <2>4. index' \in [Subs -> SUBSET ({"req"} \X (1 .. seq.req))]
    BY <1>13 DEF SeeDown
  <2> QED BY <1>13, <2>1, <2>2, <2>3, <2>4 DEF SeeDown, TypeOK, captainVars
<1>14. CASE SessionEnds
  <2>1. posted' \in Seq(Replies \cup Notices)
    BY <1>14, PostedStays DEF SessionEnds
  <2>2. due' \in [Requests -> SUBSET Changes] /\ passed' \subseteq Changes
        /\ wire' \in Seq(Lines) /\ link' \in {"up", "down", "off"}
    BY <1>14 DEF SessionEnds, TypeOK
  <2> QED BY <1>14, <2>1, <2>2 DEF SessionEnds, TypeOK, Silent, requestVars
<1>15. CASE Serve
  BY <1>15, ServeType DEF Serve, TypeOK, Silent, requestVars, waitingVars
<1>16. ASSUME NEW c \in Changes, PedalChanges(c)
       PROVE  TypeOK'
  <2>1. made \cup {c} \in SUBSET Changes
    BY DEF TypeOK
  <2>2. posted' \in Seq(Replies \cup Notices)
    BY <1>16, <2>1, PostedStays DEF PedalChanges
  <2> QED BY <1>16, <2>1, <2>2 DEF PedalChanges, TypeOK, Silent, requestVars, waitingVars
<1> QED
  BY <1>1, <1>2, <1>3, <1>4, <1>5, <1>6, <1>7, <1>8, <1>9, <1>10, <1>11, <1>12, <1>13, <1>14,
     <1>15, <1>16, StepCases

(***************************************************************************)
(* What is kept: the snapshot, the table and who waits.                    *)
(***************************************************************************)
\* What an answer does to the requests.
LEMMA SayTells ==
  ASSUME NEW R \in SUBSET Requests, NEW o, Answer(Say(R, o))
  PROVE  /\ said' = Say(R, o)
         /\ \A q \in Requests : /\ call'[q] = IF q \in R THEN "done" ELSE call[q]
                                /\ due'[q] = IF q \in R THEN {} ELSE due[q]
<1>1. {a.req : a \in Say(R, o)} = R
  <2>1. ASSUME NEW a \in Say(R, o)
        PROVE  a.req \in R
    BY DEF Say
  <2>2. ASSUME NEW r \in R
        PROVE  \E a \in Say(R, o) : a.req = r
    <3>1. [req |-> r, outcome |-> o] \in Say(R, o)
      BY DEF Say
    <3> QED BY <3>1
  <2> QED BY <2>1, <2>2
<1> QED BY <1>1 DEF Answer

LEMMA SayTellsBoth ==
  ASSUME NEW R \in SUBSET Requests, NEW Q \in SUBSET Requests, NEW o, NEW u,
         Answer(Say(R, o) \cup Say(Q, u))
  PROVE  /\ said' = Say(R, o) \cup Say(Q, u)
         /\ \A q \in Requests : /\ call'[q] = IF q \in R \cup Q THEN "done" ELSE call[q]
                                /\ due'[q] = IF q \in R \cup Q THEN {} ELSE due[q]
<1>1. {a.req : a \in Say(R, o) \cup Say(Q, u)} = R \cup Q
  <2>1. ASSUME NEW a \in Say(R, o) \cup Say(Q, u)
        PROVE  a.req \in R \cup Q
    BY DEF Say
  <2>2. ASSUME NEW r \in R \cup Q
        PROVE  \E a \in Say(R, o) \cup Say(Q, u) : a.req = r
    <3>1. r \in R => [req |-> r, outcome |-> o] \in Say(R, o)
      BY DEF Say
    <3>2. r \in Q => [req |-> r, outcome |-> u] \in Say(Q, u)
      BY DEF Say
    <3> QED BY <3>1, <3>2
  <2> QED BY <2>1, <2>2
<1> QED BY <1>1 DEF Answer

LEMMA NewIsNotKept ==
  ASSUME WaitingInv
  PROVE  \A r \in Requests : Asks(r) => ~Kept(r)
BY DEF WaitingInv, Waiting, Asks

\* The snapshot that is out stays well formed.
LEMMA FlightStep ==
  ASSUME TypeOK, OwnInv, WaitingInv, FlightInv, [Next]_vars
  PROVE  FlightInv'
<1>0. /\ flight.id = NoId => flight = NoFlight
      /\ flight.id \in {NoId} \cup ({"ctx"} \X (1 .. seq.ctx))
      /\ flight.waiters \cap flight.next = {}
      /\ \A r \in flight.waiters \cup flight.next : KindOf[r] = "context"
      /\ flight.waiters \subseteq Requests /\ flight.next \subseteq Requests
      /\ NoFlight.id = NoId /\ NoFlight.waiters = {} /\ NoFlight.next = {}
      /\ NoFlight = [id |-> NoId, gate |-> "open", waiters |-> {}, next |-> {}]
  BY FlightType DEF FlightInv, AllWaiters, NoFlight, Snapshot
<1>1. ASSUME flight' \in {flight, Sealed(flight)}, seq'.ctx = seq.ctx
      PROVE  FlightInv'
  BY <1>0, <1>1, SealedIs DEF FlightInv, AllWaiters
<1>2. ASSUME flight' = NoFlight
      PROVE  FlightInv'
  BY <1>0, <1>2 DEF FlightInv, AllWaiters
<1>3. ASSUME NEW W \in SUBSET Requests, \A r \in W : KindOf[r] = "context",
             flight' = Snapshot(Id("ctx", seq.ctx + 1), W), seq' = [seq EXCEPT !.ctx = @ + 1]
      PROVE  FlightInv'
  <2>1. /\ flight'.id = <<"ctx", seq.ctx + 1>> /\ flight'.waiters = W /\ flight'.next = {}
        /\ seq'.ctx = seq.ctx + 1 /\ seq.ctx \in Nat
    BY <1>3, IdTypes, Growing DEF Snapshot
  <2> QED BY <1>3, <2>1, IdTypes DEF FlightInv, AllWaiters
<1>4. ASSUME NEW r \in Requests, JoinSnapshot(r)
      PROVE  FlightInv'
  <2>1. /\ flight \in [id : Ids \cup {NoId}, gate : {"open", "sealed"},
                       waiters : SUBSET Requests, next : SUBSET Requests]
        /\ flight # NoFlight /\ flight.id # NoId /\ KindOf[r] = "context" /\ seq' = seq
    BY <1>0, <1>4 DEF JoinSnapshot, InFlight, TypeOK
  <2>2. r \notin flight.waiters /\ r \notin flight.next
    BY <1>4, NewIsNotKept DEF JoinSnapshot, Accepted, Kept, AllWaiters
  <2>3. /\ flight'.id = flight.id
        /\ \/ flight'.waiters = flight.waiters \cup {r} /\ flight'.next = flight.next
           \/ flight'.waiters = flight.waiters /\ flight'.next = flight.next \cup {r}
    BY <1>4, <2>1 DEF JoinSnapshot
  <2> QED BY <1>0, <2>1, <2>2, <2>3 DEF FlightInv, AllWaiters
<1>5. ASSUME NEW s \in Subs, CloseSub(s)
      PROVE  FlightInv'
  <2>1. flight \in [id : Ids \cup {NoId}, gate : {"open", "sealed"},
                    waiters : SUBSET Requests, next : SUBSET Requests]
    BY DEF TypeOK
  <2>2. /\ flight'.id = flight.id /\ seq' = seq
        /\ flight'.waiters \subseteq flight.waiters /\ flight'.next \subseteq flight.next
        /\ flight = NoFlight => flight' = NoFlight
    BY <1>0, <1>5, <2>1 DEF CloseSub
  <2> QED BY <1>0, <2>2 DEF FlightInv, AllWaiters
<1>6. ASSUME NEW o \in Outcomes, NEW F \in SUBSET Ids, Ends(o, F)
      PROVE  FlightInv'
  BY <1>0, <1>2, <1>3, <1>6, FinishIs DEF Ends
<1>7. CASE \E r \in Requests : StartSnapshot(r)
  <2>1. PICK r \in Requests : StartSnapshot(r)
    BY <1>7
  <2>2. /\ flight' = Snapshot(Id("ctx", seq.ctx + 1), {r}) /\ seq' = [seq EXCEPT !.ctx = @ + 1]
        /\ KindOf[r] = "context"
    BY <2>1 DEF StartSnapshot
  <2> QED BY <1>3, <2>2
<1>8. ASSUME NEW r \in Requests, NEW c \in Changes \cup {NoChange}, SendRequest(r, c)
      PROVE  FlightInv'
  <2>1. flight' \in {flight, Sealed(flight)} /\ seq' = [seq EXCEPT !.req = @ + 1]
    BY <1>8 DEF SendRequest, SealedBy
  <2> QED BY <1>1, <2>1, Growing
<1>9. CASE Idle \/ (\E r \in Requests : Refused(r)) \/ (\E c \in Changes : PassOn(c))
           \/ (\E F \in SUBSET Ids : Drops(F)) \/ SeePush \/ SessionEnds \/ Serve
           \/ \E c \in Changes : PedalChanges(c)
  <2>1. flight' \in {flight, Sealed(flight)} /\ seq' = seq
    BY <1>9 DEF Idle, Refused, PassOn, Drops, SeePush, SessionEnds, Serve, PedalChanges, KeepsTables
  <2> QED BY <1>1, <2>1
<1>10. ASSUME NEW p \in pending, NEW o \in Outcomes, NEW F \in SUBSET Ids, Leaves(p, o, F)
       PROVE  FlightInv'
  BY <1>1, <1>10 DEF Leaves
<1>11. CASE Stop \/ SeeDown
  BY <1>2, <1>11 DEF Stop, SeeDown
<1> QED BY <1>4, <1>5, <1>6, <1>7, <1>8, <1>9, <1>10, <1>11, StepCases

\* What a snapshot that ends answers, and what it leaves to the next one.
LEMMA FinishTells ==
  ASSUME TypeOK, FlightInv, NEW o \in Outcomes, NEW F, Finish(o, F)
  PROVE  \/ /\ flight' = Snapshot(Id("ctx", seq.ctx + 1), flight.next)
            /\ AllWaiters' = flight.next
            /\ \A q \in Requests : /\ call'[q] = IF q \in flight.waiters THEN "done" ELSE call[q]
                                   /\ due'[q] = IF q \in flight.waiters THEN {} ELSE due[q]
         \/ /\ flight' = NoFlight /\ AllWaiters' = {}
            /\ \A q \in Requests : /\ call'[q] = IF q \in AllWaiters THEN "done" ELSE call[q]
                                   /\ due'[q] = IF q \in AllWaiters THEN {} ELSE due[q]
<1>0. flight.waiters \in SUBSET Requests /\ flight.next \in SUBSET Requests
  BY FlightType
<1>1. CASE /\ Answer(Say(flight.waiters, o))
           /\ flight' = Snapshot(Id("ctx", seq.ctx + 1), flight.next)
  BY <1>0, <1>1, SayTells DEF AllWaiters, Snapshot
<1>2. CASE /\ Answer(Say(flight.waiters, o) \cup Say(flight.next, Failed))
           /\ flight' = NoFlight
  BY <1>0, <1>2, SayTellsBoth DEF AllWaiters, NoFlight, Snapshot
<1> QED BY <1>1, <1>2, FinishIs

\* A closed client leaves only the reads it has sent for everybody.
LEMMA CloseTells ==
  ASSUME TypeOK, PendingInv, NEW s \in Subs, CloseSub(s)
  PROVE  /\ subs' = subs \ {s} /\ index' = [index EXCEPT ![s] = {}]
         /\ flight'.waiters = {r \in flight.waiters : Owner[r] # s}
         /\ flight'.next = {r \in flight.next : Owner[r] # s}
         /\ AllWaiters' = {r \in AllWaiters : Owner[r] # s}
         /\ flight'.id = flight.id /\ flight'.gate = flight.gate
         /\ \A p \in pending : Owner[p.req] # s => p \in pending'
         /\ \A p \in pending : Owner[p.req] = s /\ KindOf[p.req] = "open" =>
              [p EXCEPT !.mine = FALSE] \in pending'
         /\ \A q \in pending' : \E p \in pending :
              /\ q.id = p.id /\ q.req = p.req
              /\ \/ Owner[p.req] # s /\ q = p
                 \/ Owner[p.req] = s /\ KindOf[p.req] = "open" /\ q.mine = FALSE
                    /\ q = [p EXCEPT !.mine = FALSE]
<1>1. /\ flight \in [id : Ids \cup {NoId}, gate : {"open", "sealed"},
                    waiters : SUBSET Requests, next : SUBSET Requests]
      /\ \A p \in pending : p \in [id : {"req"} \X (1 .. seq.req), req : Requests, mine : BOOLEAN]
  BY DEF TypeOK
<1>2. /\ flight'.waiters = {r \in flight.waiters : Owner[r] # s}
      /\ flight'.next = {r \in flight.next : Owner[r] # s}
      /\ flight'.id = flight.id /\ flight'.gate = flight.gate
  BY <1>1 DEF CloseSub, OfSub
<1>3. AllWaiters' = {r \in AllWaiters : Owner[r] # s}
  BY <1>2 DEF AllWaiters
<1>4. pending' = {p \in pending : Owner[p.req] # s}
                   \cup {[p EXCEPT !.mine = FALSE] : p \in {q \in pending : Owner[q.req] = s /\ KindOf[q.req] = "open"}}
  BY DEF CloseSub, IsOpenRead
<1>5. ASSUME NEW q \in pending'
      PROVE  \E p \in pending :
              /\ q.id = p.id /\ q.req = p.req
              /\ \/ Owner[p.req] # s /\ q = p
                 \/ Owner[p.req] = s /\ KindOf[p.req] = "open" /\ q.mine = FALSE
                    /\ q = [p EXCEPT !.mine = FALSE]
  <2>1. CASE q \in {p \in pending : Owner[p.req] # s}
    BY <2>1
  <2>2. CASE \E p \in pending : Owner[p.req] = s /\ KindOf[p.req] = "open" /\ q = [p EXCEPT !.mine = FALSE]
    BY <1>1, <2>2
  <2> QED BY <1>4, <1>5, <2>1, <2>2
<1>6. subs' = subs \ {s} /\ index' = [index EXCEPT ![s] = {}]
  BY DEF CloseSub
<1> QED BY <1>2, <1>3, <1>4, <1>5, <1>6

\* The table lists no request twice, and no id; it lists those of the clients that are there
\* as theirs.
LEMMA PendingStep ==
  ASSUME IInv, [Next]_vars
  PROVE  PendingInv'
<1>0. TypeOK /\ OwnInv /\ WaitingInv /\ PendingInv
  BY DEF IInv
<1>1. ASSUME pending' \subseteq pending, subs' = subs
      PROVE  PendingInv'
  BY <1>0, <1>1 DEF PendingInv
<1>2. ASSUME NEW r \in Requests, NEW c \in Changes \cup {NoChange}, SendRequest(r, c)
      PROVE  PendingInv'
  <2>1. /\ pending' = pending \cup {[id |-> <<"req", seq.req + 1>>, req |-> r, mine |-> TRUE]}
        /\ subs' = subs /\ Owner[r] \in subs /\ KindOf[r] # "context"
    BY <1>0, <1>2, IdTypes DEF SendRequest, PrivateId, Accepted, Asks
  <2>2. \A p \in pending : p.req # r
    BY <1>0, <1>2, NewIsNotKept DEF Kept, SendRequest, Accepted
  <2>3. \A p \in pending : p.id # <<"req", seq.req + 1>>
    BY <1>0, IdTypes DEF TypeOK
  <2>4. PICK n : n = [id |-> <<"req", seq.req + 1>>, req |-> r, mine |-> TRUE]
    OBVIOUS
  <2>5. n.id = <<"req", seq.req + 1>> /\ n.req = r /\ n.mine = TRUE /\ pending' = pending \cup {n}
    BY <2>1, <2>4
  <2>6. /\ \A p, q \in pending : p.req = q.req \/ p.id = q.id => p = q
        /\ \A p \in pending : KindOf[p.req] # "context" /\ (p.mine <=> Owner[p.req] \in subs)
    BY <1>0 DEF PendingInv
  <2>7. \A p, q \in pending' : p.req = q.req \/ p.id = q.id => p = q
    BY <2>2, <2>3, <2>5, <2>6
  <2>8. \A p \in pending' : KindOf[p.req] # "context" /\ (p.mine <=> Owner[p.req] \in subs')
    BY <2>1, <2>5, <2>6
  <2> QED BY <2>7, <2>8 DEF PendingInv
<1>3. ASSUME NEW s \in Subs, CloseSub(s)
      PROVE  PendingInv'
  <2>0. /\ \A p, q \in pending : p.req = q.req \/ p.id = q.id => p = q
        /\ \A p \in pending : KindOf[p.req] # "context" /\ (p.mine <=> Owner[p.req] \in subs)
    BY <1>0 DEF PendingInv
  <2>1. \A q \in pending' : \E p \in pending :
              /\ q.id = p.id /\ q.req = p.req
              /\ \/ Owner[p.req] # s /\ q = p
                 \/ Owner[p.req] = s /\ KindOf[p.req] = "open" /\ q.mine = FALSE
                    /\ q = [p EXCEPT !.mine = FALSE]
    BY <1>0, <1>3, CloseTells
  <2>2. subs' = subs \ {s}
    BY <1>0, <1>3, CloseTells
  <2>3. ASSUME NEW p \in pending', NEW q \in pending', p.req = q.req \/ p.id = q.id
        PROVE  p = q
    <3>1. PICK a \in pending : /\ p.id = a.id /\ p.req = a.req
                               /\ \/ Owner[a.req] # s /\ p = a
                                  \/ Owner[a.req] = s /\ p = [a EXCEPT !.mine = FALSE]
      BY <2>1
    <3>2. PICK b \in pending : /\ q.id = b.id /\ q.req = b.req
                               /\ \/ Owner[b.req] # s /\ q = b
                                  \/ Owner[b.req] = s /\ q = [b EXCEPT !.mine = FALSE]
      BY <2>1
    <3>3. a.req = b.req \/ a.id = b.id
      BY <2>3, <3>1, <3>2
    <3>4. a = b
      BY <2>0, <3>3
    <3> QED BY <3>1, <3>2, <3>4
  <2>4. ASSUME NEW p \in pending'
        PROVE  KindOf[p.req] # "context" /\ (p.mine <=> Owner[p.req] \in subs')
    BY <2>0, <2>1, <2>2, <2>4
  <2> QED BY <2>3, <2>4 DEF PendingInv
<1>4. CASE Idle \/ (\E r \in Requests : Refused(r)) \/ (\E r \in Requests : JoinSnapshot(r))
           \/ (\E r \in Requests : StartSnapshot(r)) \/ (\E c \in Changes : PassOn(c))
           \/ (\E o \in Outcomes, F \in SUBSET Ids : Ends(o, F))
           \/ (\E p \in pending, o \in Outcomes, F \in SUBSET Ids : Leaves(p, o, F))
           \/ (\E F \in SUBSET Ids : Drops(F)) \/ SeePush \/ SeeDown \/ SessionEnds \/ Serve
           \/ \E c \in Changes : PedalChanges(c)
  <2>1. pending' \subseteq pending /\ subs' = subs
    BY <1>4 DEF Idle, Refused, JoinSnapshot, StartSnapshot, PassOn, Ends, Leaves, Without, Drops, SeePush,
                SeeDown, SessionEnds, Serve, PedalChanges, KeepsTables, requestVars
  <2> QED BY <1>1, <2>1
<1>5. CASE Stop
  BY <1>5 DEF Stop, PendingInv
<1> QED BY <1>0, <1>2, <1>3, <1>4, <1>5, StepCases

\* What is kept is still what somebody waits for.
LEMMA WaitingStep ==
  ASSUME IInv, [Next]_vars
  PROVE  WaitingInv'
<1>0. /\ TypeOK /\ OwnInv /\ WaitingInv /\ PendingInv /\ FlightInv
      /\ \A r \in Requests : Waiting(r) <=> Kept(r)
  BY DEF IInv, WaitingInv
<1>1. ASSUME flight'.waiters = flight.waiters, flight'.next = flight.next, pending' = pending,
             call' = call, subs' = subs, link' = "off" <=> link = "off"
      PROVE  WaitingInv'
  <2>1. \A r \in Requests : (Waiting(r)' <=> Waiting(r)) /\ (Kept(r)' <=> Kept(r))
    BY <1>1 DEF Waiting, Kept, AllWaiters
  <2> QED BY <1>0, <2>1 DEF WaitingInv
<1>2. ASSUME NEW r \in Requests, Asks(r), call'[r] # "waiting",
             \A q \in Requests \ {r} : call'[q] = call[q],
             flight'.waiters = flight.waiters, flight'.next = flight.next, pending' = pending,
             subs' = subs, link' = link
      PROVE  WaitingInv'
  <2>1. ~Kept(r)
    BY <1>0, <1>2, NewIsNotKept
  <2>2. \A q \in Requests : Kept(q)' <=> Kept(q)
    BY <1>2 DEF Kept, AllWaiters
  <2>3. \A q \in Requests \ {r} : Waiting(q)' <=> Waiting(q)
    BY <1>2 DEF Waiting
  <2>4. ~Waiting(r)'
    BY <1>2 DEF Waiting
  <2> QED BY <1>0, <2>1, <2>2, <2>3, <2>4 DEF WaitingInv
<1>3. ASSUME NEW r \in Requests, Accepted(r), Waits(r),
             \A q \in Requests \ {r} : Kept(q)' <=> Kept(q), Kept(r)',
             subs' = subs, link' = link
      PROVE  WaitingInv'
  <2>1. call'[r] = "waiting" /\ \A q \in Requests \ {r} : call'[q] = call[q]
    BY <1>0, <1>3, WaitsType
  <2>2. Waiting(r)'
    BY <1>3, <2>1 DEF Waiting, Accepted, Asks, connected
  <2>3. \A q \in Requests \ {r} : Waiting(q)' <=> Waiting(q)
    BY <1>3, <2>1 DEF Waiting
  <2> QED BY <1>0, <1>3, <2>2, <2>3 DEF WaitingInv
<1>4. ASSUME NEW R \in SUBSET Requests,
             \A q \in Requests : call'[q] = IF q \in R THEN "done" ELSE call[q],
             \A q \in Requests : Kept(q)' <=> Kept(q) /\ q \notin R,
             subs' = subs, link' = link
      PROVE  WaitingInv'
  <2>1. \A q \in Requests : Waiting(q)' <=> Waiting(q) /\ q \notin R
    BY <1>4 DEF Waiting
  <2> QED BY <1>0, <1>4, <2>1 DEF WaitingInv
<1>5. CASE Idle \/ (\E c \in Changes : PassOn(c)) \/ (\E F \in SUBSET Ids : Drops(F)) \/ SeePush
           \/ SessionEnds \/ Serve \/ \E c \in Changes : PedalChanges(c)
  <2>1. flight' \in {flight, Sealed(flight)} /\ pending' = pending /\ call' = call /\ subs' = subs
    BY <1>5 DEF Idle, PassOn, Drops, SeePush, SessionEnds, Serve, PedalChanges, KeepsTables,
                requestVars, waitingVars
  <2>2. link' = "off" <=> link = "off"
    BY <1>5 DEF Idle, PassOn, Drops, SeePush, SessionEnds, Serve, PedalChanges, connected
  <2> QED BY <1>0, <1>1, <2>1, <2>2, SealedIs
<1>6. ASSUME NEW r \in Requests, Refused(r)
      PROVE  WaitingInv'
  <2>1. flight' \in {flight, Sealed(flight)} /\ UNCHANGED <<pending, subs, link>> /\ Asks(r)
    BY <1>6 DEF Refused, KeepsTables
  <2>2. \A q \in Requests : call'[q] = IF q \in {r} THEN "done" ELSE call[q]
    BY <1>6, SayTells DEF Refused, Refuse
  <2> QED BY <1>0, <1>2, <2>1, <2>2, SealedIs
<1>7. ASSUME NEW r \in Requests, JoinSnapshot(r)
      PROVE  WaitingInv'
  <2>1. AllWaiters' = AllWaiters \cup {r} /\ UNCHANGED <<pending, subs, link>> /\ Waits(r) /\ Accepted(r)
    BY <1>0, <1>7 DEF JoinSnapshot, TypeOK, AllWaiters, captainVars, requestVars
  <2> QED BY <1>3, <2>1 DEF Kept
<1>8. ASSUME NEW r \in Requests, StartSnapshot(r)
      PROVE  WaitingInv'
  <2>1. AllWaiters' = {r} /\ UNCHANGED <<pending, subs, link>> /\ Waits(r) /\ Accepted(r)
    BY <1>8 DEF StartSnapshot, AllWaiters, Snapshot, requestVars
  <2>2. AllWaiters = {}
    BY <1>8 DEF StartSnapshot, InFlight, AllWaiters, NoFlight, Snapshot
  <2> QED BY <1>3, <2>1, <2>2 DEF Kept
<1>9. ASSUME NEW r \in Requests, NEW c \in Changes \cup {NoChange}, SendRequest(r, c)
      PROVE  WaitingInv'
  <2>1. /\ flight' \in {flight, Sealed(flight)} /\ UNCHANGED <<subs, link>> /\ Waits(r) /\ Accepted(r)
        /\ pending' = pending \cup {[id |-> Id("req", seq.req + 1), req |-> r, mine |-> TRUE]}
    BY <1>9 DEF SendRequest, SealedBy, PrivateId
  <2>2. AllWaiters' = AllWaiters
    BY <1>0, <2>1, SealedIs DEF AllWaiters
  <2>3. PICK n : n = [id |-> Id("req", seq.req + 1), req |-> r, mine |-> TRUE]
    OBVIOUS
  <2>4. pending' = pending \cup {n} /\ n.req = r
    BY <2>1, <2>3
  <2>5. \A q \in Requests \ {r} : Kept(q)' <=> Kept(q)
    BY <2>2, <2>4 DEF Kept
  <2>6. Kept(r)'
    BY <2>4 DEF Kept
  <2> QED BY <1>3, <2>1, <2>5, <2>6
<1>10. ASSUME NEW s \in Subs, CloseSub(s)
       PROVE  WaitingInv'
  <2>1. /\ subs' = subs \ {s} /\ call' = call /\ link' = link
    BY <1>10 DEF CloseSub, captainVars, waitingVars
  <2>2. \A r \in Requests : Waiting(r)' <=> Waiting(r) /\ (Owner[r] # s \/ KindOf[r] = "open")
    BY <2>1, RequestsAssumption DEF Waiting
  <2>3. AllWaiters' = {r \in AllWaiters : Owner[r] # s}
    BY <1>0, <1>10, CloseTells
  <2>4. \A r \in AllWaiters : KindOf[r] = "context"
    BY <1>0 DEF FlightInv
  <2>5. ASSUME NEW r \in Requests
        PROVE  (\E q \in pending' : q.req = r)
                 <=> (\E p \in pending : p.req = r) /\ (Owner[r] # s \/ KindOf[r] = "open")
    <3>1. ASSUME NEW q \in pending', q.req = r
          PROVE  (\E p \in pending : p.req = r) /\ (Owner[r] # s \/ KindOf[r] = "open")
      <4>1. \E p \in pending :
              /\ q.id = p.id /\ q.req = p.req
              /\ \/ Owner[p.req] # s /\ q = p
                 \/ Owner[p.req] = s /\ KindOf[p.req] = "open" /\ q.mine = FALSE
                    /\ q = [p EXCEPT !.mine = FALSE]
        BY <1>0, <1>10, CloseTells
      <4> QED BY <3>1, <4>1
    <3>2. ASSUME NEW p \in pending, p.req = r, Owner[r] # s \/ KindOf[r] = "open"
          PROVE  \E q \in pending' : q.req = r
      <4>1. p \in [id : {"req"} \X (1 .. seq.req), req : Requests, mine : BOOLEAN]
        BY <1>0 DEF TypeOK
      <4>2. [p EXCEPT !.mine = FALSE].req = r
        BY <3>2, <4>1
      <4>3. p \in pending' \/ [p EXCEPT !.mine = FALSE] \in pending'
        BY <1>0, <1>10, <3>2, CloseTells
      <4> QED BY <3>2, <4>2, <4>3
    <3> QED BY <3>1, <3>2
  <2>6. \A r \in Requests : Kept(r)' <=> Kept(r) /\ (Owner[r] # s \/ KindOf[r] = "open")
    BY <2>3, <2>4, <2>5 DEF Kept
  <2> QED BY <1>0, <2>2, <2>6 DEF WaitingInv
<1>11. ASSUME NEW o \in Outcomes, NEW F \in SUBSET Ids, Ends(o, F)
       PROVE  WaitingInv'
  <2>1. Finish(o, F) /\ UNCHANGED <<pending, subs, link>>
    BY <1>11 DEF Ends
  <2>2. /\ \A r \in AllWaiters : KindOf[r] = "context"
        /\ flight.waiters \cap flight.next = {}
        /\ \A p \in pending : KindOf[p.req] # "context"
    BY <1>0 DEF FlightInv, PendingInv
  <2>3. flight.waiters \in SUBSET Requests /\ AllWaiters \in SUBSET Requests
    BY <1>0, FlightType
  <2>4. CASE /\ AllWaiters' = flight.next
             /\ \A q \in Requests : call'[q] = IF q \in flight.waiters THEN "done" ELSE call[q]
    <3>1. \A q \in Requests : Kept(q)' <=> Kept(q) /\ q \notin flight.waiters
      BY <2>1, <2>2, <2>4 DEF Kept, AllWaiters
    <3> QED BY <1>4, <2>1, <2>3, <2>4, <3>1
  <2>5. CASE /\ AllWaiters' = {}
             /\ \A q \in Requests : call'[q] = IF q \in AllWaiters THEN "done" ELSE call[q]
    <3>1. \A q \in Requests : Kept(q)' <=> Kept(q) /\ q \notin AllWaiters
      BY <2>1, <2>2, <2>5 DEF Kept
    <3> QED BY <1>4, <2>1, <2>3, <2>5, <3>1
  <2> QED BY <1>0, <2>1, <2>4, <2>5, FinishTells
<1>12. ASSUME NEW p \in pending, NEW o \in Outcomes, NEW F \in SUBSET Ids, Leaves(p, o, F)
       PROVE  WaitingInv'
  <2>1. Answer(Say({p.req}, o)) /\ pending' = pending \ {p} /\ UNCHANGED <<subs, link, flight>>
    BY <1>12 DEF Leaves, Without
  <2>2. {p.req} \in SUBSET Requests
    BY <1>0 DEF TypeOK
  <2>3. \A q \in Requests : call'[q] = IF q \in {p.req} THEN "done" ELSE call[q]
    BY <2>1, <2>2, SayTells
  <2>4. /\ \A q \in pending : q.req = p.req => q = p
        /\ p.req \notin AllWaiters /\ AllWaiters' = AllWaiters
    BY <1>0, <2>1 DEF PendingInv, FlightInv, AllWaiters
  <2>5. \A q \in Requests : Kept(q)' <=> Kept(q) /\ q \notin {p.req}
    BY <2>1, <2>4 DEF Kept
  <2> QED BY <1>4, <2>1, <2>2, <2>3, <2>5
<1>13. CASE Stop
  <2>1. link' = "off" /\ AllWaiters' = {} /\ pending' = {}
    BY <1>13 DEF Stop, AllWaiters, NoFlight, Snapshot
  <2> QED BY <2>1 DEF WaitingInv, Waiting, Kept
<1>14. CASE SeeDown
  <2>1. AllWaiters \cup {p.req : p \in pending} \in SUBSET Requests
    BY <1>0, FlightType DEF TypeOK
  <2>2. \A q \in Requests : call'[q] = IF q \in AllWaiters \cup {p.req : p \in pending} THEN "done" ELSE call[q]
    BY <1>14, <2>1, SayTells DEF SeeDown
  <2>3. AllWaiters' = {} /\ pending' = {} /\ UNCHANGED <<subs, link>>
    BY <1>14 DEF SeeDown, AllWaiters, NoFlight, Snapshot, captainVars
  <2>4. \A q \in Requests : Kept(q)' <=> Kept(q) /\ q \notin AllWaiters \cup {p.req : p \in pending}
    BY <2>3 DEF Kept
  <2> QED BY <1>4, <2>1, <2>2, <2>3, <2>4
<1> QED
  BY <1>0, <1>5, <1>6, <1>7, <1>8, <1>9, <1>10, <1>11, <1>12, <1>13, <1>14, StepCases

(***************************************************************************)
(* The index and the limits.                                               *)
(***************************************************************************)
\* The ids the index lists for a client.
Listed(s) == {p.id : p \in {q \in pending : q.mine /\ Owner[q.req] = s}}

\* The index lists what is pending for each client.
LEMMA IndexStep ==
  ASSUME IInv, [Next]_vars
  PROVE  IndexInv'
<1>00. TypeOK /\ PendingInv
  BY DEF IInv
<1>0. /\ TypeOK /\ OwnInv /\ PendingInv
      /\ \A s \in Subs : index[s] = Listed(s)
      /\ \A p, q \in pending : p.id = q.id => p = q
  BY DEF IInv, IndexInv, PendingInv, Listed
<1>1. ASSUME \A s \in Subs : index'[s] = Listed(s)'
      PROVE  IndexInv'
  BY <1>1 DEF IndexInv, Listed
<1>2. CASE UNCHANGED <<pending, index>>
  <2>1. \A s \in Subs : index'[s] = Listed(s)'
    BY <1>0, <1>2 DEF Listed
  <2> QED BY <1>1, <2>1
<1>3. CASE pending' = {} /\ index' = [s \in Subs |-> {}]
  <2>1. \A s \in Subs : index'[s] = Listed(s)'
    BY <1>3 DEF Listed
  <2> QED BY <1>1, <2>1
<1>4. ASSUME NEW r \in Requests, NEW c \in Changes \cup {NoChange}, SendRequest(r, c)
      PROVE  IndexInv'
  <2>1. PICK n : n = [id |-> Id("req", seq.req + 1), req |-> r, mine |-> TRUE]
    OBVIOUS
  <2>2. n.id = Id("req", seq.req + 1) /\ n.req = r /\ n.mine = TRUE
    BY <2>1
  <2>3. pending' = pending \cup {n} /\ index' = [index EXCEPT ![Owner[r]] = @ \cup {n.id}]
    BY <1>4, <2>1, <2>2 DEF SendRequest, PrivateId
  <2>4. index \in [Subs -> SUBSET ({"req"} \X (1 .. seq.req))] /\ Owner[r] \in Subs
    BY <1>0, RequestsAssumption DEF TypeOK
  <2>5. \A s \in Subs : Listed(s)' = Listed(s) \cup (IF s = Owner[r] THEN {n.id} ELSE {})
    BY <2>2, <2>3 DEF Listed
  <2>6. \A s \in Subs : index'[s] = index[s] \cup (IF s = Owner[r] THEN {n.id} ELSE {})
    BY <2>3, <2>4
  <2>7. ASSUME NEW s \in Subs
        PROVE  index'[s] = Listed(s)'
    <3>1. index[s] = Listed(s)
      BY <1>0
    <3>2. Listed(s)' = Listed(s) \cup (IF s = Owner[r] THEN {n.id} ELSE {})
      BY <2>5
    <3>3. index'[s] = index[s] \cup (IF s = Owner[r] THEN {n.id} ELSE {})
      BY <2>6
    <3> QED BY <3>1, <3>2, <3>3
  <2> QED BY <1>1, <2>7
<1>5. ASSUME NEW s \in Subs, CloseSub(s)
      PROVE  IndexInv'
  <2>1. index' = [index EXCEPT ![s] = {}] /\ index \in [Subs -> SUBSET ({"req"} \X (1 .. seq.req))]
    BY <1>0, <1>5, CloseTells DEF TypeOK
  <2>2. ASSUME NEW t \in Subs
        PROVE  index'[t] = Listed(t)'
    <3>1. CASE t = s
      <4>1. \A q \in pending' : ~(q.mine /\ Owner[q.req] = s)
        <5>1. ASSUME NEW q \in pending'
              PROVE  ~(q.mine /\ Owner[q.req] = s)
          <6>1. \E p \in pending :
                  /\ q.id = p.id /\ q.req = p.req
                  /\ \/ Owner[p.req] # s /\ q = p
                     \/ Owner[p.req] = s /\ KindOf[p.req] = "open" /\ q.mine = FALSE
                        /\ q = [p EXCEPT !.mine = FALSE]
            BY <1>00, <1>5, CloseTells
          <6> QED BY <6>1
        <5> QED BY <5>1
      <4>2. Listed(s)' = {}
        BY <4>1 DEF Listed
      <4> QED BY <2>1, <3>1, <4>2
    <3>2. CASE t # s
      <4>1. \A q : q \in pending' /\ Owner[q.req] = t <=> q \in pending /\ Owner[q.req] = t
        <5>1. ASSUME NEW q \in pending', Owner[q.req] = t
              PROVE  q \in pending
          <6>1. \E p \in pending :
                  /\ q.id = p.id /\ q.req = p.req
                  /\ \/ Owner[p.req] # s /\ q = p
                     \/ Owner[p.req] = s /\ KindOf[p.req] = "open" /\ q.mine = FALSE
                        /\ q = [p EXCEPT !.mine = FALSE]
            BY <1>00, <1>5, CloseTells
          <6> QED BY <3>2, <5>1, <6>1
        <5>2. ASSUME NEW q \in pending, Owner[q.req] = t
              PROVE  q \in pending'
          BY <1>0, <1>5, <3>2, <5>2, CloseTells
        <5> QED BY <5>1, <5>2
      <4>2. Listed(t)' = Listed(t)
        BY <4>1 DEF Listed
      <4> QED BY <1>0, <2>1, <3>2, <4>2
    <3> QED BY <3>1, <3>2
  <2> QED BY <1>1, <2>2
<1>6. ASSUME NEW p \in pending, NEW o \in Outcomes, NEW F \in SUBSET Ids, Leaves(p, o, F)
      PROVE  IndexInv'
  <2>1. /\ pending' = pending \ {p}
        /\ index' = [s \in Subs |-> IF s = Owner[p.req] /\ p.mine THEN index[s] \ {p.id} ELSE index[s]]
    BY <1>6 DEF Leaves, Without
  <2>2. \A s \in Subs : Listed(s)' = IF s = Owner[p.req] /\ p.mine THEN Listed(s) \ {p.id} ELSE Listed(s)
    BY <1>0, <2>1 DEF Listed
  <2> QED BY <1>0, <1>1, <2>1, <2>2
<1>7. CASE Idle \/ (\E r \in Requests : Refused(r)) \/ (\E r \in Requests : JoinSnapshot(r))
           \/ (\E r \in Requests : StartSnapshot(r)) \/ (\E c \in Changes : PassOn(c))
           \/ (\E o \in Outcomes, F \in SUBSET Ids : Ends(o, F))
           \/ (\E F \in SUBSET Ids : Drops(F)) \/ SeePush \/ SessionEnds \/ Serve
           \/ \E c \in Changes : PedalChanges(c)
  <2>1. UNCHANGED <<pending, index>>
    BY <1>7 DEF Idle, Refused, JoinSnapshot, StartSnapshot, PassOn, Ends, Drops, SeePush, SessionEnds,
                Serve, PedalChanges, KeepsTables, requestVars
  <2> QED BY <1>2, <2>1
<1>8. CASE Stop \/ SeeDown
  BY <1>3, <1>8 DEF Stop, SeeDown
<1> QED BY <1>0, <1>4, <1>5, <1>6, <1>7, <1>8, StepCases

\* One more, where one more was allowed.
LEMMA OneMore ==
  ASSUME NEW S, IsFiniteSet(S), NEW x, NEW max \in Nat, Cardinality(S) < max
  PROVE  IsFiniteSet(S \cup {x}) /\ Cardinality(S \cup {x}) <= max
<1>1. Cardinality(S) \in Nat
  BY FS_CardinalityType
<1>2. /\ IsFiniteSet(S \cup {x})
      /\ Cardinality(S \cup {x}) = IF x \in S THEN Cardinality(S) ELSE Cardinality(S) + 1
  BY FS_AddElement
<1> QED BY <1>1, <1>2

LEMMA NoMore ==
  ASSUME NEW S, IsFiniteSet(S), NEW T \in SUBSET S, NEW max \in Nat, Cardinality(S) <= max
  PROVE  IsFiniteSet(T) /\ Cardinality(T) <= max
BY FS_Subset, FS_CardinalityType

\* The limits, for the snapshots: their waiters are taken away, or one is added below them.
LEMMA WaitersLimited ==
  ASSUME LimitInv
  PROVE  /\ AllWaiters' \subseteq AllWaiters =>
              /\ IsFiniteSet(AllWaiters') /\ Cardinality(AllWaiters') <= ContextMax
              /\ \A s \in Subs : Cardinality(OfSub(s, AllWaiters')) <= ContextPerSubMax
         /\ \A r \in Requests : ~TooManyWaiters(Owner[r]) /\ AllWaiters' = AllWaiters \cup {r} =>
              /\ IsFiniteSet(AllWaiters') /\ Cardinality(AllWaiters') <= ContextMax
              /\ \A s \in Subs : Cardinality(OfSub(s, AllWaiters')) <= ContextPerSubMax
<1>0. /\ ContextMax \in Nat /\ ContextPerSubMax \in Nat /\ \A r \in Requests : Owner[r] \in Subs
      /\ IsFiniteSet(AllWaiters) /\ Cardinality(AllWaiters) <= ContextMax
      /\ \A s \in Subs : Cardinality(OfSub(s, AllWaiters)) <= ContextPerSubMax
  BY BoundsAssumption, RequestsAssumption DEF LimitInv
<1>1. \A s \in Subs : OfSub(s, AllWaiters) \in SUBSET AllWaiters /\ IsFiniteSet(OfSub(s, AllWaiters))
  <2>1. \A s \in Subs : OfSub(s, AllWaiters) \in SUBSET AllWaiters
    BY DEF OfSub
  <2> QED BY <1>0, <2>1, FS_Subset
<1>2. ASSUME AllWaiters' \subseteq AllWaiters
      PROVE  /\ IsFiniteSet(AllWaiters') /\ Cardinality(AllWaiters') <= ContextMax
             /\ \A s \in Subs : Cardinality(OfSub(s, AllWaiters')) <= ContextPerSubMax
  <2>1. \A s \in Subs : OfSub(s, AllWaiters') \in SUBSET OfSub(s, AllWaiters)
    BY <1>2 DEF OfSub
  <2> QED BY <1>0, <1>1, <1>2, <2>1, NoMore
<1>3. ASSUME NEW r \in Requests, ~TooManyWaiters(Owner[r]), AllWaiters' = AllWaiters \cup {r}
      PROVE  /\ IsFiniteSet(AllWaiters') /\ Cardinality(AllWaiters') <= ContextMax
             /\ \A s \in Subs : Cardinality(OfSub(s, AllWaiters')) <= ContextPerSubMax
  <2>1. Cardinality(AllWaiters) < ContextMax /\ Cardinality(OfSub(Owner[r], AllWaiters)) < ContextPerSubMax
    <3>1. Cardinality(AllWaiters) \in Nat /\ Cardinality(OfSub(Owner[r], AllWaiters)) \in Nat
      BY <1>0, <1>1, FS_CardinalityType
    <3> QED BY <1>0, <1>3, <3>1 DEF TooManyWaiters
  <2>2. ASSUME NEW s \in Subs
        PROVE  Cardinality(OfSub(s, AllWaiters')) <= ContextPerSubMax
    <3>1. CASE s = Owner[r]
      <4>1. OfSub(s, AllWaiters') = OfSub(s, AllWaiters) \cup {r}
        BY <1>3, <3>1 DEF OfSub
      <4> QED BY <1>0, <1>1, <2>1, <3>1, <4>1, OneMore
    <3>2. CASE s # Owner[r]
      <4>1. OfSub(s, AllWaiters') = OfSub(s, AllWaiters)
        BY <1>3, <3>2 DEF OfSub
      <4> QED BY <1>0, <4>1
    <3> QED BY <3>1, <3>2
  <2>3. IsFiniteSet(AllWaiters') /\ Cardinality(AllWaiters') <= ContextMax
    BY <1>0, <1>3, <2>1, OneMore
  <2> QED BY <2>2, <2>3
<1> QED BY <1>2, <1>3

\* The limits, for the table.
LEMMA TableLimited ==
  ASSUME TypeOK, LimitInv
  PROVE  /\ pending' \subseteq pending /\ (\A s \in Subs : index'[s] \subseteq index[s]) =>
              /\ IsFiniteSet(pending') /\ Cardinality(pending') <= RequestsMax
              /\ \A s \in Subs : IsFiniteSet(index'[s]) /\ Cardinality(index'[s]) <= RequestsPerSubMax
         /\ \A s \in Subs : \A n, i :
              ~TooManyRequests(s) /\ pending' = pending \cup {n} /\ index' = [index EXCEPT ![s] = @ \cup {i}] =>
              /\ IsFiniteSet(pending') /\ Cardinality(pending') <= RequestsMax
              /\ \A t \in Subs : IsFiniteSet(index'[t]) /\ Cardinality(index'[t]) <= RequestsPerSubMax
<1>0. /\ RequestsMax \in Nat /\ RequestsPerSubMax \in Nat
      /\ IsFiniteSet(pending) /\ Cardinality(pending) <= RequestsMax
      /\ \A s \in Subs : IsFiniteSet(index[s]) /\ Cardinality(index[s]) <= RequestsPerSubMax
      /\ index \in [Subs -> SUBSET ({"req"} \X (1 .. seq.req))]
  BY BoundsAssumption DEF LimitInv, TypeOK
<1>1. ASSUME pending' \subseteq pending, \A s \in Subs : index'[s] \subseteq index[s]
      PROVE  /\ IsFiniteSet(pending') /\ Cardinality(pending') <= RequestsMax
             /\ \A s \in Subs : IsFiniteSet(index'[s]) /\ Cardinality(index'[s]) <= RequestsPerSubMax
  BY <1>0, <1>1, NoMore
<1>2. ASSUME NEW s \in Subs, NEW n, NEW i, ~TooManyRequests(s), pending' = pending \cup {n},
             index' = [index EXCEPT ![s] = @ \cup {i}]
      PROVE  /\ IsFiniteSet(pending') /\ Cardinality(pending') <= RequestsMax
             /\ \A t \in Subs : IsFiniteSet(index'[t]) /\ Cardinality(index'[t]) <= RequestsPerSubMax
  <2>1. Cardinality(pending) < RequestsMax /\ Cardinality(index[s]) < RequestsPerSubMax
    <3>1. Cardinality(pending) \in Nat /\ Cardinality(index[s]) \in Nat
      BY <1>0, FS_CardinalityType
    <3> QED BY <1>0, <1>2, <3>1 DEF TooManyRequests
  <2>2. index'[s] = index[s] \cup {i} /\ \A t \in Subs \ {s} : index'[t] = index[t]
    BY <1>0, <1>2
  <2>3. IsFiniteSet(index'[s]) /\ Cardinality(index'[s]) <= RequestsPerSubMax
    <3>1. IsFiniteSet(index[s])
      BY <1>0
    <3>2. IsFiniteSet(index[s] \cup {i}) /\ Cardinality(index[s] \cup {i}) <= RequestsPerSubMax
      BY <1>0, <2>1, <3>1, OneMore
    <3> QED BY <2>2, <3>2
  <2>4. IsFiniteSet(pending') /\ Cardinality(pending') <= RequestsMax
    BY <1>0, <1>2, <2>1, OneMore
  <2> QED BY <1>0, <2>2, <2>3, <2>4
<1> QED BY <1>1, <1>2

\* A closed client's requests are at most as many as they were.
LEMMA CloseKeepsFew ==
  ASSUME TypeOK, PendingInv, PendingInv', LimitInv, NEW s \in Subs, CloseSub(s)
  PROVE  IsFiniteSet(pending') /\ Cardinality(pending') <= RequestsMax
<1> DEFINE f == [q \in pending' |-> CHOOSE p \in pending : p.id = q.id]
<1>1. \A q \in pending' : \E p \in pending : p.id = q.id
  <2>1. \A q \in pending' : \E p \in pending :
              /\ q.id = p.id /\ q.req = p.req
              /\ \/ Owner[p.req] # s /\ q = p
                 \/ Owner[p.req] = s /\ KindOf[p.req] = "open" /\ q.mine = FALSE
                    /\ q = [p EXCEPT !.mine = FALSE]
    BY CloseTells
  <2> QED BY <2>1
<1>2. \A q \in pending' : f[q] \in pending /\ f[q].id = q.id
  BY <1>1
<1>3. \A p, q \in pending' : p.id = q.id => p = q
  BY DEF PendingInv
<1>4. f \in Injection(pending', pending)
  <2>1. f \in [pending' -> pending]
    BY <1>2
  <2>2. \A p, q \in pending' : f[p] = f[q] => p = q
    BY <1>2, <1>3
  <2> HIDE DEF f
  <2> QED BY <2>1, <2>2 DEF Injection, IsInjective
<1>5. IsFiniteSet(pending) /\ Cardinality(pending) <= RequestsMax /\ RequestsMax \in Nat
  BY BoundsAssumption DEF LimitInv
<1>6. IsFiniteSet(pending') /\ Cardinality(pending') <= Cardinality(pending)
  BY <1>4, <1>5, FS_Injection
<1>7. Cardinality(pending) \in Nat /\ Cardinality(pending') \in Nat
  BY <1>5, <1>6, FS_CardinalityType
<1> QED BY <1>5, <1>6, <1>7

\* The limits hold, for each client and for all of them.
LEMMA LimitStep ==
  ASSUME IInv, [Next]_vars
  PROVE  LimitInv'
<1>0. TypeOK /\ OwnInv /\ LimitInv /\ PendingInv
  BY DEF IInv
<1> DEFINE Table == /\ IsFiniteSet(pending') /\ Cardinality(pending') <= RequestsMax
                    /\ \A s \in Subs : IsFiniteSet(index'[s]) /\ Cardinality(index'[s]) <= RequestsPerSubMax
           Waiters == /\ IsFiniteSet(AllWaiters') /\ Cardinality(AllWaiters') <= ContextMax
                      /\ \A s \in Subs : Cardinality(OfSub(s, AllWaiters')) <= ContextPerSubMax
<1>1. Table /\ Waiters => LimitInv'
  BY DEF LimitInv, OfSub
<1>2. pending' \subseteq pending /\ (\A s \in Subs : index'[s] \subseteq index[s]) => Table
  BY <1>0, TableLimited
<1>3. AllWaiters' \subseteq AllWaiters => Waiters
  BY <1>0, WaitersLimited
<1> HIDE DEF Table, Waiters
<1>4. CASE Idle \/ (\E r \in Requests : Refused(r)) \/ (\E c \in Changes : PassOn(c))
           \/ (\E F \in SUBSET Ids : Drops(F)) \/ SeePush \/ SessionEnds \/ Serve
           \/ \E c \in Changes : PedalChanges(c)
  <2>1. UNCHANGED <<pending, index>> /\ flight' \in {flight, Sealed(flight)}
    BY <1>4 DEF Idle, Refused, PassOn, Drops, SeePush, SessionEnds, Serve, PedalChanges, KeepsTables,
                requestVars
  <2>2. AllWaiters' = AllWaiters
    BY <1>0, <2>1, SealedIs DEF AllWaiters
  <2> QED BY <1>1, <1>2, <1>3, <2>1, <2>2
<1>5. ASSUME NEW r \in Requests, JoinSnapshot(r) \/ StartSnapshot(r)
      PROVE  LimitInv'
  <2>1. UNCHANGED <<pending, index>> /\ ~TooManyWaiters(Owner[r])
    BY <1>5 DEF JoinSnapshot, StartSnapshot, requestVars, Accepted, TooMany
  <2>2. AllWaiters' = AllWaiters \cup {r}
    <3>1. CASE JoinSnapshot(r)
      BY <1>0, <3>1 DEF JoinSnapshot, TypeOK, AllWaiters
    <3>2. CASE StartSnapshot(r)
      BY <3>2 DEF StartSnapshot, AllWaiters, Snapshot, InFlight, NoFlight
    <3> QED BY <1>5, <3>1, <3>2
  <2>3. Waiters
    BY <1>0, <2>1, <2>2, WaitersLimited DEF Waiters
  <2> QED BY <1>1, <1>2, <2>1, <2>3
<1>6. ASSUME NEW r \in Requests, NEW c \in Changes \cup {NoChange}, SendRequest(r, c)
      PROVE  LimitInv'
  <2>1. /\ flight' \in {flight, Sealed(flight)} /\ ~TooManyRequests(Owner[r]) /\ Owner[r] \in Subs
        /\ pending' = pending \cup {[id |-> Id("req", seq.req + 1), req |-> r, mine |-> TRUE]}
        /\ index' = [index EXCEPT ![Owner[r]] = @ \cup {Id("req", seq.req + 1)}]
    BY <1>6, RequestsAssumption DEF SendRequest, SealedBy, PrivateId, Accepted, TooMany
  <2>2. AllWaiters' = AllWaiters
    BY <1>0, <2>1, SealedIs DEF AllWaiters
  <2>3. Table
    BY <1>0, <2>1, TableLimited DEF Table
  <2> QED BY <1>1, <1>3, <2>2, <2>3
<1>7. ASSUME NEW s \in Subs, CloseSub(s)
      PROVE  LimitInv'
  <2>1. PendingInv'
    BY PendingStep
  <2>2. IsFiniteSet(pending') /\ Cardinality(pending') <= RequestsMax
    BY <1>0, <1>7, <2>1, CloseKeepsFew
  <2>3. index' = [index EXCEPT ![s] = {}] /\ index \in [Subs -> SUBSET ({"req"} \X (1 .. seq.req))]
    BY <1>7 , <1>0 DEF CloseSub, TypeOK
  <2>4. \A t \in Subs : IsFiniteSet(index'[t]) /\ Cardinality(index'[t]) <= RequestsPerSubMax
    <3>1. \A t \in Subs : IsFiniteSet(index[t]) /\ Cardinality(index[t]) <= RequestsPerSubMax
      BY <1>0 DEF LimitInv
    <3>2. \A t \in Subs : index'[t] \in SUBSET index[t]
      BY <2>3
    <3> QED BY <3>1, <3>2, NoMore, BoundsAssumption
  <2>5. AllWaiters' \subseteq AllWaiters
    BY <1>0, <1>7, CloseTells
  <2> QED BY <1>1, <1>3, <2>2, <2>4, <2>5 DEF Table
<1>8. ASSUME NEW o \in Outcomes, NEW F \in SUBSET Ids, Ends(o, F)
      PROVE  LimitInv'
  <2>1. UNCHANGED <<pending, index>> /\ Finish(o, F)
    BY <1>8 DEF Ends
  <2>2. flight' = Snapshot(Id("ctx", seq.ctx + 1), flight.next) \/ flight' = NoFlight
    BY <1>0, <2>1, FinishIs
  <2>3. AllWaiters' \subseteq AllWaiters
    BY <2>2 DEF AllWaiters, NoFlight, Snapshot
  <2> QED BY <1>1, <1>2, <1>3, <2>1, <2>3
<1>9. ASSUME NEW p \in pending, NEW o \in Outcomes, NEW F \in SUBSET Ids, Leaves(p, o, F)
      PROVE  LimitInv'
  <2>1. pending' \subseteq pending /\ (\A s \in Subs : index'[s] \subseteq index[s]) /\ flight' = flight
    BY <1>9 DEF Leaves, Without
  <2>2. AllWaiters' = AllWaiters
    BY <2>1 DEF AllWaiters
  <2> QED BY <1>1, <1>2, <1>3, <2>1, <2>2
<1>10. CASE Stop \/ SeeDown
  <2>1. pending' = {} /\ index' = [s \in Subs |-> {}] /\ flight' = NoFlight
    BY <1>10 DEF Stop, SeeDown
  <2>2. AllWaiters' = {}
    BY <2>1 DEF AllWaiters, NoFlight, Snapshot
  <2>3. pending' \subseteq pending /\ \A s \in Subs : index'[s] \subseteq index[s]
    BY <2>1
  <2> QED BY <1>1, <1>2, <1>3, <2>2, <2>3
<1> QED BY <1>0, <1>4, <1>5, <1>6, <1>7, <1>8, <1>9, <1>10, StepCases

(***************************************************************************)
(* The lines and the replies.                                              *)
(***************************************************************************)
ContextLine == Line(Id("ctx", seq.ctx + 1), NoRequest, NoChange)
Sent(l) ==
  \/ l.id = NoId
  \/ l = ContextLine /\ seq' = [seq EXCEPT !.ctx = @ + 1]
  \/ \E r \in Requests, c \in Changes \cup {NoChange} :
       SendRequest(r, c) /\ l = Line(Id("req", seq.req + 1), r, c)
Says(e) ==
  \/ e.type = "down"
  \/ e.type = "push" /\ e.val \subseteq made'
  \/ /\ e.type \in {"reply", "error"} /\ wire # <<>> /\ e.id = wire[1].id /\ Serve
     /\ e.type = "reply" => e.of = wire[1].of /\ e.val = made'

\* What goes into the wire and into what is posted, at their ends; what leaves leaves first.
LEMMA LinesOfStep ==
  ASSUME TypeOK, OwnInv, [Next]_vars
  PROVE  \/ wire' = wire
         \/ wire' = <<>>
         \/ Serve /\ wire # <<>> /\ wire' = Tail(wire)
         \/ \E l \in Lines : wire' = Append(wire, l) /\ Sent(l)
<1>1. CASE Idle \/ (\E r \in Requests : Refused(r)) \/ (\E r \in Requests : JoinSnapshot(r))
           \/ (\E s \in Subs : CloseSub(s)) \/ (\E F \in SUBSET Ids : Drops(F)) \/ SeePush \/ SeeDown
           \/ (\E p \in pending, o \in Outcomes, F \in SUBSET Ids : Leaves(p, o, F))
           \/ \E c \in Changes : PedalChanges(c)
  BY <1>1 DEF Idle, Refused, JoinSnapshot, CloseSub, Leaves, Drops, SeePush, SeeDown, PedalChanges, captainVars
<1>2. CASE Stop \/ SessionEnds \/ Serve
  BY <1>2 DEF Stop, SessionEnds, Serve
<1>3. CASE \E r \in Requests : StartSnapshot(r)
  <2>1. wire' = Append(wire, ContextLine) /\ seq' = [seq EXCEPT !.ctx = @ + 1]
    BY <1>3 DEF StartSnapshot, ContextLine
  <2>2. ContextLine \in Lines
    BY IdTypes, LineType DEF ContextLine
  <2> QED BY <2>1, <2>2 DEF Sent
<1>4. ASSUME NEW o \in Outcomes, NEW F \in SUBSET Ids, Ends(o, F)
      PROVE  wire' = wire \/ \E l \in Lines : wire' = Append(wire, l) /\ Sent(l)
  <2>1. wire' = wire \/ (wire' = Append(wire, ContextLine) /\ seq' = [seq EXCEPT !.ctx = @ + 1])
    BY <1>4, FinishIs DEF Ends, ContextLine
  <2>2. ContextLine \in Lines
    BY IdTypes, LineType DEF ContextLine
  <2> QED BY <2>1, <2>2 DEF Sent
<1>5. ASSUME NEW r \in Requests, NEW c \in Changes \cup {NoChange}, SendRequest(r, c)
      PROVE  \E l \in Lines : wire' = Append(wire, l) /\ Sent(l)
  <2>1. wire' = Append(wire, Line(Id("req", seq.req + 1), r, c))
    BY <1>5 DEF SendRequest, PrivateId
  <2>2. Line(Id("req", seq.req + 1), r, c) \in Lines
    BY IdTypes, LineType
  <2> QED BY <1>5, <2>1, <2>2 DEF Sent
<1>6. ASSUME NEW c \in Changes, PassOn(c)
      PROVE  wire' = wire \/ \E l \in Lines : wire' = Append(wire, l) /\ Sent(l)
  <2>1. Line(NoId, NoRequest, c) \in Lines /\ Line(NoId, NoRequest, c).id = NoId
    BY LineType
  <2>2. wire' = wire \/ wire' = Append(wire, Line(NoId, NoRequest, c))
    BY <1>6 DEF PassOn
  <2> QED BY <2>1, <2>2 DEF Sent
<1> QED BY <1>1, <1>2, <1>3, <1>4, <1>5, <1>6, StepCases

LEMMA PostsOfStep ==
  ASSUME IInv, [Next]_vars
  PROVE  \/ posted' = posted
         \/ posted # <<>> /\ posted' = Tail(posted)
         \/ \E e \in Replies \cup Notices : posted' = Append(posted, e) /\ Says(e)
<1>0. TypeOK /\ OwnInv
  BY DEF IInv
<1>1. CASE Idle \/ (\E r \in Requests : Refused(r)) \/ (\E r \in Requests : JoinSnapshot(r))
           \/ (\E r \in Requests : StartSnapshot(r)) \/ (\E c \in Changes : PassOn(c))
           \/ (\E r \in Requests, c \in Changes \cup {NoChange} : SendRequest(r, c))
           \/ (\E s \in Subs : CloseSub(s))
  BY <1>1 DEF Idle, Refused, JoinSnapshot, StartSnapshot, PassOn, SendRequest, CloseSub
<1>2. CASE \/ \E F \in SUBSET Ids : Drops(F)
           \/ \E o \in Outcomes, F \in SUBSET Ids : Ends(o, F)
           \/ \E p \in pending, o \in Outcomes, F \in SUBSET Ids : Leaves(p, o, F)
  BY <1>2 DEF Drops, Ends, Leaves, Took
<1>3. CASE SeePush \/ SeeDown
  BY <1>3 DEF SeePush, SeeDown, NextIs
<1>4. CASE Stop \/ SessionEnds
  <2>1. posted' = posted \/ posted' = Append(posted, [type |-> "down"])
    BY <1>4 DEF Stop, SessionEnds
  <2>2. [type |-> "down"] \in Notices
    BY DEF Notices
  <2> QED BY <2>1, <2>2 DEF Says
<1>5. ASSUME NEW c \in Changes, PedalChanges(c)
      PROVE  \E e \in Replies \cup Notices : posted' = Append(posted, e) /\ Says(e)
  <2>1. PICK e : e = [type |-> "push", val |-> made']
    OBVIOUS
  <2>2. posted' = Append(posted, e)
    BY <1>5, <2>1 DEF PedalChanges
  <2>3. e \in Notices
    BY <1>0, <1>5, <2>1 DEF Notices, PedalChanges, TypeOK
  <2>4. Says(e)
    BY <2>1 DEF Says
  <2> QED BY <2>2, <2>3, <2>4
<1>6. ASSUME Serve
      PROVE  posted' = posted \/ \E e \in Replies \cup Notices : posted' = Append(posted, e) /\ Says(e)
  <2>1. /\ wire # <<>> /\ Head(wire) \in Lines /\ made' \subseteq Changes /\ Head(wire) = wire[1]
        /\ Head(wire).id \in Ids \cup {NoId} /\ Head(wire).of \in Requests \cup {NoRequest}
    BY <1>0, <1>6, ServeType, TailFacts DEF Lines, TypeOK
  <2>2. PICK e : e = [type |-> "reply", id |-> Head(wire).id, of |-> Head(wire).of, val |-> made']
    OBVIOUS
  <2>3. PICK f : f = [type |-> "error", id |-> Head(wire).id]
    OBVIOUS
  <2>4. \/ posted' = posted
        \/ Head(wire).id # NoId /\ posted' = Append(posted, e)
        \/ Head(wire).id # NoId /\ posted' = Append(posted, f)
    BY <1>6, <2>2, <2>3 DEF Serve, Prefix, NoId, Id
  <2>5. Head(wire).id # NoId => e \in Replies /\ f \in Replies
    BY <2>1, <2>2, <2>3 DEF Replies
  <2>6. Says(e) /\ Says(f)
    BY <1>6, <2>1, <2>2, <2>3 DEF Says
  <2> QED BY <2>4, <2>5, <2>6
<1> QED BY <1>0, <1>1, <1>2, <1>3, <1>4, <1>5, <1>6, StepCases

\* So each line was on the wire or has just been sent, and each reply was there or has just
\* been given to the first line.
LEMMA LineComesFrom ==
  ASSUME TypeOK, OwnInv, [Next]_vars
  PROVE  \A i \in DOMAIN wire' : (\E j \in DOMAIN wire : wire'[i] = wire[j]) \/ Sent(wire'[i])
<1>0. wire \in Seq(Lines)
  BY DEF TypeOK
<1>1. CASE wire' = <<>> \/ wire' = wire
  BY <1>1
<1>2. CASE wire # <<>> /\ wire' = Tail(wire)
  <2>1. /\ \A i \in 1 .. Len(wire) - 1 : Tail(wire)[i] = wire[i + 1]
        /\ DOMAIN wire = 1 .. Len(wire) /\ Len(wire) \in Nat
        /\ DOMAIN Tail(wire) = 1 .. (Len(wire) - 1)
    BY <1>0, <1>2, TailFacts
  <2>2. \A i \in DOMAIN wire' : i + 1 \in DOMAIN wire /\ wire'[i] = wire[i + 1]
    BY <1>2, <2>1
  <2> QED BY <2>2
<1>3. ASSUME NEW l \in Lines, wire' = Append(wire, l), Sent(l)
      PROVE  \A i \in DOMAIN wire' : (\E j \in DOMAIN wire : wire'[i] = wire[j]) \/ Sent(wire'[i])
  <2>1. /\ \A i \in 1 .. Len(wire) : Append(wire, l)[i] = wire[i]
        /\ Append(wire, l)[Len(wire) + 1] = l
        /\ DOMAIN wire = 1 .. Len(wire) /\ Len(wire) \in Nat
        /\ DOMAIN Append(wire, l) = 1 .. (Len(wire) + 1)
    BY <1>0, AppendFacts
  <2>2. \A i \in DOMAIN wire' : (i \in DOMAIN wire /\ wire'[i] = wire[i]) \/ wire'[i] = l
    BY <1>3, <2>1
  <2> QED BY <1>3, <2>2
<1> QED BY <1>1, <1>2, <1>3, LinesOfStep

LEMMA ReplyComesFrom ==
  ASSUME IInv, [Next]_vars
  PROVE  \A i \in DOMAIN posted' : (\E j \in DOMAIN posted : posted'[i] = posted[j]) \/ Says(posted'[i])
<1>0. posted \in Seq(Replies \cup Notices)
  BY DEF IInv, TypeOK
<1>1. CASE posted' = posted
  BY <1>1
<1>2. CASE posted # <<>> /\ posted' = Tail(posted)
  <2>1. /\ \A i \in 1 .. Len(posted) - 1 : Tail(posted)[i] = posted[i + 1]
        /\ DOMAIN posted = 1 .. Len(posted) /\ Len(posted) \in Nat
        /\ DOMAIN Tail(posted) = 1 .. (Len(posted) - 1)
    BY <1>0, <1>2, TailFacts
  <2>2. \A i \in DOMAIN posted' : i + 1 \in DOMAIN posted /\ posted'[i] = posted[i + 1]
    BY <1>2, <2>1
  <2> QED BY <2>2
<1>3. ASSUME NEW e \in Replies \cup Notices, posted' = Append(posted, e), Says(e)
      PROVE  \A i \in DOMAIN posted' : (\E j \in DOMAIN posted : posted'[i] = posted[j]) \/ Says(posted'[i])
  <2>1. /\ \A i \in 1 .. Len(posted) : Append(posted, e)[i] = posted[i]
        /\ Append(posted, e)[Len(posted) + 1] = e
        /\ DOMAIN posted = 1 .. Len(posted) /\ Len(posted) \in Nat
        /\ DOMAIN Append(posted, e) = 1 .. (Len(posted) + 1)
    BY <1>0, AppendFacts
  <2>2. \A i \in DOMAIN posted' : (i \in DOMAIN posted /\ posted'[i] = posted[i]) \/ posted'[i] = e
    BY <1>3, <2>1
  <2> QED BY <1>3, <2>2
<1> QED BY <1>1, <1>2, <1>3, PostsOfStep

\* Ids are given one after the other.
LEMMA SeqStep ==
  ASSUME TypeOK, OwnInv, [Next]_vars
  PROVE  /\ seq' \in {seq, [seq EXCEPT !.ctx = @ + 1], [seq EXCEPT !.req = @ + 1]}
         /\ GivenIds \subseteq GivenIds'
<1>1. seq' \in {seq, [seq EXCEPT !.ctx = @ + 1], [seq EXCEPT !.req = @ + 1]}
  <2>1. CASE \E o \in Outcomes, F \in SUBSET Ids : Ends(o, F)
    BY <2>1, FinishIs DEF Ends
  <2>2. CASE \/ Idle \/ (\E r \in Requests : Refused(r)) \/ (\E r \in Requests : JoinSnapshot(r))
             \/ (\E c \in Changes : PassOn(c)) \/ (\E s \in Subs : CloseSub(s))
             \/ (\E p \in pending, o \in Outcomes, F \in SUBSET Ids : Leaves(p, o, F))
             \/ (\E F \in SUBSET Ids : Drops(F)) \/ Stop \/ SeePush \/ SeeDown \/ SessionEnds \/ Serve
             \/ \E c \in Changes : PedalChanges(c)
    BY <2>2 DEF Idle, Refused, JoinSnapshot, PassOn, CloseSub, Leaves, Drops, Stop, SeePush, SeeDown,
                SessionEnds, Serve, PedalChanges, KeepsTables
  <2>3. CASE (\E r \in Requests : StartSnapshot(r))
             \/ \E r \in Requests, c \in Changes \cup {NoChange} : SendRequest(r, c)
    BY <2>3 DEF StartSnapshot, SendRequest
  <2> QED BY <2>1, <2>2, <2>3, StepCases
<1>2. 1 .. seq.req \subseteq 1 .. seq'.req /\ 1 .. seq.ctx \subseteq 1 .. seq'.ctx
  BY <1>1, Growing
<1> QED BY <1>1, <1>2 DEF GivenIds

\* Every line sent has an id of that moment, and the new ones are new.
LEMMA SentIds ==
  ASSUME TypeOK, NEW l, Sent(l)
  PROVE  /\ l.id \in GivenIds'
         /\ \A t \in GivenIds : l.id = t => t = NoId
         /\ l.id # NoId => l.id \in {<<"ctx", seq.ctx + 1>>, <<"req", seq.req + 1>>}
<1>1. CASE l.id = NoId
  BY <1>1 DEF GivenIds
<1>2. CASE l = ContextLine /\ seq' = [seq EXCEPT !.ctx = @ + 1]
  <2>1. l.id = <<"ctx", seq.ctx + 1>> /\ seq'.ctx = seq.ctx + 1 /\ seq.ctx \in Nat
    BY <1>2, IdTypes, Growing DEF ContextLine, Line
  <2> QED BY <2>1, IdTypes DEF GivenIds
<1>3. ASSUME NEW r \in Requests, NEW c \in Changes \cup {NoChange},
             SendRequest(r, c), l = Line(Id("req", seq.req + 1), r, c)
      PROVE  /\ l.id \in GivenIds'
             /\ \A t \in GivenIds : l.id = t => t = NoId
             /\ l.id # NoId => l.id \in {<<"ctx", seq.ctx + 1>>, <<"req", seq.req + 1>>}
  <2>1. seq' = [seq EXCEPT !.req = @ + 1]
    BY <1>3 DEF SendRequest
  <2>2. l.id = <<"req", seq.req + 1>> /\ seq'.req = seq.req + 1 /\ seq.req \in Nat
    BY <1>3, <2>1, IdTypes, Growing DEF Line
  <2> QED BY <2>2, IdTypes DEF GivenIds
<1> QED BY <1>1, <1>2, <1>3 DEF Sent

\* No line and no reply has an id that was not given.
LEMMA IdsStep ==
  ASSUME IInv, [Next]_vars
  PROVE  IdsInv'
<1>0. /\ TypeOK /\ OwnInv
      /\ \A i \in DOMAIN wire : wire[i].id \in GivenIds
      /\ \A i \in DOMAIN posted : posted[i].type \in {"reply", "error"} => posted[i].id \in GivenIds
      /\ GivenIds \subseteq GivenIds'
  BY SeqStep DEF IInv, IdsInv
<1>1. ASSUME NEW i \in DOMAIN wire'
      PROVE  wire'[i].id \in GivenIds'
  BY <1>0, <1>1, LineComesFrom, SentIds
<1>2. ASSUME NEW i \in DOMAIN posted', posted'[i].type \in {"reply", "error"}
      PROVE  posted'[i].id \in GivenIds'
  <2>1. CASE \E j \in DOMAIN posted : posted'[i] = posted[j]
    BY <1>0, <1>2, <2>1
  <2>2. CASE Says(posted'[i])
    <3>1. posted'[i].id = wire[1].id /\ wire # <<>>
      BY <1>2, <2>2 DEF Says
    <3>2. 1 \in DOMAIN wire
      BY <1>0, <3>1, TailFacts DEF TypeOK
    <3> QED BY <1>0, <3>1, <3>2
  <2> QED BY <2>1, <2>2, ReplyComesFrom
<1> QED BY <1>1, <1>2 DEF IdsInv

\* Every request in the table was there, or has just been sent.
LEMMA PendingComesFrom ==
  ASSUME TypeOK, OwnInv, PendingInv, [Next]_vars, NEW p \in pending'
  PROVE  \/ \E q \in pending : p.id = q.id /\ p.req = q.req
         \/ \E r \in Requests, c \in Changes \cup {NoChange} :
              SendRequest(r, c) /\ p.id = Id("req", seq.req + 1) /\ p.req = r
<1>1. ASSUME NEW r \in Requests, NEW c \in Changes \cup {NoChange}, SendRequest(r, c)
      PROVE  p \in pending \/ (p.id = Id("req", seq.req + 1) /\ p.req = r)
  BY <1>1 DEF SendRequest, PrivateId
<1>2. ASSUME NEW s \in Subs, CloseSub(s)
      PROVE  \E q \in pending : p.id = q.id /\ p.req = q.req
  <2>1. \E q \in pending :
              /\ p.id = q.id /\ p.req = q.req
              /\ \/ Owner[q.req] # s /\ p = q
                 \/ Owner[q.req] = s /\ KindOf[q.req] = "open" /\ p.mine = FALSE
                    /\ p = [q EXCEPT !.mine = FALSE]
    BY <1>2, CloseTells
  <2> QED BY <2>1
<1>3. CASE Idle \/ (\E r \in Requests : Refused(r)) \/ (\E r \in Requests : JoinSnapshot(r))
           \/ (\E r \in Requests : StartSnapshot(r)) \/ (\E c \in Changes : PassOn(c))
           \/ (\E o \in Outcomes, F \in SUBSET Ids : Ends(o, F))
           \/ (\E q \in pending, o \in Outcomes, F \in SUBSET Ids : Leaves(q, o, F))
           \/ (\E F \in SUBSET Ids : Drops(F)) \/ SeePush \/ SeeDown \/ SessionEnds \/ Serve \/ Stop
           \/ \E c \in Changes : PedalChanges(c)
  <2>1. pending' \subseteq pending
    BY <1>3 DEF Idle, Refused, JoinSnapshot, StartSnapshot, PassOn, Ends, Leaves, Without, Drops, SeePush,
                SeeDown, SessionEnds, Serve, Stop, PedalChanges, KeepsTables, requestVars
  <2> QED BY <2>1
<1> QED BY <1>1, <1>2, <1>3, StepCases

\* A line or a reply with the id of a request is that request's.
LEMMA OwnStep ==
  ASSUME IInv, [Next]_vars
  PROVE  OwnInv'
<1>0. /\ TypeOK /\ OwnInv /\ PendingInv
      /\ \A i \in DOMAIN wire : wire[i].id \in GivenIds
      /\ \A i \in DOMAIN posted : posted[i].type \in {"reply", "error"} => posted[i].id \in GivenIds
  BY DEF IInv, IdsInv
<1>1. ASSUME NEW p \in pending', NEW q \in pending, p.id = q.id, p.req = q.req
      PROVE  /\ \A i \in DOMAIN wire' : wire'[i].id = p.id => wire'[i].of = p.req
             /\ \A i \in DOMAIN posted' : posted'[i].type = "reply" /\ posted'[i].id = p.id
                                            => posted'[i].of = p.req
  <2>0. /\ \A i \in DOMAIN wire : wire[i].id = p.id => wire[i].of = p.req
        /\ \A i \in DOMAIN posted : posted[i].type = "reply" /\ posted[i].id = p.id => posted[i].of = p.req
    BY <1>0, <1>1 DEF OwnInv
  <2>1. p.id \in GivenIds /\ p.id # NoId
    <3>1. q.id \in {"req"} \X (1 .. seq.req)
      BY <1>0 DEF TypeOK
    <3> QED BY <1>0, <1>1, <3>1, IdTypes DEF GivenIds
  <2>2. ASSUME NEW i \in DOMAIN wire', wire'[i].id = p.id
        PROVE  wire'[i].of = p.req
    <3>1. ~Sent(wire'[i])
      BY <1>0, <2>1, <2>2, SentIds
    <3>2. PICK j \in DOMAIN wire : wire'[i] = wire[j]
      BY <1>0, <3>1, LineComesFrom
    <3> QED BY <2>0, <2>2, <3>2
  <2>3. ASSUME NEW i \in DOMAIN posted', posted'[i].type = "reply", posted'[i].id = p.id
        PROVE  posted'[i].of = p.req
    <3>1. CASE \E j \in DOMAIN posted : posted'[i] = posted[j]
      BY <2>0, <2>3, <3>1
    <3>2. CASE Says(posted'[i])
      <4>1. posted'[i].id = wire[1].id /\ wire # <<>> /\ posted'[i].of = wire[1].of
        BY <2>3, <3>2 DEF Says
      <4>2. 1 \in DOMAIN wire
        BY <1>0, <4>1, TailFacts DEF TypeOK
      <4> QED BY <2>0, <2>3, <4>1, <4>2
    <3> QED BY <3>1, <3>2, ReplyComesFrom
  <2> QED BY <2>2, <2>3
<1>2. ASSUME NEW p \in pending', NEW r \in Requests, NEW c \in Changes \cup {NoChange},
             SendRequest(r, c), p.id = Id("req", seq.req + 1), p.req = r
      PROVE  /\ \A i \in DOMAIN wire' : wire'[i].id = p.id => wire'[i].of = p.req
             /\ \A i \in DOMAIN posted' : posted'[i].type = "reply" /\ posted'[i].id = p.id
                                            => posted'[i].of = p.req
  <2>1. p.id \notin GivenIds
    BY <1>2, <1>0, IdTypes DEF GivenIds
  <2>2. /\ wire' = Append(wire, Line(Id("req", seq.req + 1), r, c)) /\ posted' = posted
        /\ Line(Id("req", seq.req + 1), r, c) \in Lines /\ Line(Id("req", seq.req + 1), r, c).of = r
    BY <1>0, <1>2, IdTypes, LineType DEF SendRequest, PrivateId
  <2>3. /\ \A i \in 1 .. Len(wire) : wire'[i] = wire[i]
        /\ wire'[Len(wire) + 1].of = r
        /\ DOMAIN wire = 1 .. Len(wire) /\ Len(wire) \in Nat
        /\ DOMAIN wire' = 1 .. (Len(wire) + 1)
    BY <1>0, <2>2, AppendFacts DEF TypeOK
  <2>4. ASSUME NEW i \in DOMAIN wire', wire'[i].id = p.id
        PROVE  wire'[i].of = p.req
    <3>1. i \notin 1 .. Len(wire)
      BY <1>0, <2>1, <2>3, <2>4
    <3>2. i = Len(wire) + 1
      BY <2>3, <3>1
    <3> QED BY <1>2, <2>3, <3>2
  <2> QED BY <1>0, <2>1, <2>2, <2>4
<1>3. ASSUME NEW p \in pending'
      PROVE  /\ \A i \in DOMAIN wire' : wire'[i].id = p.id => wire'[i].of = p.req
             /\ \A i \in DOMAIN posted' : posted'[i].type = "reply" /\ posted'[i].id = p.id
                                            => posted'[i].of = p.req
  BY <1>0, <1>1, <1>2, PendingComesFrom
<1> QED BY <1>3 DEF OwnInv

(***************************************************************************)
(* The reads that are followed.                                            *)
(***************************************************************************)
LEMMA AllButFirst ==
  ASSUME NEW S, NEW q \in Seq(S), q # <<>>
  PROVE  /\ 1 \in DOMAIN q /\ q[1] = Head(q)
         /\ \A j \in DOMAIN q : j # 1 => j - 1 \in DOMAIN Tail(q) /\ Tail(q)[j - 1] = q[j]
<1>1. /\ \A i \in 1 .. Len(q) - 1 : Tail(q)[i] = q[i + 1]
      /\ DOMAIN q = 1 .. Len(q) /\ Len(q) \in Nat /\ Len(q) > 0
      /\ DOMAIN Tail(q) = 1 .. (Len(q) - 1) /\ Head(q) = q[1]
  BY TailFacts
<1> QED BY <1>1

LEMMA AllStay ==
  ASSUME NEW S, NEW q \in Seq(S), NEW e \in S
  PROVE  /\ \A j \in DOMAIN q : j \in DOMAIN Append(q, e) /\ Append(q, e)[j] = q[j]
         /\ \E k \in DOMAIN Append(q, e) : Append(q, e)[k] = e
<1>1. /\ \A i \in 1 .. Len(q) : Append(q, e)[i] = q[i]
      /\ Append(q, e)[Len(q) + 1] = e
      /\ DOMAIN q = 1 .. Len(q) /\ Len(q) \in Nat
      /\ DOMAIN Append(q, e) = 1 .. (Len(q) + 1)
  BY AppendFacts
<1> QED BY <1>1

\* What is under way stays so until the reply is taken, and so does the end of a session.
LEMMA WireStays ==
  ASSUME TypeOK, wire' = wire \/ \E l \in Lines : wire' = Append(wire, l)
  PROVE  \A j \in DOMAIN wire : j \in DOMAIN wire' /\ wire'[j] = wire[j]
<1>0. wire \in Seq(Lines)
  BY DEF TypeOK
<1>1. ASSUME NEW l \in Lines, wire' = Append(wire, l)
      PROVE  \A j \in DOMAIN wire : j \in DOMAIN wire' /\ wire'[j] = wire[j]
  BY <1>0, <1>1, AllStay
<1> QED BY <1>1

LEMMA PostedStay ==
  ASSUME TypeOK, posted' = posted \/ \E e \in Replies \cup Notices : posted' = Append(posted, e)
  PROVE  \A j \in DOMAIN posted : j \in DOMAIN posted' /\ posted'[j] = posted[j]
<1>0. posted \in Seq(Replies \cup Notices)
  BY DEF TypeOK
<1>1. ASSUME NEW e \in Replies \cup Notices, posted' = Append(posted, e)
      PROVE  \A j \in DOMAIN posted : j \in DOMAIN posted' /\ posted'[j] = posted[j]
  BY <1>0, <1>1, AllStay
<1> QED BY <1>1

LEMMA UnderWayStays ==
  ASSUME TypeOK,
         wire' = wire \/ \E l \in Lines : wire' = Append(wire, l),
         posted' = posted \/ \E e \in Replies \cup Notices : posted' = Append(posted, e)
  PROVE  /\ DownPending => DownPending'
         /\ \A t : UnderWay(t) => UnderWay(t)'
<1>1. \A j \in DOMAIN wire : j \in DOMAIN wire' /\ wire'[j] = wire[j]
  BY WireStays
<1>2. \A j \in DOMAIN posted : j \in DOMAIN posted' /\ posted'[j] = posted[j]
  BY PostedStay
<1> QED BY <1>1, <1>2 DEF UnderWay, DownPending

LEMMA UnderWayTaken ==
  ASSUME TypeOK,
         wire' = wire \/ \E l \in Lines : wire' = Append(wire, l),
         posted # <<>>, posted' = Tail(posted)
  PROVE  /\ Head(posted).type # "down" => (DownPending => DownPending')
         /\ \A t : /\ UnderWay(t)
                   /\ Head(posted).type \notin {"reply", "error"} \/ Head(posted).id # t
                   => UnderWay(t)'
<1>1. \A j \in DOMAIN wire : j \in DOMAIN wire' /\ wire'[j] = wire[j]
  BY WireStays
<1>2. posted \in Seq(Replies \cup Notices)
  BY DEF TypeOK
<1>3. /\ 1 \in DOMAIN posted /\ posted[1] = Head(posted)
      /\ \A j \in DOMAIN posted : j # 1 => j - 1 \in DOMAIN posted' /\ posted'[j - 1] = posted[j]
  BY <1>2, AllButFirst
<1>4. Head(posted).type # "down" => (DownPending => DownPending')
  BY <1>3 DEF DownPending
<1>5. \A t : /\ UnderWay(t)
             /\ Head(posted).type \notin {"reply", "error"} \/ Head(posted).id # t
             => UnderWay(t)'
  BY <1>1, <1>3 DEF UnderWay
<1> QED BY <1>4, <1>5

LEMMA LastUnderWay ==
  ASSUME TypeOK, NEW l \in Lines, wire' = Append(wire, l)
  PROVE  UnderWay(l.id)'
<1>1. wire \in Seq(Lines)
  BY DEF TypeOK
<1>2. \E k \in DOMAIN wire' : wire'[k] = l
  BY <1>1, AllStay
<1> QED BY <1>2 DEF UnderWay

\* A line served with an id is answered with it.
LEMMA ServedStays ==
  ASSUME TypeOK, Serve
  PROVE  /\ DownPending => DownPending'
         /\ \A t : t # NoId /\ UnderWay(t) => UnderWay(t)'
<1>0. wire \in Seq(Lines) /\ posted \in Seq(Replies \cup Notices) /\ wire # <<>> /\ wire' = Tail(wire)
  BY ServeType DEF TypeOK
<1>1. /\ 1 \in DOMAIN wire /\ wire[1] = Head(wire)
      /\ \A j \in DOMAIN wire : j # 1 => j - 1 \in DOMAIN wire' /\ wire'[j - 1] = wire[j]
  BY <1>0, AllButFirst
<1>2. PICK e : e = [type |-> "reply", id |-> Head(wire).id, of |-> Head(wire).of, val |-> made']
  OBVIOUS
<1>3. PICK f : f = [type |-> "error", id |-> Head(wire).id]
  OBVIOUS
<1>4. \/ posted' = posted /\ Head(wire).id = NoId
      \/ Head(wire).id # NoId /\ posted' = Append(posted, e)
      \/ Head(wire).id # NoId /\ posted' = Append(posted, f)
  BY <1>2, <1>3 DEF Serve, Prefix, NoId, Id
<1>5. Head(wire).id # NoId => e \in Replies /\ f \in Replies
  <2>1. Head(wire) \in Lines /\ made' \subseteq Changes
    BY ServeType
  <2> QED BY <1>2, <1>3, <2>1 DEF Replies, Lines
<1>6. \A j \in DOMAIN posted : j \in DOMAIN posted' /\ posted'[j] = posted[j]
  BY <1>4, <1>5, PostedStay
<1>7. ASSUME Head(wire).id # NoId
      PROVE  \E k \in DOMAIN posted' : posted'[k].type \in {"reply", "error"} /\ posted'[k].id = Head(wire).id
  <2>1. \E k \in DOMAIN posted' : posted'[k] \in {e, f}
    BY <1>0, <1>4, <1>5, <1>7, AllStay
  <2> QED BY <1>2, <1>3, <2>1
<1>8. ASSUME NEW t, t # NoId, UnderWay(t)
      PROVE  UnderWay(t)'
  <2>1. CASE \E i \in DOMAIN wire : wire[i].id = t
    <3>1. PICK i \in DOMAIN wire : wire[i].id = t
      BY <2>1
    <3>2. CASE i = 1
      BY <1>1, <1>7, <1>8, <3>1, <3>2 DEF UnderWay
    <3>3. CASE i # 1
      BY <1>1, <3>1, <3>3 DEF UnderWay
    <3> QED BY <3>2, <3>3
  <2>2. CASE \E i \in DOMAIN posted : posted[i].type \in {"reply", "error"} /\ posted[i].id = t
    BY <1>6, <2>2 DEF UnderWay
  <2> QED BY <1>8, <2>1, <2>2 DEF UnderWay
<1> QED BY <1>6, <1>8 DEF DownPending

\* A read is followed only while its reply, or the end of its session, is still to come.
LEMMA TrackedStep ==
  ASSUME IInv, [Next]_vars
  PROVE  TrackedInv'
<1>0. TypeOK /\ OwnInv /\ TrackedInv
  BY DEF IInv
<1>00. \A t \in tracked : t # NoId
  <2>1. \A n : <<"ctx", n>> # NoId /\ <<"req", n>> # NoId
    BY <1>0, IdTypes
  <2> QED BY <1>0, <2>1 DEF TypeOK
<1>1. ASSUME DownPending => DownPending',
             \A t \in tracked' : UnderWay(t)' \/ (t \in tracked /\ (UnderWay(t) => UnderWay(t)'))
      PROVE  TrackedInv'
  BY <1>0, <1>1 DEF TrackedInv
<1>2. CASE Idle \/ (\E r \in Requests : Refused(r)) \/ (\E r \in Requests : JoinSnapshot(r))
           \/ (\E s \in Subs : CloseSub(s)) \/ (\E c \in Changes : PassOn(c))
           \/ \E c \in Changes : PedalChanges(c)
  <2>1. tracked' = tracked
    BY <1>2 DEF Idle, Refused, JoinSnapshot, CloseSub, PassOn, PedalChanges, KeepsTables
  <2>2. wire' = wire \/ \E l \in Lines : wire' = Append(wire, l)
    <3>1. CASE \E c \in Changes : PassOn(c)
      BY <3>1, LineType DEF PassOn
    <3> QED BY <1>2, <3>1 DEF Idle, Refused, JoinSnapshot, CloseSub, PedalChanges, captainVars
  <2>3. posted' = posted \/ \E e \in Replies \cup Notices : posted' = Append(posted, e)
    <3>1. ASSUME NEW c \in Changes, PedalChanges(c)
          PROVE  \E e \in Replies \cup Notices : posted' = Append(posted, e)
      <4>1. [type |-> "push", val |-> made \cup {c}] \in Notices
        BY <1>0 DEF Notices, TypeOK
      <4> QED BY <3>1, <4>1 DEF PedalChanges
    <3> QED BY <1>2, <3>1 DEF Idle, Refused, JoinSnapshot, CloseSub, PassOn
  <2> QED BY <1>0, <1>1, <2>1, <2>2, <2>3, UnderWayStays
<1>3. ASSUME NEW r \in Requests, StartSnapshot(r)
      PROVE  TrackedInv'
  <2>0. PICK l \in Lines : l = ContextLine /\ l.id = Id("ctx", seq.ctx + 1)
    BY <1>0, IdTypes, LineType DEF ContextLine
  <2>1. tracked' = tracked \cup {l.id} /\ wire' = Append(wire, l) /\ posted' = posted
    BY <1>3, <2>0 DEF StartSnapshot, ContextLine
  <2> QED BY <1>0, <1>1, <2>1, UnderWayStays, LastUnderWay
<1>4. ASSUME NEW r \in Requests, NEW c \in Changes \cup {NoChange}, SendRequest(r, c)
      PROVE  TrackedInv'
  <2>1. PICK l \in Lines : l = Line(Id("req", seq.req + 1), r, c) /\ l.id = Id("req", seq.req + 1)
    BY <1>0, IdTypes, LineType
  <2>2. tracked' \subseteq tracked \cup {l.id} /\ wire' = Append(wire, l) /\ posted' = posted
    BY <1>4, <2>1 DEF SendRequest, PrivateId
  <2> QED BY <1>0, <1>1, <2>2, UnderWayStays, LastUnderWay
<1>5. ASSUME NEW F, posted' = posted \/ Took(F), wire' = wire, tracked' = tracked \ F
      PROVE  TrackedInv'
  <2>1. CASE posted' = posted
    BY <1>0, <1>1, <1>5, <2>1, UnderWayStays
  <2>2. CASE Took(F)
    <3>1. /\ posted # <<>> /\ posted' = Tail(posted) /\ F = {Head(posted).id}
          /\ Head(posted).type # "down"
      BY <2>2 DEF Took
    <3>2. DownPending => DownPending'
      BY <1>0, <1>5, <3>1, UnderWayTaken
    <3>3. \A t \in tracked' : t \in tracked /\ (UnderWay(t) => UnderWay(t)')
      BY <1>0, <1>5, <3>1, UnderWayTaken
    <3> QED BY <1>1, <3>2, <3>3
  <2> QED BY <1>5, <2>1, <2>2
<1>6. ASSUME NEW o \in Outcomes, NEW F \in SUBSET Ids, Ends(o, F)
      PROVE  TrackedInv'
  <2>0. PICK l \in Lines : l = ContextLine /\ l.id = Id("ctx", seq.ctx + 1)
    BY <1>0, IdTypes, LineType DEF ContextLine
  <2>1. \/ tracked' = tracked \ F /\ wire' = wire
        \/ tracked' = (tracked \ F) \cup {l.id} /\ wire' = Append(wire, l)
    <3>1. Finish(o, F)
      BY <1>6 DEF Ends
    <3> QED BY <1>0, <2>0, <3>1, FinishIs DEF ContextLine
  <2>2. CASE tracked' = tracked \ F /\ wire' = wire
    BY <1>5, <1>6, <2>2 DEF Ends
  <2>3. CASE tracked' = (tracked \ F) \cup {l.id} /\ wire' = Append(wire, l)
    <3>1. UnderWay(l.id)'
      BY <1>0, <2>3, LastUnderWay
    <3>2. CASE posted' = posted
      BY <1>0, <1>1, <2>3, <3>1, <3>2, UnderWayStays
    <3>3. CASE Took(F)
      <4>1. /\ posted # <<>> /\ posted' = Tail(posted) /\ F = {Head(posted).id}
            /\ Head(posted).type # "down"
        BY <3>3 DEF Took
      <4>2. DownPending => DownPending'
        BY <1>0, <2>3, <4>1, UnderWayTaken
      <4>3. \A t \in tracked \ F : UnderWay(t) => UnderWay(t)'
        BY <1>0, <2>3, <4>1, UnderWayTaken
      <4> QED BY <1>1, <2>3, <3>1, <4>2, <4>3
    <3> QED BY <1>6, <3>2, <3>3 DEF Ends
  <2> QED BY <2>1, <2>2, <2>3
<1>7. ASSUME NEW p \in pending, NEW o \in Outcomes, NEW F \in SUBSET Ids, Leaves(p, o, F)
      PROVE  TrackedInv'
  BY <1>5, <1>7 DEF Leaves
<1>8. ASSUME NEW F \in SUBSET Ids, Drops(F)
      PROVE  TrackedInv'
  BY <1>5, <1>8 DEF Drops
<1>9. CASE Stop \/ SeeDown
  <2>1. tracked' = {}
    BY <1>9 DEF Stop, SeeDown
  <2> QED BY <2>1 DEF TrackedInv
<1>10. CASE SeePush
  <2>1. /\ posted # <<>> /\ posted' = Tail(posted) /\ Head(posted).type = "push" /\ wire' = wire
        /\ tracked' = tracked
    BY <1>0, <1>10, FirstIs DEF SeePush
  <2> QED BY <1>0, <1>1, <2>1, UnderWayTaken
<1>11. CASE SessionEnds
  <2>0. PICK e : e = [type |-> "down"]
    OBVIOUS
  <2>1. posted' = Append(posted, e) /\ e \in Replies \cup Notices /\ e.type = "down"
        /\ posted \in Seq(Replies \cup Notices)
    BY <1>0, <1>11, <2>0 DEF SessionEnds, Notices, TypeOK
  <2>2. \E k \in DOMAIN posted' : posted'[k] = e
    BY <2>1, AllStay
  <2>3. DownPending'
    BY <2>1, <2>2 DEF DownPending
  <2> QED BY <2>3 DEF TrackedInv
<1>12. CASE Serve
  <2>1. tracked' = tracked
    BY <1>12 DEF Serve
  <2> QED BY <1>0, <1>00, <1>1, <1>12, <2>1, ServedStays
<1> QED
  BY <1>0, <1>2, <1>3, <1>4, <1>6, <1>7, <1>8, <1>9, <1>10, <1>11, <1>12, StepCases

(***************************************************************************)
(* What the snapshots show.                                                *)
(***************************************************************************)
\* What the Captain has made stays made.
LEMMA MadeGrows ==
  ASSUME TypeOK, OwnInv, [Next]_vars
  PROVE  made \subseteq made'
<1>1. CASE Idle \/ (\E r \in Requests : Refused(r)) \/ (\E r \in Requests : JoinSnapshot(r))
           \/ (\E r \in Requests : StartSnapshot(r)) \/ (\E c \in Changes : PassOn(c))
           \/ (\E s \in Subs : CloseSub(s)) \/ SeePush \/ SeeDown \/ SessionEnds \/ Stop
  <2>1. made' = made
    BY <1>1 DEF Idle, Refused, JoinSnapshot, StartSnapshot, PassOn, CloseSub, SeePush, SeeDown, SessionEnds,
                Stop, captainVars
  <2> QED BY <2>1
<1>2. CASE \/ \E r \in Requests, c \in Changes \cup {NoChange} : SendRequest(r, c)
           \/ \E F \in SUBSET Ids : Drops(F)
           \/ \E o \in Outcomes, F \in SUBSET Ids : Ends(o, F)
           \/ \E q \in pending, o \in Outcomes, F \in SUBSET Ids : Leaves(q, o, F)
  <2>1. made' = made
    BY <1>2 DEF SendRequest, Drops, Ends, Leaves
  <2> QED BY <2>1
<1>3. CASE Serve
  BY <1>3 DEF Serve
<1>4. ASSUME NEW c \in Changes, PedalChanges(c)
      PROVE  made \subseteq made'
  <2>1. made' = made \cup {c}
    BY <1>4 DEF PedalChanges
  <2> QED BY <2>1
<1> QED BY <1>1, <1>2, <1>3, <1>4, StepCases

LEMMA OnWireStays ==
  ASSUME TypeOK, wire' = wire \/ \E l \in Lines : wire' = Append(wire, l)
  PROVE  /\ \A k \in DOMAIN wire : OnWire(k)' = OnWire(k)
         /\ OnWire(Len(wire)) \subseteq {wire'[i].change : i \in 1 .. Len(wire')}
<1>1. \A j \in DOMAIN wire : j \in DOMAIN wire' /\ wire'[j] = wire[j]
  BY WireStays
<1>2. DOMAIN wire = 1 .. Len(wire) /\ Len(wire) \in Nat
  BY DEF TypeOK
<1>3. ASSUME NEW k \in DOMAIN wire
      PROVE  OnWire(k)' = OnWire(k)
  <2>1. \A i \in 1 .. k : wire'[i] = wire[i]
    BY <1>1, <1>2
  <2> QED BY <2>1 DEF OnWire
<1>4. DOMAIN wire' = 1 .. Len(wire')
  <2>1. ASSUME NEW l \in Lines, wire' = Append(wire, l)
        PROVE  DOMAIN wire' = 1 .. Len(wire')
    <3>1. wire \in Seq(Lines)
      BY DEF TypeOK
    <3>2. DOMAIN Append(wire, l) = 1 .. (Len(wire) + 1) /\ Len(Append(wire, l)) = Len(wire) + 1
      BY <3>1, AppendFacts
    <3> QED BY <2>1, <3>2
  <2> QED BY <1>2, <2>1
<1> QED BY <1>1, <1>2, <1>3, <1>4 DEF OnWire

\* The line that is sent last carries its change on the wire.
LEMMA LastOnWire ==
  ASSUME TypeOK, NEW l \in Lines, wire' = Append(wire, l)
  PROVE  l.change \in {wire'[i].change : i \in 1 .. Len(wire')}
<1>1. /\ wire'[Len(wire) + 1] = l /\ Len(wire') = Len(wire) + 1 /\ Len(wire) \in Nat
  BY AppendFacts DEF TypeOK
<1>2. Len(wire) + 1 \in 1 .. Len(wire')
  BY <1>1
<1> QED BY <1>1, <1>2

\* What was passed on was made, or is on its way, as long as the hub runs.
LEMMA PassedStep ==
  ASSUME IInv, [Next]_vars
  PROVE  PassedInv'
<1>0. /\ TypeOK /\ OwnInv /\ WaitingInv
      /\ \A r \in Requests : due[r] \subseteq passed
      /\ link # "off" => passed \subseteq made \cup OnWire(Len(wire))
      /\ link = "off" => flight = NoFlight /\ pending = {} /\ subs = {} /\ wire = <<>>
      /\ \A i \in DOMAIN posted : posted[i].type = "push" => posted[i].val \subseteq made
  BY DEF IInv, PassedInv
<1>1. \A i \in DOMAIN posted' : posted'[i].type = "push" => posted'[i].val \subseteq made'
  <2>1. ASSUME NEW i \in DOMAIN posted', posted'[i].type = "push"
        PROVE  posted'[i].val \subseteq made'
    <3>1. CASE \E j \in DOMAIN posted : posted'[i] = posted[j]
      BY <1>0, <2>1, <3>1, MadeGrows
    <3>2. CASE Says(posted'[i])
      BY <2>1, <3>2 DEF Says
    <3> QED BY <3>1, <3>2, ReplyComesFrom
  <2> QED BY <2>1
<1> DEFINE Wired == {wire'[i].change : i \in 1 .. Len(wire')}
<1>2. ASSUME \A r \in Requests : due'[r] \subseteq passed',
             link' # "off" => passed' \subseteq made' \cup Wired,
             link' = "off" => flight' = NoFlight /\ pending' = {} /\ subs' = {} /\ wire' = <<>>
      PROVE  PassedInv'
  BY <1>1, <1>2 DEF PassedInv, OnWire
<1> HIDE DEF Wired
<1>3. ASSUME \A r \in Requests : due'[r] \subseteq due[r] \/ due'[r] = passed,
             passed \subseteq passed',
             wire' = wire \/ \E l \in Lines : wire' = Append(wire, l),
             passed' \subseteq passed \cup made \cup Wired,
             link' # "off" => link # "off",
             link' = "off" => flight' = NoFlight /\ pending' = {} /\ subs' = {}
                              /\ wire' = <<>>
      PROVE  PassedInv'
  <2>1. OnWire(Len(wire)) \subseteq Wired
    BY <1>0, <1>3, OnWireStays DEF Wired
  <2>2. link' # "off" => passed' \subseteq made' \cup Wired
    BY <1>0, <1>3, <2>1, MadeGrows
  <2>3. \A r \in Requests : due'[r] \subseteq passed'
    BY <1>0, <1>3
  <2> QED BY <1>2, <1>3, <2>2, <2>3
<1>4. CASE Idle \/ (\E F \in SUBSET Ids : Drops(F)) \/ \E c \in Changes : PedalChanges(c)
  <2>1. UNCHANGED <<due, passed, wire, flight, pending, subs>> /\ (link' = "off" <=> link = "off")
    BY <1>4 DEF Idle, Drops, PedalChanges, KeepsTables, requestVars, waitingVars, connected
  <2> QED BY <1>0, <1>3, <2>1
<1>5. ASSUME NEW r \in Requests, Refused(r)
      PROVE  PassedInv'
  <2>1. UNCHANGED <<passed, wire, link>> /\ link # "off"
    BY <1>0, <1>5 DEF Refused, Asks
  <2>2. \A q \in Requests : due'[q] \subseteq due[q]
    BY <1>5, SayTells DEF Refused, Refuse
  <2> QED BY <1>3, <2>1, <2>2
<1>6. ASSUME NEW r \in Requests, JoinSnapshot(r) \/ StartSnapshot(r)
      PROVE  PassedInv'
  <2>1. UNCHANGED <<passed, link>> /\ link # "off" /\ Waits(r)
    BY <1>6 DEF JoinSnapshot, StartSnapshot, captainVars, Accepted, connected
  <2>2. wire' = wire \/ \E l \in Lines : wire' = Append(wire, l)
    <3>1. CASE JoinSnapshot(r)
      BY <3>1 DEF JoinSnapshot, captainVars
    <3>2. CASE StartSnapshot(r)
      BY <1>0, <3>2, IdTypes, LineType DEF StartSnapshot
    <3> QED BY <1>6, <3>1, <3>2
  <2>3. \A q \in Requests : due'[q] \subseteq due[q] \/ due'[q] = passed
    BY <1>0, <2>1, WaitsType
  <2> QED BY <1>3, <2>1, <2>2, <2>3
<1>7. ASSUME NEW r \in Requests, NEW c \in Changes \cup {NoChange}, SendRequest(r, c)
      PROVE  PassedInv'
  <2>1. PICK l \in Lines : l = Line(Id("req", seq.req + 1), r, c) /\ l.change = c
    BY <1>0, IdTypes, LineType
  <2>2. wire' = Append(wire, l) /\ passed' = passed \cup ({c} \cap Changes) /\ Waits(r)
        /\ link' = link /\ link # "off"
    BY <1>7, <2>1 DEF SendRequest, PrivateId, Accepted, connected
  <2>3. c \in Wired
    BY <1>0, <2>1, <2>2, LastOnWire DEF Wired
  <2>4. \A q \in Requests : due'[q] \subseteq due[q] \/ due'[q] = passed
    BY <1>0, <2>2, WaitsType
  <2> QED BY <1>3, <2>2, <2>3, <2>4
<1>8. ASSUME NEW c \in Changes, PassOn(c)
      PROVE  PassedInv'
  <2>1. PICK l \in Lines : l = Line(NoId, NoRequest, c) /\ l.change = c
    BY LineType
  <2>2. /\ \/ wire' = Append(wire, l) /\ passed' = passed \cup {c}
           \/ wire' = wire /\ passed' = passed
        /\ link' = link /\ link # "off" /\ due' = due
    BY <1>0, <1>8, <2>1 DEF PassOn, waitingVars
  <2>3. wire' = Append(wire, l) => c \in Wired
    BY <1>0, <2>1, LastOnWire DEF Wired
  <2> QED BY <1>3, <2>2, <2>3
<1>9. ASSUME NEW s \in Subs, CloseSub(s)
      PROVE  PassedInv'
  <2>1. UNCHANGED <<due, passed, wire, link>> /\ link # "off"
    BY <1>0, <1>9 DEF CloseSub, captainVars, waitingVars
  <2> QED BY <1>3, <2>1
<1>10. ASSUME NEW o \in Outcomes, NEW F \in SUBSET Ids, Ends(o, F)
       PROVE  PassedInv'
  <2>1. Finish(o, F) /\ UNCHANGED <<link, passed, pending, subs>>
    BY <1>10 DEF Ends
  <2>2. \A q \in Requests : due'[q] \subseteq due[q]
    BY <1>0, <2>1, FinishTells DEF IInv
  <2>3. wire' = wire \/ (wire' = Append(wire, ContextLine) /\ flight.next # {})
    BY <1>0, <2>1, FinishIs DEF ContextLine
  <2>4. ContextLine \in Lines
    BY <1>0, IdTypes, LineType DEF ContextLine
  <2>5. link = "off" => flight' = NoFlight /\ wire' = <<>>
    <3>1. NoFlight.next = {}
      BY DEF NoFlight, Snapshot
    <3> QED BY <1>0, <2>1, <2>3, <3>1, FinishIs
  <2> QED BY <1>0, <1>3, <2>1, <2>2, <2>3, <2>4, <2>5
<1>11. ASSUME NEW p \in pending, NEW o \in Outcomes, NEW F \in SUBSET Ids, Leaves(p, o, F)
       PROVE  PassedInv'
  <2>1. UNCHANGED <<passed, wire, link>> /\ link # "off" /\ Answer(Say({p.req}, o))
    BY <1>0, <1>11 DEF Leaves
  <2>2. {p.req} \in SUBSET Requests
    BY <1>0 DEF TypeOK
  <2>3. \A q \in Requests : due'[q] \subseteq due[q]
    BY <2>1, <2>2, SayTells
  <2> QED BY <1>3, <2>1, <2>3
<1>12. CASE Stop
  <2>1. /\ link' = "off" /\ flight' = NoFlight /\ pending' = {} /\ subs' = {} /\ wire' = <<>>
        /\ UNCHANGED <<due, passed>>
    BY <1>12 DEF Stop, waitingVars
  <2> QED BY <1>0, <1>2, <2>1
<1>13. CASE SeePush
  <2>1. /\ UNCHANGED <<wire, link, pending, subs, due>>
        /\ flight' = Sealed(flight) /\ passed' = passed \cup Head(posted).val /\ NextIs("push")
    BY <1>13 DEF SeePush, requestVars, waitingVars
  <2>2. Head(posted).val \subseteq made
    <3>1. 1 \in DOMAIN posted /\ posted[1] = Head(posted) /\ Head(posted).type = "push"
      BY <1>0, <2>1, FirstIs, AllButFirst DEF TypeOK
    <3> QED BY <1>0, <3>1
  <2>3. flight = NoFlight => flight' = NoFlight
    BY <2>1 DEF Sealed
  <2> QED BY <1>0, <1>3, <2>1, <2>2, <2>3
<1>14. CASE SeeDown
  <2>1. /\ UNCHANGED <<wire, link, subs, passed>> /\ flight' = NoFlight /\ pending' = {}
        /\ Answer(Say(AllWaiters \cup {p.req : p \in pending}, Failed))
    BY <1>14 DEF SeeDown, captainVars
  <2>2. AllWaiters \cup {p.req : p \in pending} \in SUBSET Requests
    BY <1>0, FlightType DEF TypeOK
  <2>3. \A q \in Requests : due'[q] \subseteq due[q]
    BY <2>1, <2>2, SayTells
  <2> QED BY <1>0, <1>3, <2>1, <2>3
<1>15. CASE SessionEnds
  <2>1. /\ passed' = passed \cap made /\ due' = [r \in Requests |-> due[r] \cap made] /\ made' = made
        /\ link' = "down"
    BY <1>15 DEF SessionEnds
  <2> QED BY <1>0, <1>2, <2>1
<1>16. CASE Serve
  <2>1. /\ UNCHANGED <<link, passed, due>> /\ wire # <<>> /\ wire' = Tail(wire)
        /\ made' = made \cup ({Head(wire).change} \cap Changes) /\ link # "off"
    BY <1>0, <1>16, ServeType DEF Serve, waitingVars
  <2>2. /\ \A i \in 1 .. Len(wire) - 1 : wire'[i] = wire[i + 1]
        /\ Len(wire) \in Nat /\ Len(wire) > 0 /\ Len(wire') = Len(wire) - 1 /\ Head(wire) = wire[1]
    BY <1>0, <2>1, TailFacts DEF TypeOK
  <2>3. \A i \in 1 .. Len(wire) : wire[i].change = Head(wire).change \/ wire[i].change \in Wired
    <3>1. ASSUME NEW i \in 1 .. Len(wire), i # 1
          PROVE  wire[i].change \in Wired
      <4>1. i - 1 \in 1 .. Len(wire') /\ wire'[i - 1] = wire[i]
        BY <2>2, <3>1
      <4> QED BY <4>1 DEF Wired
    <3> QED BY <2>2, <3>1
  <2>4. passed \subseteq Changes
    BY <1>0 DEF TypeOK
  <2>5. passed' \subseteq made' \cup Wired
    BY <1>0, <2>1, <2>3, <2>4 DEF OnWire
  <2> QED BY <1>0, <1>2, <2>1, <2>5
<1> QED
  BY <1>0, <1>4, <1>5, <1>6, <1>7, <1>8, <1>9, <1>10, <1>11, <1>12, <1>13, <1>14, <1>15, <1>16, StepCases

\* After the step, S is enough for those that wait for the snapshot.
OwedLater(S) == /\ \A r \in flight'.waiters : due'[r] \subseteq S
                /\ flight'.gate = "open" => passed' \subseteq S
OwedGoesOn == \A S, T : Owed(S) /\ S \cap Changes \subseteq T => OwedLater(T)

\* A snapshot that goes on: its line moves to the front, and its reply shows what is made then.
LEMMA SnapshotKept ==
  ASSUME IInv, [Next]_vars, flight # NoFlight, flight'.id = flight.id, OwedGoesOn
  PROVE  SnapshotInv'
<1>0. /\ TypeOK /\ OwnInv
      /\ wire \in Seq(Lines)
      /\ \A k \in DOMAIN wire : wire[k].id = flight.id => Owed(made \cup OnWire(k))
      /\ \A i \in DOMAIN posted :
           posted[i].type = "reply" /\ posted[i].id = flight.id => Owed(posted[i].val)
      /\ made \subseteq made'
  BY MadeGrows DEF IInv, SnapshotInv, TypeOK
<1>1. flight.id \in GivenIds /\ flight.id # NoId
  BY DEF IInv, FlightInv, GivenIds
<1>2. ASSUME NEW k \in DOMAIN wire', wire'[k].id = flight.id
      PROVE  OwedLater(made' \cup OnWire(k)')
  <2>1. CASE wire' = <<>>
    BY <1>2, <2>1
  <2>2. CASE wire' = wire \/ \E l \in Lines : wire' = Append(wire, l) /\ Sent(l)
    <3>1. k \in DOMAIN wire
      <4>1. ASSUME NEW l \in Lines, wire' = Append(wire, l), Sent(l)
            PROVE  k \in DOMAIN wire
        <5>1. /\ wire'[Len(wire) + 1] = l /\ DOMAIN wire = 1 .. Len(wire) /\ Len(wire) \in Nat
              /\ DOMAIN wire' = 1 .. (Len(wire) + 1)
          BY <1>0, <4>1, AppendFacts
        <5>2. l.id # flight.id
          BY <1>0, <1>1, <4>1, SentIds
        <5> QED BY <1>2, <5>1, <5>2
      <4> QED BY <1>2, <2>2, <4>1
    <3>2. wire'[k] = wire[k] /\ OnWire(k)' = OnWire(k)
      BY <1>0, <2>2, <3>1, WireStays, OnWireStays
    <3>3. Owed(made \cup OnWire(k))
      BY <1>0, <1>2, <3>1, <3>2
    <3> QED BY <1>0, <3>2, <3>3 DEF OwedGoesOn
  <2>3. CASE Serve /\ wire # <<>> /\ wire' = Tail(wire)
    <3>1. /\ \A i \in 1 .. Len(wire) - 1 : wire'[i] = wire[i + 1]
          /\ DOMAIN wire = 1 .. Len(wire) /\ Len(wire) \in Nat
          /\ DOMAIN wire' = 1 .. (Len(wire) - 1) /\ Head(wire) = wire[1]
      BY <1>0, <2>3, TailFacts
    <3>2. k + 1 \in DOMAIN wire /\ wire'[k] = wire[k + 1]
      BY <3>1
    <3>3. Owed(made \cup OnWire(k + 1))
      BY <1>0, <1>2, <3>2
    <3>4. made' = made \cup ({Head(wire).change} \cap Changes)
      BY <2>3 DEF Serve
    <3>5. ASSUME NEW i \in 1 .. (k + 1)
          PROVE  wire[i].change = Head(wire).change \/ wire[i].change \in OnWire(k)'
      <4>1. CASE i = 1
        BY <3>1, <4>1
      <4>2. CASE i # 1
        <5>1. i - 1 \in 1 .. k /\ wire'[i - 1] = wire[i]
          BY <3>1, <4>2
        <5> QED BY <5>1 DEF OnWire
      <4> QED BY <4>1, <4>2
    <3>6. (made \cup OnWire(k + 1)) \cap Changes \subseteq made' \cup OnWire(k)'
      BY <3>4, <3>5 DEF OnWire
    <3> QED BY <3>3, <3>6 DEF OwedGoesOn
  <2> QED BY <1>0, <2>1, <2>2, <2>3, LinesOfStep
<1>3. ASSUME NEW i \in DOMAIN posted', posted'[i].type = "reply", posted'[i].id = flight.id
      PROVE  OwedLater(posted'[i].val)
  <2>1. CASE \E j \in DOMAIN posted : posted'[i] = posted[j]
    <3>1. Owed(posted'[i].val)
      BY <1>0, <1>3, <2>1
    <3> QED BY <3>1 DEF OwedGoesOn
  <2>2. CASE Says(posted'[i])
    <3>1. Serve /\ wire # <<>> /\ wire[1].id = flight.id /\ posted'[i].val = made'
      BY <1>3, <2>2 DEF Says
    <3>2. 1 \in DOMAIN wire /\ wire[1] = Head(wire)
      BY <1>0, <3>1, AllButFirst
    <3>3. Owed(made \cup OnWire(1))
      BY <1>0, <3>1, <3>2
    <3>4. made' = made \cup ({wire[1].change} \cap Changes)
      BY <3>1, <3>2 DEF Serve
    <3>5. OnWire(1) = {wire[1].change}
      BY DEF OnWire
    <3>6. (made \cup OnWire(1)) \cap Changes \subseteq made'
      BY <3>4, <3>5
    <3> QED BY <3>1, <3>3, <3>6 DEF OwedGoesOn
  <2> QED BY <2>1, <2>2, ReplyComesFrom
<1>4. SnapshotInv' <=> (flight' # NoFlight =>
        /\ \A k \in DOMAIN wire' : wire'[k].id = flight'.id => OwedLater(made' \cup OnWire(k)')
        /\ \A i \in DOMAIN posted' :
             posted'[i].type = "reply" /\ posted'[i].id = flight'.id => OwedLater(posted'[i].val))
  BY DEF SnapshotInv, Owed, OwedLater, NoFlight, Snapshot, NoId, Id
<1> QED BY <1>2, <1>3, <1>4

\* A snapshot that starts: all that was passed on is in front of its line.
LEMMA SnapshotNew ==
  ASSUME IInv, [Next]_vars, NEW l \in Lines, l = ContextLine, wire' = Append(wire, l),
         flight'.id = l.id, passed' = passed, link # "off"
  PROVE  SnapshotInv'
<1>0. /\ TypeOK /\ OwnInv /\ wire \in Seq(Lines)
      /\ \A i \in DOMAIN wire : wire[i].id \in GivenIds
      /\ \A i \in DOMAIN posted : posted[i].type \in {"reply", "error"} => posted[i].id \in GivenIds
      /\ passed \subseteq made \cup OnWire(Len(wire)) /\ made \subseteq made'
      /\ \A r \in Requests : due'[r] \subseteq passed'
      /\ flight'.waiters \subseteq Requests
  <2>1. TypeOK' /\ PassedInv'
    BY TypeStep, PassedStep DEF IInv
  <2> QED BY <2>1, MadeGrows DEF IInv, IdsInv, PassedInv, TypeOK
<1>1. l.id \notin GivenIds
  <2>1. l.id = <<"ctx", seq.ctx + 1>> /\ seq.ctx \in Nat
    BY <1>0, IdTypes DEF ContextLine, Line
  <2> QED BY <1>0, <2>1, IdTypes DEF GivenIds
<1>2. ASSUME NEW k \in DOMAIN wire', wire'[k].id = l.id
      PROVE  passed' \subseteq made' \cup OnWire(k)'
  <2>1. /\ \A i \in 1 .. Len(wire) : wire'[i] = wire[i]
        /\ DOMAIN wire = 1 .. Len(wire) /\ Len(wire) \in Nat
        /\ DOMAIN wire' = 1 .. (Len(wire) + 1)
    BY <1>0, AppendFacts
  <2>2. k = Len(wire) + 1
    BY <1>0, <1>1, <1>2, <2>1
  <2>3. OnWire(Len(wire)) \subseteq OnWire(k)'
    BY <2>1, <2>2 DEF OnWire
  <2> QED BY <1>0, <2>3
<1>3. ASSUME NEW i \in DOMAIN posted', posted'[i].type = "reply", posted'[i].id = l.id
      PROVE  FALSE
  <2>1. CASE \E j \in DOMAIN posted : posted'[i] = posted[j]
    BY <1>0, <1>1, <1>3, <2>1
  <2>2. CASE Says(posted'[i])
    <3>1. wire # <<>> /\ wire[1].id = l.id
      BY <1>3, <2>2 DEF Says
    <3>2. 1 \in DOMAIN wire
      BY <1>0, <3>1, AllButFirst
    <3> QED BY <1>0, <1>1, <3>1, <3>2
  <2> QED BY <2>1, <2>2, ReplyComesFrom
<1> QED BY <1>0, <1>2, <1>3 DEF SnapshotInv, Owed

\* Every snapshot shows what is due to those that wait for it.
LEMMA SnapshotStep ==
  ASSUME IInv, [Next]_vars
  PROVE  SnapshotInv'
<1>0. /\ TypeOK /\ OwnInv /\ FlightInv /\ WaitingInv
      /\ flight.waiters \subseteq Requests /\ passed \subseteq Changes
      /\ \A r \in Requests : due[r] \subseteq Changes
      /\ flight.id = NoId => flight = NoFlight
      /\ link = "off" => flight = NoFlight
  BY FlightType DEF IInv, TypeOK, FlightInv, PassedInv
<1>1. ASSUME flight' = NoFlight
      PROVE  SnapshotInv'
  BY <1>1 DEF SnapshotInv, NoFlight, Snapshot, NoId, Id
<1>2. ASSUME flight'.id = flight.id, flight = NoFlight => flight' = NoFlight, OwedGoesOn
      PROVE  SnapshotInv'
  BY <1>1, <1>2, SnapshotKept
<1>3. ASSUME flight'.waiters \subseteq flight.waiters, flight'.gate = "open" => flight.gate = "open",
             \A r \in flight.waiters : due'[r] \subseteq due[r],
             flight'.gate = "open" => passed' \subseteq passed
      PROVE  OwedGoesOn
  <2>1. ASSUME NEW S, NEW T, Owed(S), S \cap Changes \subseteq T
        PROVE  OwedLater(T)
    <3>1. \A r \in flight.waiters : due[r] \subseteq T
      BY <1>0, <2>1 DEF Owed
    <3>2. flight.gate = "open" => passed \subseteq T
      BY <1>0, <2>1 DEF Owed
    <3> QED BY <1>3, <3>1, <3>2 DEF OwedLater
  <2> QED BY <2>1 DEF OwedGoesOn
<1>4. ASSUME NEW f, f \in {flight, Sealed(flight)}, flight' = f,
             \A r \in flight.waiters : due'[r] \subseteq due[r],
             passed' \subseteq passed \/ f = Sealed(flight)
      PROVE  SnapshotInv'
  <2>1. /\ f.id = flight.id /\ f.waiters = flight.waiters /\ (f = NoFlight <=> flight = NoFlight)
        /\ f.gate = "open" => f = flight
        /\ f = Sealed(flight) /\ flight # NoFlight => f.gate = "sealed"
    BY <1>0, <1>4, SealedIs
  <2>2. CASE flight = NoFlight
    BY <1>1, <1>4, <2>1, <2>2
  <2>3. CASE flight # NoFlight
    <3>1. OwedGoesOn
      BY <1>3, <1>4, <2>1, <2>3
    <3> QED BY <1>2, <1>4, <2>1, <3>1
  <2> QED BY <2>2, <2>3
<1>5. CASE Idle \/ (\E F \in SUBSET Ids : Drops(F)) \/ Serve \/ SessionEnds
           \/ (\E c \in Changes : PedalChanges(c))
  <2>1. flight' = flight /\ passed' \subseteq passed
    BY <1>5 DEF Idle, Drops, Serve, SessionEnds, PedalChanges
  <2>2. \A r \in flight.waiters : due'[r] \subseteq due[r]
    BY <1>0, <1>5 DEF Idle, Drops, Serve, SessionEnds, PedalChanges, waitingVars
  <2> QED BY <1>4, <2>1, <2>2
<1>6. ASSUME NEW r \in Requests, Refused(r)
      PROVE  SnapshotInv'
  <2>1. flight' \in {flight, Sealed(flight)} /\ passed' = passed
    BY <1>6 DEF Refused
  <2>2. \A q \in Requests : due'[q] \subseteq due[q]
    BY <1>6, SayTells DEF Refused, Refuse
  <2> QED BY <1>0, <1>4, <2>1, <2>2
<1>7. ASSUME NEW r \in Requests, JoinSnapshot(r)
      PROVE  SnapshotInv'
  <2>1. /\ flight # NoFlight /\ passed' = passed /\ Waits(r) /\ r \notin flight.waiters
    BY <1>0, <1>7, NewIsNotKept DEF JoinSnapshot, InFlight, captainVars, Accepted, Kept, AllWaiters
  <2>2. due'[r] = passed /\ \A q \in flight.waiters : due'[q] = due[q]
    BY <1>0, <2>1, WaitsType
  <2>3. /\ flight'.id = flight.id /\ flight'.gate = flight.gate
        /\ flight'.waiters = flight.waiters \/ (flight.gate = "open" /\ flight'.waiters = flight.waiters \cup {r})
    BY <1>0, <1>7 DEF JoinSnapshot, TypeOK
  <2>4. ASSUME NEW S, NEW T, Owed(S), S \cap Changes \subseteq T
        PROVE  OwedLater(T)
    <3>1. \A q \in flight.waiters : due[q] \subseteq T
      BY <1>0, <2>4 DEF Owed
    <3>2. flight.gate = "open" => passed \subseteq T
      BY <1>0, <2>4 DEF Owed
    <3> QED BY <2>1, <2>2, <2>3, <3>1, <3>2 DEF OwedLater
  <2> QED BY <2>1, <2>3, <2>4, SnapshotKept DEF OwedGoesOn
<1>8. ASSUME NEW r \in Requests, StartSnapshot(r)
      PROVE  SnapshotInv'
  <2>1. PICK l \in Lines : l = ContextLine /\ l.id = Id("ctx", seq.ctx + 1)
    BY <1>0, IdTypes, LineType DEF ContextLine
  <2>2. wire' = Append(wire, l) /\ flight' = Snapshot(Id("ctx", seq.ctx + 1), {r})
        /\ passed' = passed /\ link # "off"
    BY <1>8, <2>1 DEF StartSnapshot, ContextLine, Accepted, connected
  <2>3. flight'.id = l.id
    BY <2>1, <2>2 DEF Snapshot
  <2> QED BY <2>1, <2>2, <2>3, SnapshotNew
<1>9. ASSUME NEW r \in Requests, NEW c \in Changes \cup {NoChange}, SendRequest(r, c)
      PROVE  SnapshotInv'
  <2>1. /\ flight' = SealedBy(r) /\ Waits(r) /\ r \notin flight.waiters
        /\ passed' = passed \cup ({c} \cap Changes) /\ (c # NoChange => KindOf[r] = "command")
    BY <1>0, <1>9, NewIsNotKept DEF SendRequest, Accepted, Kept, AllWaiters
  <2>2. \A q \in flight.waiters : due'[q] = due[q]
    BY <1>0, <2>1, WaitsType
  <2>3. CASE KindOf[r] = "command"
    BY <1>4, <2>1, <2>2, <2>3 DEF SealedBy
  <2>4. CASE KindOf[r] # "command"
    <3>1. flight' = flight /\ c = NoChange
      BY <2>1, <2>4 DEF SealedBy
    <3>2. passed' = passed
      BY <2>1, <3>1, NamesAssumption
    <3> QED BY <1>4, <2>2, <3>1, <3>2
  <2> QED BY <2>3, <2>4
<1>10. CASE SeePush \/ \E c \in Changes : PassOn(c)
  <2>1. flight' = Sealed(flight) /\ due' = due
    BY <1>10 DEF SeePush, PassOn, waitingVars
  <2> QED BY <1>4, <2>1
<1>11. ASSUME NEW s \in Subs, CloseSub(s)
       PROVE  SnapshotInv'
  <2>1. /\ flight'.id = flight.id /\ flight'.waiters \subseteq flight.waiters
        /\ flight'.gate = flight.gate
    BY <1>0, <1>11, CloseTells DEF IInv
  <2>2. passed' = passed /\ due' = due
    BY <1>11 DEF CloseSub, captainVars, waitingVars
  <2>3. flight = NoFlight => flight' = NoFlight
    <3>1. FlightInv' /\ NoFlight.id = NoId
      BY <1>0, FlightStep DEF NoFlight, Snapshot
    <3> QED BY <2>1, <3>1 DEF FlightInv
  <2> QED BY <1>2, <1>3, <2>1, <2>2, <2>3
<1>12. ASSUME NEW o \in Outcomes, NEW F \in SUBSET Ids, Ends(o, F)
       PROVE  SnapshotInv'
  <2>1. PICK l \in Lines : l = ContextLine /\ l.id = Id("ctx", seq.ctx + 1)
    BY <1>0, IdTypes, LineType DEF ContextLine
  <2>2. Finish(o, F) /\ passed' = passed
    BY <1>12 DEF Ends
  <2>3. \/ flight' = NoFlight
        \/ wire' = Append(wire, l) /\ flight' = Snapshot(Id("ctx", seq.ctx + 1), flight.next) /\ LinkAccepts
    BY <1>0, <2>1, <2>2, FinishIs DEF ContextLine
  <2>4. CASE wire' = Append(wire, l) /\ flight' = Snapshot(Id("ctx", seq.ctx + 1), flight.next) /\ LinkAccepts
    <3>1. flight'.id = l.id /\ link # "off"
      BY <2>1, <2>4 DEF Snapshot, LinkAccepts, connected
    <3> QED BY <2>1, <2>2, <2>4, <3>1, SnapshotNew
  <2> QED BY <1>1, <2>3, <2>4
<1>13. ASSUME NEW p \in pending, NEW o \in Outcomes, NEW F \in SUBSET Ids, Leaves(p, o, F)
       PROVE  SnapshotInv'
  <2>1. flight' = flight /\ passed' = passed /\ Answer(Say({p.req}, o))
    BY <1>13 DEF Leaves
  <2>2. {p.req} \in SUBSET Requests
    BY <1>0 DEF TypeOK
  <2>3. \A q \in Requests : due'[q] \subseteq due[q]
    BY <2>1, <2>2, SayTells
  <2> QED BY <1>0, <1>4, <2>1, <2>3
<1>14. CASE Stop \/ SeeDown
  BY <1>1, <1>14 DEF Stop, SeeDown
<1> QED
  BY <1>0, <1>5, <1>6, <1>7, <1>8, <1>9, <1>10, <1>11, <1>12, <1>13, <1>14, StepCases

(***************************************************************************)
(* The theorems.                                                           *)
(***************************************************************************)
LEMMA InitHolds == Init => IInv
<1> SUFFICES ASSUME Init
             PROVE  IInv
  OBVIOUS
<1>0. /\ link = "down" /\ sessions = 0 /\ wire = <<>> /\ posted = <<>> /\ made = {} /\ passed = {}
      /\ subs = Subs /\ maintenance = FALSE /\ flight = NoFlight /\ pending = {}
      /\ index = [s \in Subs |-> {}] /\ seq = [ctx |-> 0, req |-> 0] /\ tracked = {}
      /\ call \in [Requests -> {"new", "done"}] /\ due = [r \in Requests |-> {}] /\ said = {}
  BY DEF Init
<1>1. /\ NoFlight = [id |-> NoId, gate |-> "open", waiters |-> {}, next |-> {}] /\ AllWaiters = {}
  BY <1>0 DEF NoFlight, Snapshot, AllWaiters
<1>2. TypeOK
  <2>1. wire \in Seq(Lines) /\ posted \in Seq(Replies \cup Notices)
    BY <1>0
  <2>2. flight \in [id : Ids \cup {NoId}, gate : {"open", "sealed"},
                    waiters : SUBSET Requests, next : SUBSET Requests]
    BY <1>0, <1>1
  <2>3. /\ index \in [Subs -> SUBSET ({"req"} \X (1 .. seq.req))] /\ seq \in [ctx : Nat, req : Nat]
        /\ due \in [Requests -> SUBSET Changes]
    BY <1>0
  <2>4. call \in [Requests -> {"new", "waiting", "done"}]
    BY <1>0
  <2> QED BY <1>0, <2>1, <2>2, <2>3, <2>4 DEF TypeOK
<1>3. FlightInv /\ PendingInv /\ WaitingInv /\ IndexInv
  BY <1>0, <1>1 DEF FlightInv, PendingInv, WaitingInv, Waiting, Kept, IndexInv
<1>4. LimitInv
  <2>1. \A s \in Subs : OfSub(s, AllWaiters) = {}
    BY <1>1 DEF OfSub
  <2>2. IsFiniteSet({}) /\ Cardinality({}) = 0
    BY FS_EmptySet
  <2>3. \A s \in Subs : index[s] = {}
    BY <1>0
  <2>4. RequestsMax >= 0 /\ RequestsPerSubMax >= 0 /\ ContextMax >= 0 /\ ContextPerSubMax >= 0
    BY BoundsAssumption
  <2> QED BY <1>0, <1>1, <2>1, <2>2, <2>3, <2>4 DEF LimitInv
<1>5. IdsInv /\ TrackedInv /\ OwnInv /\ PassedInv /\ SnapshotInv
  BY <1>0, <1>1 DEF IdsInv, TrackedInv, OwnInv, PassedInv, SnapshotInv
<1> QED BY <1>2, <1>3, <1>4, <1>5 DEF IInv

LEMMA StepHolds == IInv /\ [Next]_vars => IInv'
<1> SUFFICES ASSUME IInv, [Next]_vars
             PROVE  IInv'
  OBVIOUS
<1>1. TypeOK' /\ FlightInv'
  BY TypeStep, FlightStep DEF IInv
<1> QED
  BY <1>1, PendingStep, WaitingStep, IndexStep, LimitStep, IdsStep, TrackedStep, OwnStep, PassedStep,
     SnapshotStep DEF IInv

\* The inductive invariant holds of every execution.
THEOREM Inductive == Spec => []IInv
<1>1. Init => IInv
  BY InitHolds
<1>2. IInv /\ [Next]_vars => IInv'
  BY StepHolds
<1> QED BY <1>1, <1>2, PTL DEF Spec

\* Every variable keeps its type, whatever the clients ask for.
THEOREM TypeCorrect == Spec => []TypeOK
<1>1. IInv => TypeOK
  BY DEF IInv
<1> QED BY <1>1, Inductive, PTL

LEMMA UnderWayIsOn ==
  ASSUME TypeOK, NEW t, UnderWay(t)
  PROVE  t \in IdsOn(wire) \cup IdsOn(posted)
<1>1. ASSUME NEW i \in DOMAIN wire, wire[i].id = t
      PROVE  t \in IdsOn(wire)
  <2>1. wire[i] \in Lines
    BY DEF TypeOK
  <2>2. "id" \in DOMAIN wire[i]
    BY <2>1 DEF Lines
  <2> QED BY <1>1, <2>2 DEF IdsOn
<1>2. ASSUME NEW i \in DOMAIN posted, posted[i].type \in {"reply", "error"}, posted[i].id = t
      PROVE  t \in IdsOn(posted)
  <2>1. posted[i] \in Replies
    BY <1>2 DEF TypeOK, Notices
  <2>2. "id" \in DOMAIN posted[i]
    BY <2>1 DEF Replies
  <2> QED BY <1>2, <2>2 DEF IdsOn
<1> QED BY <1>1, <1>2 DEF UnderWay

\* Through refusals, timeouts, closed clients and lost sessions, the hub keeps exactly what
\* somebody waits for, once, and follows only what is still to come (hub.py:421-577, 848-1024).
THEOREM NothingIsLost == Spec => []NothingLost
<1>1. IInv => NothingLost
  <2> SUFFICES ASSUME IInv
               PROVE  NothingLost
    OBVIOUS
  <2>1. DownPending \/ tracked \subseteq IdsOn(wire) \cup IdsOn(posted)
    BY UnderWayIsOn DEF IInv, TrackedInv
  <2>2. ASSUME NEW r \in Requests
        PROVE  Cardinality({p \in pending : p.req = r}) <= 1
    <3>1. \A p, q \in {x \in pending : x.req = r} : p = q
      BY DEF IInv, PendingInv
    <3> DEFINE Q == {p \in pending : p.req = r}
    <3>2. Q = {} \/ \E p : Q = {p}
      BY <3>1
    <3> HIDE DEF Q
    <3>3. Cardinality({}) = 0 /\ \A p : Cardinality({p}) = 1
      BY FS_EmptySet, FS_Singleton
    <3>4. Cardinality(Q) = 0 \/ Cardinality(Q) = 1
      <4>1. CASE Q = {}
        BY <3>3, <4>1
      <4>2. ASSUME NEW p, Q = {p}
            PROVE  Cardinality(Q) = 1
        BY <3>3, <4>2
      <4> QED BY <3>2, <4>1, <4>2
    <3> QED BY <3>4 DEF Q
  <2>3. ASSUME NEW r \in Requests
        PROVE  /\ Waiting(r) <=> r \in AllWaiters \/ \E p \in pending : p.req = r
               /\ ~(r \in flight.waiters /\ r \in flight.next)
    BY DEF IInv, WaitingInv, Kept, FlightInv
  <2> QED BY <2>1, <2>2, <2>3 DEF NothingLost
<1> QED BY <1>1, Inductive, PTL

\* The index lists each client's requests and no others, and the limits hold for each client
\* and for all together.
THEOREM IndexAlwaysExact == Spec => []IndexExact
<1>1. IInv => IndexExact
  BY DEF IInv, IndexInv, LimitInv, IndexExact
<1> QED BY <1>1, Inductive, PTL

(***************************************************************************)
(* The refinement: what the clients see is OwnAnswers.                     *)
(***************************************************************************)
\* Only requests that wait are kept, so an answer comes once.
LEMMA KeptWaits ==
  ASSUME IInv, NEW r \in Requests, Kept(r)
  PROVE  call[r] = "waiting"
BY DEF IInv, WaitingInv, Waiting

\* A step that answers nobody and makes no request.
LEMMA MoveSilently ==
  ASSUME TypeOK', UNCHANGED <<call, due>>, said' = {}, passed \subseteq passed'
  PROVE  Answers!Move
BY DEF TypeOK, Answers!Move

\* A step that makes one request.
LEMMA MoveMakes ==
  ASSUME TypeOK, TypeOK', NEW r \in Requests, Asks(r), Waits(r), passed \subseteq passed'
  PROVE  Answers!Move
<1>1. /\ call'[r] = "waiting" /\ due'[r] = passed /\ call[r] = "new" /\ said' = {}
      /\ \A q \in Requests \ {r} : call'[q] = call[q] /\ due'[q] = due[q]
  BY WaitsType DEF Waits, Silent, Asks
<1> QED BY <1>1 DEF TypeOK, Answers!Move

\* A step that answers those of R with one outcome.
LEMMA MoveAnswers ==
  ASSUME TypeOK', NEW R \in SUBSET Requests, NEW o, Answer(Say(R, o)), passed' = passed,
         \A r \in R : call[r] # "done" /\ Answers!Allowed(r, o)
  PROVE  Answers!Move
<1>1. /\ said' = Say(R, o)
      /\ \A q \in Requests : /\ call'[q] = IF q \in R THEN "done" ELSE call[q]
                             /\ due'[q] = IF q \in R THEN {} ELSE due[q]
  BY SayTells
<1>2. ASSUME NEW q \in Requests, q \notin R
      PROVE  UNCHANGED <<call[q], due[q]>> /\ \A a \in said' : a.req # q
  BY <1>1, <1>2 DEF Say
<1>3. ASSUME NEW q \in Requests, q \in R
      PROVE  /\ call[q] # "done" /\ call'[q] = "done" /\ due'[q] = {}
             /\ \E a \in said' : {b \in said' : b.req = q} = {a} /\ Answers!Allowed(q, a.outcome)
  <2>1. PICK a : a = [req |-> q, outcome |-> o]
    OBVIOUS
  <2>2. a \in said' /\ a.outcome = o /\ {b \in said' : b.req = q} = {a}
    BY <1>1, <1>3, <2>1 DEF Say
  <2> QED BY <1>1, <1>3, <2>2
<1>4. passed' \subseteq Changes
  BY DEF TypeOK
<1> QED BY <1>2, <1>3, <1>4 DEF Answers!Move

\* And one that answers those of R with one outcome, those of Q with another.
LEMMA MoveAnswersBoth ==
  ASSUME TypeOK', NEW R \in SUBSET Requests, NEW Q \in SUBSET Requests, R \cap Q = {},
         NEW o, NEW u, Answer(Say(R, o) \cup Say(Q, u)), passed' = passed,
         \A r \in R : call[r] # "done" /\ Answers!Allowed(r, o),
         \A r \in Q : call[r] # "done" /\ Answers!Allowed(r, u)
  PROVE  Answers!Move
<1>1. /\ said' = Say(R, o) \cup Say(Q, u)
      /\ \A q \in Requests : /\ call'[q] = IF q \in R \cup Q THEN "done" ELSE call[q]
                             /\ due'[q] = IF q \in R \cup Q THEN {} ELSE due[q]
  BY SayTellsBoth
<1>2. ASSUME NEW q \in Requests, q \notin R \cup Q
      PROVE  UNCHANGED <<call[q], due[q]>> /\ \A a \in said' : a.req # q
  BY <1>1, <1>2 DEF Say
<1>3. ASSUME NEW q \in Requests, q \in R \cup Q
      PROVE  /\ call[q] # "done" /\ call'[q] = "done" /\ due'[q] = {}
             /\ \E a \in said' : {b \in said' : b.req = q} = {a} /\ Answers!Allowed(q, a.outcome)
  <2>1. PICK a : a = [req |-> q, outcome |-> IF q \in R THEN o ELSE u]
    OBVIOUS
  <2>2. a \in said' /\ {b \in said' : b.req = q} = {a}
    BY <1>1, <1>3, <2>1 DEF Say
  <2>3. a.outcome = IF q \in R THEN o ELSE u
    BY <2>1
  <2> QED BY <1>1, <1>3, <2>2, <2>3
<1>4. passed' \subseteq Changes
  BY DEF TypeOK
<1> QED BY <1>2, <1>3, <1>4 DEF Answers!Move

\* Every step is one that a client may count on, or shows nothing.
LEMMA AnswersStep == IInv /\ [Next]_vars => [Answers!Next]_(Answers!vars)
<1> SUFFICES ASSUME IInv, [Next]_vars
             PROVE  [Answers!Next]_(Answers!vars)
  OBVIOUS
<1>0. TypeOK /\ TypeOK' /\ OwnInv
  BY TypeStep DEF IInv
<1>1. \A r : Answers!Allowed(r, Failed)
  BY DEF Answers!Allowed, Failed
<1>2. CASE Idle
  <2>1. UNCHANGED <<call, due, passed>> /\ said' \in {said, {}}
    BY <1>2 DEF Idle
  <2>2. CASE said' = {}
    BY <1>0, <2>1, <2>2, MoveSilently DEF Answers!Next
  <2>3. CASE said' = said
    BY <2>1, <2>3 DEF Answers!vars
  <2> QED BY <2>1, <2>2, <2>3
<1>3. CASE (\E c \in Changes : PassOn(c)) \/ (\E s \in Subs : CloseSub(s)) \/ (\E F \in SUBSET Ids : Drops(F))
           \/ Stop \/ SeePush \/ Serve \/ \E c \in Changes : PedalChanges(c)
  <2>1. UNCHANGED <<call, due>> /\ said' = {} /\ passed \subseteq passed'
    BY <1>3 DEF PassOn, CloseSub, Drops, Stop, SeePush, Serve, PedalChanges, Silent, waitingVars, captainVars
  <2> QED BY <1>0, <2>1, MoveSilently DEF Answers!Next
<1>4. ASSUME NEW r \in Requests, JoinSnapshot(r) \/ StartSnapshot(r)
                                 \/ \E c \in Changes \cup {NoChange} : SendRequest(r, c)
      PROVE  Answers!Move
  <2>1. Asks(r) /\ Waits(r) /\ passed \subseteq passed'
    BY <1>4 DEF JoinSnapshot, StartSnapshot, SendRequest, Accepted, captainVars
  <2> QED BY <1>0, <2>1, MoveMakes
<1>5. ASSUME NEW r \in Requests, Refused(r)
      PROVE  Answers!Move
  <2>1. Answer(Say({r}, Failed)) /\ passed' = passed /\ call[r] # "done"
    BY <1>5 DEF Refused, Refuse, Asks
  <2> QED BY <1>0, <1>1, <2>1, MoveAnswers
<1>6. ASSUME NEW o \in Outcomes, NEW F \in SUBSET Ids, Ends(o, F)
      PROVE  Answers!Move
  <2>1. Finish(o, F) /\ passed' = passed
    BY <1>6 DEF Ends
  <2>2. /\ flight.waiters \in SUBSET Requests /\ flight.next \in SUBSET Requests
        /\ flight.waiters \cap flight.next = {}
        /\ \A r \in flight.waiters : KindOf[r] = "context"
    BY <1>0, FlightType DEF IInv, FlightInv, AllWaiters
  <2>3. \A r \in flight.waiters \cup flight.next : call[r] # "done"
    BY <2>2, KeptWaits DEF Kept, AllWaiters
  <2>4. \A r \in flight.waiters : Answers!Allowed(r, o)
    <3>1. CASE o = Failed
      BY <1>1, <3>1
    <3>2. CASE /\ posted # <<>> /\ Head(posted).type = "reply" /\ Head(posted).id = flight.id
               /\ o = Context(Head(posted).val)
      <4>1. 1 \in DOMAIN posted /\ posted[1] = Head(posted) /\ Head(posted) \in Replies \cup Notices
        BY <1>0, <3>2, AllButFirst, PostedType DEF TypeOK
      <4>2. flight.id # NoId
        <5>1. Head(posted).id \in Ids
          BY <3>2, <4>1 DEF Replies, Notices
        <5>2. NoId \notin Ids
          BY DEF Ids, NoId, Id
        <5> QED BY <3>2, <5>1, <5>2
      <4>3. flight # NoFlight
        BY <4>2 DEF NoFlight, Snapshot
      <4>4. Owed(Head(posted).val)
        BY <3>2, <4>1, <4>3 DEF IInv, SnapshotInv
      <4>5. o.kind = "context" /\ o.val = Head(posted).val
        BY <3>2 DEF Context
      <4> QED BY <2>2, <4>4, <4>5 DEF Owed, Answers!Allowed
    <3> QED BY <1>6, <3>1, <3>2 DEF Ends
  <2>5. \/ Answer(Say(flight.waiters, o))
        \/ Answer(Say(flight.waiters, o) \cup Say(flight.next, Failed))
    BY <1>0, <2>1, FinishIs
  <2>6. CASE Answer(Say(flight.waiters, o))
    BY <1>0, <2>1, <2>2, <2>3, <2>4, <2>6, MoveAnswers
  <2>7. CASE Answer(Say(flight.waiters, o) \cup Say(flight.next, Failed))
    BY <1>0, <1>1, <2>1, <2>2, <2>3, <2>4, <2>7, MoveAnswersBoth
  <2> QED BY <2>5, <2>6, <2>7
<1>7. ASSUME NEW p \in pending, NEW o \in Outcomes, NEW F \in SUBSET Ids, Leaves(p, o, F)
      PROVE  Answers!Move
  <2>1. Answer(Say({p.req}, o)) /\ passed' = passed
    BY <1>7 DEF Leaves
  <2>2. p.req \in Requests /\ KindOf[p.req] # "context"
    BY <1>0 DEF TypeOK, IInv, PendingInv
  <2>3. call[p.req] # "done"
    BY <2>2, KeptWaits DEF Kept
  <2>4. Answers!Allowed(p.req, o)
    <3>1. CASE o = Failed
      BY <1>1, <3>1
    <3>2. CASE /\ posted # <<>> /\ Head(posted).type = "reply" /\ Head(posted).id = p.id
               /\ o = Own(Head(posted).of)
      <4>1. 1 \in DOMAIN posted /\ posted[1] = Head(posted)
        BY <1>0, <3>2, AllButFirst DEF TypeOK
      <4>2. Head(posted).of = p.req
        BY <1>0, <3>2, <4>1 DEF OwnInv
      <4> QED BY <2>2, <3>2, <4>2 DEF Own, Answers!Allowed
    <3> QED BY <1>7, <3>1, <3>2 DEF Leaves
  <2> QED BY <1>0, <2>1, <2>2, <2>3, <2>4, MoveAnswers
<1>8. CASE SeeDown
  <2>1. Answer(Say(AllWaiters \cup {p.req : p \in pending}, Failed)) /\ passed' = passed
    BY <1>8 DEF SeeDown, captainVars
  <2>2. AllWaiters \cup {p.req : p \in pending} \in SUBSET Requests
    BY <1>0, FlightType DEF TypeOK
  <2>3. \A r \in AllWaiters \cup {p.req : p \in pending} : call[r] # "done"
    BY <2>2, KeptWaits DEF Kept
  <2> QED BY <1>0, <1>1, <2>1, <2>2, <2>3, MoveAnswers DEF Answers!Next
<1>9. CASE SessionEnds
  <2>1. /\ passed' = passed \cap made /\ due' = [r \in Requests |-> due[r] \cap made] /\ said' = {}
        /\ call' = call
    BY <1>9 DEF SessionEnds, Silent
  <2>2. \A r \in Requests : due[r] \subseteq passed
    BY DEF IInv, PassedInv
  <2>3. \A r \in Requests : due[r] \cap made = due[r] \cap passed'
    BY <2>1, <2>2
  <2> QED BY <2>1, <2>3 DEF Answers!Next, Answers!TakeBack
<1> QED
  BY <1>0, <1>2, <1>3, <1>4, <1>5, <1>6, <1>7, <1>8, <1>9, StepCases DEF Answers!Next

\* Private ids, shared snapshots, seals and sessions cannot be seen in the answers: each
\* request gets an error, its own reply, or a context with all that was passed on before it.
THEOREM AnswersAlwaysOwn == Spec => AnswersAreOwn
<1>1. Init => Answers!Init
  BY DEF Init, Answers!Init
<1>2. IInv /\ [Next]_vars => [Answers!Next]_(Answers!vars)
  BY AnswersStep
<1> QED BY <1>1, <1>2, Inductive, PTL DEF Spec, AnswersAreOwn, Answers!Spec

=============================================================================
