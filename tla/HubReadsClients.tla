-------------------------- MODULE HubReadsClients ---------------------------
(***************************************************************************)
(* What the hub owes the clients that read patches: every client with no   *)
(* answer waits in exactly one flight, no client and no hub holds more     *)
(* waiters than its limit, and every answer is the patch as it was at some *)
(* moment since the client asked.                                          *)
(*                                                                         *)
(* The last of these is the refinement of FreshReads.  It rests on one     *)
(* fact: as long as a flight can be joined, its read stands behind every   *)
(* change to its key that the hub has taken, on the wire or in the         *)
(* Captain, so that the reply shows all of them (IsShown).                 *)
(***************************************************************************)
EXTENDS HubReadsProof, FiniteSetTheorems

-----------------------------------------------------------------------------
(* The invariant.                                                          *)

\* A client that has no answer yet waits in one place, and nobody in a flight that
\* is over.
WaitersInv ==
  /\ NoLostWaiter
  /\ \A k \in Keys : flight[k].waiters \cap flight[k].next = {}
  /\ \A k \in Keys : ~InFlight(k) => WaitersOf(k) = {}
  /\ \A r \in Requests : asked[r] = NotAsked => answer[r] = None

LimitsInv == IsFiniteSet(AllWaiters) /\ WaiterLimits

\* No id is on its way twice.
HasId(line) == line.type \notin {"write", "down", "switched"}
Once(lines) ==
  \A i, j \in DOMAIN lines :
    HasId(lines[i]) /\ HasId(lines[j]) /\ lines[i].id = lines[j].id => i = j
IdsOnce == Once(wire) /\ Once(posted) /\ IdsOf(wire) \cap IdsOf(posted) = {}

\* What is followed is under way; and all that is under way is followed, when the
\* loop has run the end of a session before the next: that end is posted last.
LastDown ==
  \A i \in 1 .. Len(posted) : posted[i].type = "down" => i = Len(posted) /\ ~connected

FollowInv ==
  /\ tracked \subseteq IdsOf(wire) \cup IdsOf(posted) \/ DownPending
  /\ LoopKeepsUp => TrackedUntilAnswered /\ LastDown

\* Nothing shows a change that was not made, nor is a promise older than what was
\* passed on.
Possible ==
  /\ \A i \in 1 .. Len(posted) : posted[i].type = "patch" => posted[i].val <= writes
  /\ \A k \in Keys : cache[k] # None => cache[k].val <= writes
  /\ \A i \in 1 .. Len(wire), k \in Keys : WritesTo(wire[i], k) => wire[i].n <= promised[k]
  /\ \A k \in Keys \ SavedKeys : stored[k] <= promised[k]

\* A read that is the i-th line will show k with the change p or a later one.
WillShow(i, k, p) ==
  /\ (\A j \in 1 .. i - 1 : ~WritesTo(wire[j], k)) => stored[k] >= p
  /\ \A j \in 1 .. i - 1 :
       WritesTo(wire[j], k) /\ (\A m \in j + 1 .. i - 1 : ~WritesTo(wire[m], k))
         => wire[j].n >= p

Ended(i) == \E j \in 1 .. i - 1 : posted[j].type = "down"

\* Until the end of its session is known, the read of a flight shows its waiters
\* what was promised when they asked, and a read sent now would show as much to those
\* who wait for the next.
StillPromised(k, r) == ~EndOfSessionPosted => asked[r].promised <= promised[k]
IsShown(k, r) ==
  /\ ~EndOfSessionPosted =>
       \A i \in 1 .. Len(wire) :
         wire[i].type = "read" /\ wire[i].id = flight[k].id
           => WillShow(i, k, asked[r].promised)
  /\ \A i \in 1 .. Len(posted) :
       posted[i].type = "patch" /\ posted[i].id = flight[k].id /\ ~Ended(i)
         => posted[i].val >= asked[r].promised
OwedInv ==
  \A k \in Keys : /\ \A r \in WaitersOf(k) : StillPromised(k, r)
                  /\ \A r \in flight[k].waiters : IsShown(k, r)


(* What a step does to the clients and to the flights.                     *)

SameFlights ==
  \A k \in Keys : /\ flight'[k].id = flight[k].id
                  /\ flight'[k].waiters = flight[k].waiters
                  /\ flight'[k].next = flight[k].next

\* Nothing but seals, the cache and what is under way.
NoClients == SameFlights /\ UNCHANGED clientVars /\ subs' = subs

\* A request is answered at once.
Answered(r, k, o) ==
  /\ Asks(r, k)
  /\ o = Failed \/ (cache[k] # None /\ o = cache[k])
  /\ answer' = [answer EXCEPT ![r] = o]
  /\ UNCHANGED <<captainVars, posted, subs, cache, flight, tracked>>
  /\ seq' \in {seq, seq + 1}

\* The first callback is a reply, which F names.
Took(F) ==
  /\ posted # <<>> /\ posted' = Tail(posted)
  /\ Head(posted).type \in {"patch", "error"}
  /\ F = {Head(posted).id}

\* A generation ends by the time, by an error, or by the patch that was posted first.
Ends(k, o, F) ==
  /\ InFlight(k) /\ Finish(k, o, F)
  /\ \/ o = Failed /\ cache' = cache
     \/ /\ Head(posted).type = "patch" /\ Head(posted).id = flight[k].id
        /\ o = Patch(Head(posted).val) /\ posted # <<>>
        /\ cache' \in {cache, [cache EXCEPT ![k] = o]}
  /\ (posted' = posted /\ F = {}) \/ (Took(F) /\ flight[k].id = Head(posted).id)
  /\ UNCHANGED <<link, sessions, stored, writes, promised, subs, asked>>

LEMMA SealingKeeps ==
  ASSUME TypeOK, NEW S, flight' = Sealed(flight, S)
  PROVE  SameFlights
<1>1. \A k \in Keys : flight[k] \in Flights
  BY DEF TypeOK
<1>2. \A f \in Flights : [f EXCEPT !.gate = "sealed"].id = f.id
                         /\ [f EXCEPT !.gate = "sealed"].waiters = f.waiters
                         /\ [f EXCEPT !.gate = "sealed"].next = f.next
  BY DEF Flights
<1>3. QED
  BY <1>1, <1>2 DEF SameFlights, Sealed

\* A callback that answers nobody: taken, and no more.
LEMMA EndsOf ==
  ASSUME TypeOK, IdsGiven
  PROVE  /\ \A k \in Keys : Timeout(k) => Ends(k, Failed, {})
         /\ TakeError => \E k \in Keys : Ends(k, Failed, {Head(posted).id})
         /\ TakePatch => \E k \in Keys : Ends(k, Patch(Head(posted).val), {Head(posted).id})
<1>1. ASSUME posted # <<>>, Head(posted).type \in {"patch", "error"}
      PROVE  Head(posted).id # 0
  <2>1. Head(posted) = posted[1] /\ 1 \in 1 .. Len(posted)
    BY <1>1, TailFacts DEF TypeOK
  <2>2. QED
    BY <1>1, <2>1 DEF IdsGiven, TypeOK
<1>2. ASSUME NEW k \in Keys, Timeout(k) PROVE Ends(k, Failed, {})
  BY <1>2 DEF Timeout, Ends
<1>3. ASSUME TakeError PROVE \E k \in Keys : Ends(k, Failed, {Head(posted).id})
  <2>1. PICK k \in FlightOf(Head(posted).id) : Finish(k, Failed, {Head(posted).id})
    BY <1>3 DEF TakeError
  <2>2. posted # <<>> /\ Head(posted).type = "error" /\ posted' = Tail(posted)
    BY <1>3 DEF TakeError, NextIs
  <2>3. k \in Keys /\ flight[k].id = Head(posted).id /\ InFlight(k)
    BY <1>1, <2>1, <2>2 DEF FlightOf, InFlight
  <2>4. QED
    BY <1>3, <2>1, <2>2, <2>3 DEF TakeError, Ends, Took
<1>4. ASSUME TakePatch
      PROVE  \E k \in Keys : Ends(k, Patch(Head(posted).val), {Head(posted).id})
  <2>1. PICK k \in FlightOf(Head(posted).id) :
          /\ cache' = IF Keepable(k)
                      THEN [cache EXCEPT ![k] = Patch(Head(posted).val)]
                      ELSE cache
          /\ Finish(k, Patch(Head(posted).val), {Head(posted).id})
    BY <1>4 DEF TakePatch
  <2>2. posted # <<>> /\ Head(posted).type = "patch" /\ posted' = Tail(posted)
    BY <1>4 DEF TakePatch, NextIs
  <2>3. k \in Keys /\ flight[k].id = Head(posted).id /\ InFlight(k)
    BY <1>1, <2>1, <2>2 DEF FlightOf, InFlight
  <2>4. cache' \in {cache, [cache EXCEPT ![k] = Patch(Head(posted).val)]}
    BY <2>1
  <2>5. QED
    BY <1>4, <2>1, <2>2, <2>3, <2>4 DEF TakePatch, Ends, Took
<1>5. QED
  BY <1>2, <1>3, <1>4

\* The Captain's steps and the link's, those that seal, and those that only take a
\* callback are for the clients all the same.
Sealing(S) ==
  /\ flight' = Sealed(flight, S)
  /\ \A k \in Keys : cache'[k] \in {cache[k], None}
  /\ writes' \in {writes, writes + 1}
  /\ \/ posted' = posted
     \/ posted # <<>> /\ Head(posted).type = "switched" /\ posted' = Tail(posted)
  /\ UNCHANGED <<link, wire, stored, promised, subs, seq, tracked, clientVars>>

OfTheLink ==
  \/ SessionStarts \/ SessionEnds \/ ExecuteRead \/ ExecuteWrite
  \/ \E l \in Locations : PedalSwitches(l)
  \/ \E k \in Keys : SavesDraft(k) \/ EditedElsewhere(k)

LEMMA StepKinds ==
  ASSUME TypeOK, IdsGiven, Next
  PROVE  \/ \E r \in Requests, k \in Keys :
              \E o \in Outcomes : Answered(r, k, o)
         \/ \E r \in Requests, k \in Keys : JoinFlight(r, k) \/ StartFlight(r, k)
         \/ \E S \in SUBSET Locations, K \in SUBSET Keys : Write(S, K)
         \/ \E S \in SUBSET Locations : Sealing(S)
         \/ \E s \in Subs : CloseSub(s)
         \/ \E k \in Keys : \E o \in Outcomes : \E F : Ends(k, o, F)
         \/ DropReply \/ SeeDown \/ OfTheLink
<1>1. ASSUME NEW r \in Requests, NEW k \in Keys, AnswerAtOnce(r, k)
      PROVE  \E o \in Outcomes : Answered(r, k, o)
  <2>1. cache[k] # None => cache[k] \in Outcomes
    BY DEF TypeOK, Outcomes
  <2>2. \E o \in Outcomes : /\ o = Failed \/ (cache[k] # None /\ o = cache[k])
                            /\ answer' = [answer EXCEPT ![r] = o]
    BY <1>1, <2>1, OutcomeTypes DEF AnswerAtOnce
  <2>3. QED
    BY <1>1, <2>2 DEF AnswerAtOnce, Answered, hubVars
<1>2. ASSUME NEW r \in Requests, NEW k \in Keys, RefusedFlight(r, k)
      PROVE  \E o \in Outcomes : Answered(r, k, o)
  BY <1>2, OutcomeTypes DEF RefusedFlight, Answered, NextSeq
<1>3. \A S \in Selections : S \in SUBSET Locations
  BY DEF Selections
<1>4. ASSUME NEW S \in SUBSET Locations, RefusedWrite(S) \/ SwitchPatch(S)
      PROVE  Sealing(S)
  <2>1. \A k \in Keys : cache'[k] \in {cache[k], None}
    BY <1>4 DEF RefusedWrite, SwitchPatch, Forget
  <2>2. QED
    BY <1>4, <2>1 DEF RefusedWrite, SwitchPatch, Forget, Sealing, captainVars
<1>5. ASSUME SeePatchSwitched
      PROVE  \E S \in SUBSET Locations : Sealing(S)
  <2>1. posted # <<>> /\ Head(posted) \in Replies \cup Notices /\ Head(posted).type = "switched"
    BY <1>5, TailFacts DEF SeePatchSwitched, NextIs, TypeOK
  <2>2. {Head(posted).loc} \in SUBSET Locations
    BY <2>1 DEF Replies, Notices
  <2>3. Sealing({Head(posted).loc})
    BY <1>5 DEF SeePatchSwitched, NextIs, Sealing, captainVars
  <2>4. QED
    BY <2>2, <2>3
<1>6. \A k \in Keys : Timeout(k) => \E o \in Outcomes : \E F : Ends(k, o, F)
  BY EndsOf, OutcomeTypes
<1>7. TakeError => \E k \in Keys : \E o \in Outcomes : \E F : Ends(k, o, F)
  BY EndsOf, OutcomeTypes
<1>8. ASSUME TakePatch PROVE \E k \in Keys : \E o \in Outcomes : \E F : Ends(k, o, F)
  <2>1. Patch(Head(posted).val) \in Outcomes
    BY <1>8, HeadFacts, OutcomeTypes DEF TakePatch, NextIs
  <2>2. QED
    BY <1>8, <2>1, EndsOf
<1>9. CASE ClientStep
  BY <1>1, <1>2, <1>3, <1>4, <1>9 DEF ClientStep
<1>10. CASE \E k \in Keys : Timeout(k)
  BY <1>6, <1>10
<1>11. CASE Dispatch
  BY <1>5, <1>7, <1>8, <1>11 DEF Dispatch
<1>12. CASE CaptainStep
  BY <1>12 DEF CaptainStep, OfTheLink
<1>13. QED
  BY <1>9, <1>10, <1>11, <1>12 DEF Next

-----------------------------------------------------------------------------
(* Who waits, and for which flight.                                        *)

LEMMA FlightTypes ==
  ASSUME TypeOK, NEW k \in Keys
  PROVE  /\ flight[k].id \in 0 .. seq
         /\ flight[k].gate \in {"open", "sealed"}
         /\ flight[k].waiters \subseteq Requests
         /\ flight[k].next \subseteq Requests
         /\ WaitersOf(k) \subseteq Requests
BY DEF TypeOK, Flights, WaitersOf

\* A closing connection takes its own requests out of every flight, and changes no
\* flight otherwise.
LEMMA CloseIs ==
  ASSUME TypeOK, NEW s \in Subs, CloseSub(s)
  PROVE  \A k \in Keys : /\ flight'[k].id = flight[k].id
                         /\ flight'[k].waiters = {r \in flight[k].waiters : Owner[r] # s}
                         /\ flight'[k].next = {r \in flight[k].next : Owner[r] # s}
<1>1. \A f \in Flights :
        LET g == [f EXCEPT !.waiters = {r \in @ : Owner[r] # s},
                           !.next = {r \in @ : Owner[r] # s}]
        IN  /\ g.id = f.id
            /\ g.waiters = {r \in f.waiters : Owner[r] # s}
            /\ g.next = {r \in f.next : Owner[r] # s}
  BY DEF Flights
<1>2. \A k \in Keys : flight[k] \in Flights
  BY DEF TypeOK
<1>3. \A k \in Keys : flight'[k] = [flight[k] EXCEPT !.waiters = {r \in @ : Owner[r] # s},
                                                     !.next = {r \in @ : Owner[r] # s}]
  BY DEF CloseSub
<1>4. QED
  BY <1>1, <1>2, <1>3

\* A request joins the flight of its key or the queue behind it.
LEMMA JoinIs ==
  ASSUME TypeOK, NEW r \in Requests, NEW k \in Keys, JoinFlight(r, k)
  PROVE  /\ flight'[k].id = flight[k].id
         /\ \/ /\ Joinable(k)
               /\ flight'[k].waiters = flight[k].waiters \cup {r}
               /\ flight'[k].next = flight[k].next
            \/ /\ flight'[k].waiters = flight[k].waiters
               /\ flight'[k].next = flight[k].next \cup {r}
         /\ \A x \in Keys : x # k => flight'[x] = flight[x]
<1>1. \A f \in Flights : /\ [f EXCEPT !.waiters = @ \cup {r}].id = f.id
                         /\ [f EXCEPT !.waiters = @ \cup {r}].waiters = f.waiters \cup {r}
                         /\ [f EXCEPT !.waiters = @ \cup {r}].next = f.next
  BY DEF Flights
<1>2. \A f \in Flights : /\ [f EXCEPT !.next = @ \cup {r}].id = f.id
                         /\ [f EXCEPT !.next = @ \cup {r}].waiters = f.waiters
                         /\ [f EXCEPT !.next = @ \cup {r}].next = f.next \cup {r}
  BY DEF Flights
<1>3. flight \in [Keys -> Flights] /\ flight[k] \in Flights
  BY DEF TypeOK
<1>4. /\ \/ Joinable(k) /\ flight'[k] = [flight[k] EXCEPT !.waiters = @ \cup {r}]
         \/ flight'[k] = [flight[k] EXCEPT !.next = @ \cup {r}]
      /\ \A x \in Keys : x # k => flight'[x] = flight[x]
  BY <1>3 DEF JoinFlight
<1>5. CASE Joinable(k) /\ flight'[k] = [flight[k] EXCEPT !.waiters = @ \cup {r}]
  BY <1>1, <1>3, <1>4, <1>5
<1>6. CASE flight'[k] = [flight[k] EXCEPT !.next = @ \cup {r}]
  BY <1>2, <1>3, <1>4, <1>6
<1>7. QED
  BY <1>4, <1>5, <1>6

LEMMA KeptWaiters == WaitersInv /\ NoClients => WaitersInv'
BY DEF WaitersInv, NoClients, SameFlights, clientVars, NoLostWaiter, WaitersOf, Waiting,
       InFlight

LEMMA AnsweredWaits ==
  ASSUME TypeOK, WaitersInv, NEW r \in Requests, NEW k \in Keys,
         NEW o \in Outcomes, Answered(r, k, o)
  PROVE  WaitersInv'
<1>1. o # None
  BY DEF None, Outcomes, Failed
<1>2. /\ asked' = [asked EXCEPT ![r] = [kind |-> "asked", key |-> k, promised |-> promised[k]]]
      /\ answer' = [answer EXCEPT ![r] = o] /\ asked[r] = NotAsked
      /\ flight' = flight /\ subs' = subs
      /\ asked \in [Requests -> {NotAsked} \cup Asking]
      /\ answer \in [Requests -> {None} \cup Outcomes]
  BY DEF Answered, Asks, TypeOK
<1>3. \A x \in Requests : x # r => asked'[x] = asked[x] /\ answer'[x] = answer[x]
  BY <1>2
<1>4. ~Waiting(r)' /\ ~Waiting(r)
  BY <1>1, <1>2 DEF Waiting
<1>5. NoLostWaiter'
  BY <1>2, <1>3, <1>4 DEF WaitersInv, NoLostWaiter, WaitersOf, Waiting
<1>6. \A x \in Requests : asked'[x] = NotAsked => answer'[x] = None
  <2>1. asked'[r] # NotAsked
    BY <1>2 DEF NotAsked
  <2>2. QED
    BY <1>3, <2>1 DEF WaitersInv
<1>7. QED
  BY <1>2, <1>5, <1>6 DEF WaitersInv, InFlight, WaitersOf

\* A request joins the waiters of its key, or those for the next, or is the first.
LEMMA JoinedWaits ==
  ASSUME TypeOK, WaitersInv, NEW r \in Requests, NEW k \in Keys,
         Asks(r, k), UNCHANGED <<answer, subs>>,
         \A x \in Keys : x # k => flight'[x] = flight[x],
         flight'[k].waiters \cup flight'[k].next = WaitersOf(k) \cup {r},
         flight'[k].waiters \cap flight'[k].next = {},
         flight'[k].id # 0
  PROVE  WaitersInv'
<1> DEFINE a == [kind |-> "asked", key |-> k, promised |-> promised[k]]
<1>1. /\ asked' = [asked EXCEPT ![r] = a] /\ asked[r] = NotAsked
      /\ asked \in [Requests -> {NotAsked} \cup Asking]
      /\ a # NotAsked /\ a.key = k
  BY DEF Asks, TypeOK, NotAsked
<1>2. ~Waiting(r)
  BY <1>1 DEF Waiting
<1>3. \A x \in Keys : r \notin WaitersOf(x)
  BY <1>2 DEF WaitersInv, NoLostWaiter
<1>4. answer[r] = None
  BY <1>1 DEF WaitersInv
<1>5. Waiting(r)' /\ asked'[r].key = k
  BY <1>1, <1>4 DEF Waiting, Asks
<1>6. \A x \in Requests : x # r => (Waiting(x)' <=> Waiting(x)) /\ asked'[x] = asked[x]
  BY <1>1 DEF Waiting
<1>7. \A x \in Keys : x # k => WaitersOf(x)' = WaitersOf(x)
  BY DEF WaitersOf
<1>8. WaitersOf(k)' = WaitersOf(k) \cup {r}
  BY DEF WaitersOf
<1>9. NoLostWaiter'
  <2>1. SUFFICES ASSUME NEW x \in Requests, NEW y \in Keys
                 PROVE  x \in WaitersOf(y)' <=> Waiting(x)' /\ asked'[x].key = y
    BY DEF NoLostWaiter, WaitersOf, Waiting
  <2>2. CASE x = r
    BY <1>3, <1>5, <1>7, <1>8, <2>2
  <2>3. CASE x # r
    BY <1>6, <1>7, <1>8, <2>3 DEF WaitersInv, NoLostWaiter
  <2>4. QED
    BY <2>2, <2>3
<1>10. \A x \in Requests : asked'[x] = NotAsked => answer'[x] = None
  BY <1>1 DEF WaitersInv
<1>11. QED
  BY <1>7, <1>9, <1>10 DEF WaitersInv, InFlight

LEMMA JoinWaits ==
  ASSUME TypeOK, TypeOK', WaitersInv, NEW r \in Requests, NEW k \in Keys, JoinFlight(r, k)
  PROVE  WaitersInv'
<1>1. flight[k].next \subseteq Requests /\ flight[k].waiters \subseteq Requests
  BY FlightTypes
<1>2. ~Waiting(r)
  BY DEF JoinFlight, Asks, Waiting
<1>3. r \notin WaitersOf(k)
  BY <1>2 DEF WaitersInv, NoLostWaiter
<1>4. flight[k].waiters \cap flight[k].next = {}
  BY DEF WaitersInv
<1>5. /\ flight'[k].id = flight[k].id
      /\ \/ flight'[k].waiters = flight[k].waiters \cup {r} /\ flight'[k].next = flight[k].next
         \/ flight'[k].waiters = flight[k].waiters /\ flight'[k].next = flight[k].next \cup {r}
      /\ \A x \in Keys : x # k => flight'[x] = flight[x]
  BY JoinIs
<1>6. flight'[k].waiters \cup flight'[k].next = WaitersOf(k) \cup {r}
  BY <1>5 DEF WaitersOf
<1>7. flight'[k].waiters \cap flight'[k].next = {}
  BY <1>3, <1>4, <1>5 DEF WaitersOf
<1>8. flight'[k].id # 0 /\ UNCHANGED <<answer, subs>> /\ Asks(r, k)
  BY <1>5 DEF JoinFlight, InFlight
<1>9. QED
  BY <1>5, <1>6, <1>7, <1>8, JoinedWaits

LEMMA StartWaits ==
  ASSUME TypeOK, WaitersInv, NEW r \in Requests, NEW k \in Keys, StartFlight(r, k)
  PROVE  WaitersInv'
<1>1. WaitersOf(k) = {}
  BY DEF StartFlight, WaitersInv
<1>2. /\ flight'[k] = Out(seq + 1, {r}) /\ seq \in Nat
      /\ \A x \in Keys : x # k => flight'[x] = flight[x]
  BY DEF StartFlight, TypeOK
<1>3. flight'[k].waiters = {r} /\ flight'[k].next = {} /\ flight'[k].id # 0
  BY <1>2 DEF Out
<1>4. UNCHANGED <<answer, subs>> /\ Asks(r, k)
  BY DEF StartFlight
<1>5. flight'[k].waiters \cup flight'[k].next = WaitersOf(k) \cup {r}
  BY <1>1, <1>3
<1>6. flight'[k].waiters \cap flight'[k].next = {}
  BY <1>3
<1>7. QED
  BY <1>2, <1>3, <1>4, <1>5, <1>6, JoinedWaits

LEMMA CloseWaits ==
  ASSUME TypeOK, WaitersInv, NEW s \in Subs, CloseSub(s)
  PROVE  WaitersInv'
<1>1. UNCHANGED <<asked, answer>> /\ subs' = subs \ {s}
  BY DEF CloseSub, clientVars
<1>2. \A k \in Keys : /\ flight'[k].id = flight[k].id
                      /\ flight'[k].waiters = {r \in flight[k].waiters : Owner[r] # s}
                      /\ flight'[k].next = {r \in flight[k].next : Owner[r] # s}
  BY CloseIs
<1>3. \A k \in Keys : WaitersOf(k)' = {r \in WaitersOf(k) : Owner[r] # s}
  BY <1>2 DEF WaitersOf
<1>4. \A r \in Requests : Waiting(r)' <=> Waiting(r) /\ Owner[r] # s
  BY <1>1 DEF Waiting
<1>5. NoLostWaiter'
  <2>1. SUFFICES ASSUME NEW r \in Requests, NEW k \in Keys
                 PROVE  r \in WaitersOf(k)' <=> Waiting(r)' /\ asked'[r].key = k
    BY DEF NoLostWaiter, WaitersOf, Waiting
  <2>2. r \in WaitersOf(k)' <=> r \in WaitersOf(k) /\ Owner[r] # s
    BY <1>3
  <2>3. QED
    BY <1>1, <1>4, <2>2 DEF WaitersInv, NoLostWaiter
<1>6. QED
  BY <1>1, <1>2, <1>3, <1>5 DEF WaitersInv, InFlight

LEMMA DownWaits ==
  ASSUME TypeOK, WaitersInv, SeeDown
  PROVE  WaitersInv'
<1>1. /\ UNCHANGED <<asked, subs>>
      /\ answer' = [r \in Requests |-> IF r \in AllWaiters THEN Failed ELSE answer[r]]
      /\ \A k \in Keys : flight'[k].id = 0 /\ flight'[k].waiters = {} /\ flight'[k].next = {}
  BY DEF SeeDown, NoFlight, Out
<1>2. Failed # None
  BY DEF Failed, None
<1>3. \A r \in Requests : Waiting(r) => \E k \in Keys : asked[r].key = k
  BY DEF Waiting, TypeOK, Asking
<1>4. \A r \in Requests : Waiting(r) => r \in AllWaiters
  BY <1>3 DEF WaitersInv, NoLostWaiter, AllWaiters
<1>5. \A r \in Requests : ~Waiting(r)'
  BY <1>1, <1>2, <1>4 DEF Waiting
<1>6. \A k \in Keys : WaitersOf(k)' = {}
  BY <1>1 DEF WaitersOf
<1>7. NoLostWaiter'
  BY <1>5, <1>6 DEF NoLostWaiter
<1>8. \A r \in Requests : asked'[r] = NotAsked => answer'[r] = None
  <2>1. \A r \in AllWaiters : asked[r] # NotAsked
    BY FlightTypes DEF WaitersInv, NoLostWaiter, AllWaiters, Waiting
  <2>2. QED
    BY <1>1, <2>1 DEF WaitersInv
<1>9. QED
  BY <1>1, <1>6, <1>7, <1>8 DEF WaitersInv, InFlight

\* Those that a generation answers, and those it leaves for the next.
LEMMA EndsIs ==
  ASSUME TypeOK, NEW k \in Keys, NEW o, NEW F, Ends(k, o, F)
  PROVE  \/ /\ flight[k].next # {} /\ LinkAccepts
            /\ answer' = [r \in Requests |-> IF r \in flight[k].waiters THEN o ELSE answer[r]]
            /\ seq' = seq + 1
            /\ flight' = [flight EXCEPT ![k] = Out(seq + 1, flight[k].next)]
            /\ tracked' = (tracked \ F) \cup {seq + 1}
            /\ wire' = Append(wire, ReadLine(seq + 1, k))
         \/ /\ answer' = [r \in Requests |-> IF r \in flight[k].waiters THEN o
                                            ELSE IF r \in flight[k].next THEN Failed
                                            ELSE answer[r]]
            /\ seq' \in {seq, seq + 1}
            /\ flight' = [flight EXCEPT ![k] = NoFlight]
            /\ tracked' = tracked \ F
            /\ wire' = wire
<1>1. CASE flight[k].next # {} /\ LinkAccepts
  BY <1>1 DEF Ends, Finish, NextSeq
<1>2. CASE ~(flight[k].next # {} /\ LinkAccepts)
  BY <1>2 DEF Ends, Finish, NextSeq
<1>3. QED
  BY <1>1, <1>2

LEMMA EndsWaits ==
  ASSUME TypeOK, WaitersInv, NEW k \in Keys, NEW o \in Outcomes, NEW F, Ends(k, o, F)
  PROVE  WaitersInv'
<1> DEFINE left == flight'[k].waiters
<1>1. o # None /\ Failed # None
  BY DEF None, Outcomes, Failed
<1>2. /\ UNCHANGED <<asked, subs>> /\ seq \in Nat
      /\ flight[k].waiters \subseteq Requests /\ flight[k].next \subseteq Requests
      /\ flight[k].waiters \cap flight[k].next = {}
  BY FlightTypes DEF Ends, TypeOK, WaitersInv
<1>3. /\ \A x \in Keys : x # k => flight'[x] = flight[x]
      /\ left \in {{}, flight[k].next} /\ flight'[k].next = {}
      /\ flight'[k].id = 0 => left = {}
      /\ \A r \in Requests : answer'[r] = IF r \in flight[k].waiters THEN o
                                         ELSE IF r \in flight[k].next \ left THEN Failed
                                         ELSE answer[r]
  <2>1. CASE flight' = [flight EXCEPT ![k] = NoFlight]
    <3>1. flight'[k] = NoFlight /\ \A x \in Keys : x # k => flight'[x] = flight[x]
      BY <2>1 DEF TypeOK
    <3>2. left = {} /\ flight'[k].next = {} /\ flight'[k].id = 0
      BY <3>1 DEF NoFlight, Out
    <3>3. \A r \in Requests : answer'[r] = IF r \in flight[k].waiters THEN o
                                          ELSE IF r \in flight[k].next THEN Failed
                                          ELSE answer[r]
      <4>1. seq + 1 # 0
        BY <1>2
      <4>2. ~(flight' = [flight EXCEPT ![k] = Out(seq + 1, flight[k].next)])
        <5>1. Out(seq + 1, flight[k].next).id = seq + 1
          BY DEF Out
        <5>2. QED
          BY <3>2, <4>1, <5>1 DEF TypeOK
      <4>3. QED
        BY <4>2, EndsIs
    <3>4. QED
      BY <3>1, <3>2, <3>3
  <2>2. CASE /\ flight' = [flight EXCEPT ![k] = Out(seq + 1, flight[k].next)]
             /\ answer' = [r \in Requests |-> IF r \in flight[k].waiters THEN o ELSE answer[r]]
    <3>1. flight'[k] = Out(seq + 1, flight[k].next) /\ \A x \in Keys : x # k => flight'[x] = flight[x]
      BY <2>2 DEF TypeOK
    <3>2. left = flight[k].next /\ flight'[k].next = {} /\ flight'[k].id = seq + 1
      BY <3>1 DEF Out
    <3>3. QED
      BY <1>2, <2>2, <3>1, <3>2
  <2>3. QED
    BY <2>1, <2>2, EndsIs
<1> HIDE DEF left
<1>4. WaitersOf(k)' = left /\ \A x \in Keys : x # k => WaitersOf(x)' = WaitersOf(x)
  BY <1>3 DEF WaitersOf, left
<1>5. \A r \in WaitersOf(k) : Waiting(r) /\ asked[r].key = k
  BY <1>2 DEF WaitersInv, NoLostWaiter, WaitersOf
<1>6. \A r \in Requests : r \notin WaitersOf(k) => answer'[r] = answer[r]
  BY <1>3 DEF WaitersOf
<1>7. \A r \in left : answer'[r] = answer[r] /\ r \in WaitersOf(k)
  BY <1>2, <1>3 DEF WaitersOf
<1>8. \A r \in WaitersOf(k) \ left : answer'[r] # None
  BY <1>1, <1>2, <1>3 DEF WaitersOf
<1>9. NoLostWaiter'
  <2>1. SUFFICES ASSUME NEW r \in Requests, NEW x \in Keys
                 PROVE  r \in WaitersOf(x)' <=> Waiting(r)' /\ asked'[r].key = x
    BY DEF NoLostWaiter, WaitersOf, Waiting
  <2>2. CASE r \notin WaitersOf(k)
    <3>1. Waiting(r)' <=> Waiting(r)
      BY <1>2, <1>6, <2>2 DEF Waiting
    <3>2. r \notin left
      BY <1>7, <2>2
    <3>3. QED
      BY <1>2, <1>4, <2>2, <3>1, <3>2 DEF WaitersInv, NoLostWaiter
  <2>3. CASE r \in left
    <3>1. Waiting(r)' /\ asked'[r].key = k
      BY <1>2, <1>5, <1>7, <2>3 DEF Waiting
    <3>2. x # k => r \notin WaitersOf(x)
      BY <1>5, <1>7, <2>3 DEF WaitersInv, NoLostWaiter
    <3>3. QED
      BY <1>4, <2>3, <3>1, <3>2
  <2>4. CASE r \in WaitersOf(k) \ left
    <3>1. ~Waiting(r)'
      BY <1>8, <2>4 DEF Waiting
    <3>2. x # k => r \notin WaitersOf(x)
      BY <1>5, <2>4 DEF WaitersInv, NoLostWaiter
    <3>3. QED
      BY <1>4, <2>4, <3>1, <3>2
  <2>5. QED
    BY <2>2, <2>3, <2>4
<1>10. \A r \in Requests : asked'[r] = NotAsked => answer'[r] = None
  BY <1>2, <1>5, <1>6 DEF WaitersInv, Waiting
<1>11. \A x \in Keys : /\ flight'[x].waiters \cap flight'[x].next = {}
                       /\ flight'[x].id = 0 => WaitersOf(x)' = {}
  BY <1>3, <1>4 DEF WaitersInv, InFlight, left
<1>12. QED
  BY <1>9, <1>10, <1>11 DEF WaitersInv, InFlight

LEMMA LinkHasNoClients ==
  ASSUME TypeOK, OfTheLink
  PROVE  NoClients /\ seq' = seq /\ tracked' = tracked /\ cache' = cache /\ flight' = flight
<1>1. UNCHANGED <<hubVars, clientVars>>
  BY DEF OfTheLink, SessionStarts, SessionEnds, ExecuteRead, ExecuteWrite, PedalSwitches,
         SavesDraft, EditedElsewhere
<1>2. QED
  BY <1>1 DEF NoClients, SameFlights, hubVars

LEMMA QuietSteps ==
  ASSUME TypeOK,
         \/ \E S \in SUBSET Locations, K \in SUBSET Keys : Write(S, K)
         \/ \E S \in SUBSET Locations : Sealing(S)
         \/ DropReply \/ OfTheLink
  PROVE  NoClients
<1>1. ASSUME NEW S, NEW K, Write(S, K) PROVE NoClients
  BY <1>1, SealingKeeps DEF Write, Forget, NoClients
<1>2. ASSUME NEW S, Sealing(S) PROVE NoClients
  BY <1>2, SealingKeeps DEF Sealing, NoClients
<1>3. CASE DropReply
  BY <1>3 DEF DropReply, NoClients, SameFlights
<1>4. QED
  BY <1>1, <1>2, <1>3, LinkHasNoClients

LEMMA WaitersStep == TypeOK /\ TypeOK' /\ IdsGiven /\ WaitersInv /\ [Next]_vars => WaitersInv'
<1> SUFFICES ASSUME TypeOK, TypeOK', IdsGiven, WaitersInv, [Next]_vars PROVE WaitersInv'
  OBVIOUS
<1>1. CASE UNCHANGED vars
  BY <1>1, KeptWaiters DEF vars, hubVars, NoClients, SameFlights
<1>2. CASE Next
  <2>1. ASSUME NEW r \in Requests, NEW k \in Keys, JoinFlight(r, k) \/ StartFlight(r, k)
        PROVE  WaitersInv'
    BY <2>1, JoinWaits, StartWaits
  <2>2. ASSUME NEW r \in Requests, NEW k \in Keys, NEW o \in Outcomes, Answered(r, k, o)
        PROVE  WaitersInv'
    BY <2>2, AnsweredWaits
  <2>3. ASSUME NEW k \in Keys, NEW o \in Outcomes, NEW F, Ends(k, o, F)
        PROVE  WaitersInv'
    BY <2>3, EndsWaits
  <2>4. ASSUME NoClients PROVE WaitersInv'
    BY <2>4, KeptWaiters
  <2>5. QED
    BY <1>2, <2>1, <2>2, <2>3, <2>4, StepKinds, QuietSteps, CloseWaits, DownWaits
<1>3. QED
  BY <1>1, <1>2

LEMMA InitWaits == Init => WaitersInv
BY DEF Init, WaitersInv, NoLostWaiter, WaitersOf, Waiting, NoFlight, Out, InFlight

-----------------------------------------------------------------------------
(* The limits on those who wait.                                           *)

LEMMA FewerWait ==
  ASSUME LimitsInv, AllWaiters' \subseteq AllWaiters
  PROVE  LimitsInv'
<1>1. IsFiniteSet(AllWaiters) /\ IsFiniteSet(AllWaiters')
  BY FS_Subset DEF LimitsInv
<1>2. Cardinality(AllWaiters') <= Cardinality(AllWaiters)
  BY <1>1, FS_Subset DEF LimitsInv
<1>3. Cardinality(AllWaiters') \in Nat /\ Cardinality(AllWaiters) \in Nat
  BY <1>1, FS_CardinalityType
<1>4. ASSUME NEW s \in Subs
      PROVE  Cardinality(WaitersOfSub(s)') <= WaitersPerSubMax
  <2>1. WaitersOfSub(s)' \subseteq WaitersOfSub(s) /\ WaitersOfSub(s) \subseteq AllWaiters
    BY DEF WaitersOfSub
  <2>2. IsFiniteSet(WaitersOfSub(s))
    BY <1>1, <2>1, FS_Subset
  <2>3. Cardinality(WaitersOfSub(s)') <= Cardinality(WaitersOfSub(s)) /\ IsFiniteSet(WaitersOfSub(s)')
    BY <2>1, <2>2, FS_Subset
  <2>4. Cardinality(WaitersOfSub(s)') \in Nat /\ Cardinality(WaitersOfSub(s)) \in Nat
    BY <2>2, <2>3, FS_CardinalityType
  <2>5. Cardinality(WaitersOfSub(s)) <= WaitersPerSubMax
    BY DEF LimitsInv, WaiterLimits
  <2>6. QED
    BY <2>3, <2>4, <2>5, LimitsAssumption
<1>5. Cardinality(AllWaiters') <= WaitersMax
  BY <1>2, <1>3, LimitsAssumption DEF LimitsInv, WaiterLimits
<1>6. QED
  BY <1>1, <1>4, <1>5 DEF LimitsInv, WaiterLimits

LEMMA OneMoreWaits ==
  ASSUME LimitsInv, NEW r \in Requests, ~TooManyWaiters(Owner[r]),
         AllWaiters' = AllWaiters \cup {r}
  PROVE  LimitsInv'
<1>1. IsFiniteSet(AllWaiters) /\ Cardinality(AllWaiters) < WaitersMax
      /\ Cardinality(AllWaiters) \in Nat
  <2>1. IsFiniteSet(AllWaiters)
    BY DEF LimitsInv
  <2>2. Cardinality(AllWaiters) \in Nat
    BY <2>1, FS_CardinalityType
  <2>3. QED
    BY <2>1, <2>2, LimitsAssumption DEF TooManyWaiters
<1>2. /\ IsFiniteSet(AllWaiters')
      /\ Cardinality(AllWaiters') \in {Cardinality(AllWaiters), Cardinality(AllWaiters) + 1}
  BY <1>1, FS_AddElement
<1>3. Cardinality(AllWaiters') <= WaitersMax
  BY <1>1, <1>2, LimitsAssumption
<1>4. ASSUME NEW s \in Subs
      PROVE  Cardinality(WaitersOfSub(s)') <= WaitersPerSubMax
  <2>1. IsFiniteSet(WaitersOfSub(s))
    BY <1>1, FS_Subset DEF WaitersOfSub
  <2>2. Cardinality(WaitersOfSub(s)) \in Nat
    BY <2>1, FS_CardinalityType
  <2>3. Cardinality(WaitersOfSub(s)) <= WaitersPerSubMax
    BY DEF LimitsInv, WaiterLimits
  <2>4. CASE Owner[r] = s
    <3>1. WaitersOfSub(s)' = WaitersOfSub(s) \cup {r}
      BY <2>4 DEF WaitersOfSub
    <3>2. Cardinality(WaitersOfSub(s)') \in {Cardinality(WaitersOfSub(s)),
                                             Cardinality(WaitersOfSub(s)) + 1}
      BY <2>1, <3>1, FS_AddElement
    <3>3. ~(Cardinality(WaitersOfSub(s)) >= WaitersPerSubMax)
      BY <2>4 DEF TooManyWaiters
    <3>4. QED
      BY <2>2, <3>2, <3>3, LimitsAssumption
  <2>5. CASE Owner[r] # s
    <3>1. WaitersOfSub(s)' = WaitersOfSub(s)
      BY <2>5 DEF WaitersOfSub
    <3>2. QED
      BY <2>3, <3>1
  <2>6. QED
    BY <2>4, <2>5
<1>5. QED
  BY <1>2, <1>3, <1>4 DEF LimitsInv, WaiterLimits

LEMMA LimitsStep == TypeOK /\ IdsGiven /\ WaitersInv /\ LimitsInv /\ [Next]_vars => LimitsInv'
<1> SUFFICES ASSUME TypeOK, IdsGiven, WaitersInv, LimitsInv, [Next]_vars PROVE LimitsInv'
  OBVIOUS
<1>1. ASSUME \A k \in Keys : WaitersOf(k)' \subseteq WaitersOf(k)
      PROVE  LimitsInv'
  <2>1. AllWaiters' \subseteq AllWaiters
    BY <1>1 DEF AllWaiters
  <2>2. QED
    BY <2>1, FewerWait
<1>2. ASSUME NoClients PROVE LimitsInv'
  <2>1. \A k \in Keys : WaitersOf(k)' \subseteq WaitersOf(k)
    BY <1>2 DEF NoClients, SameFlights, WaitersOf
  <2>2. QED
    BY <1>1, <2>1
<1>3. CASE UNCHANGED vars
  BY <1>2, <1>3 DEF vars, hubVars, NoClients, SameFlights
<1>4. ASSUME NEW r \in Requests, NEW k \in Keys, NEW o \in Outcomes, Answered(r, k, o)
      PROVE  LimitsInv'
  <2>1. \A x \in Keys : WaitersOf(x)' \subseteq WaitersOf(x)
    BY <1>4 DEF Answered, WaitersOf
  <2>2. QED
    BY <1>1, <2>1
<1>5. ASSUME NEW r \in Requests, NEW k \in Keys, JoinFlight(r, k) \/ StartFlight(r, k)
      PROVE  LimitsInv'
  <2>1. ~TooManyWaiters(Owner[r])
    BY <1>5 DEF JoinFlight, StartFlight, MustRead
  <2>2. \A x \in Keys : x # k => WaitersOf(x)' = WaitersOf(x)
    BY <1>5 DEF JoinFlight, StartFlight, WaitersOf, TypeOK
  <2>3. WaitersOf(k)' = WaitersOf(k) \cup {r}
    <3>1. CASE JoinFlight(r, k)
      BY <3>1, JoinIs DEF WaitersOf
    <3>2. CASE StartFlight(r, k)
      <4>1. WaitersOf(k) = {}
        BY <3>2 DEF StartFlight, WaitersInv
      <4>2. flight'[k] = Out(seq + 1, {r})
        BY <3>2 DEF StartFlight, TypeOK
      <4>3. QED
        BY <4>1, <4>2 DEF Out, WaitersOf
    <3>3. QED
      BY <1>5, <3>1, <3>2
  <2>4. AllWaiters' = AllWaiters \cup {r}
    BY <2>2, <2>3 DEF AllWaiters
  <2>5. QED
    BY <2>1, <2>4, OneMoreWaits
<1>6. ASSUME NEW s \in Subs, CloseSub(s) PROVE LimitsInv'
  <2>1. \A k \in Keys : /\ flight'[k].waiters \subseteq flight[k].waiters
                        /\ flight'[k].next \subseteq flight[k].next
    BY <1>6, CloseIs
  <2>2. QED
    BY <1>1, <2>1 DEF WaitersOf
<1>7. ASSUME NEW k \in Keys, NEW o \in Outcomes, NEW F, Ends(k, o, F)
      PROVE  LimitsInv'
  <2>1. \A x \in Keys : x # k => flight'[x] = flight[x]
    BY <1>7, EndsIs DEF TypeOK
  <2>2. flight'[k].waiters \subseteq flight[k].next /\ flight'[k].next = {}
    <3>1. flight'[k] = NoFlight \/ flight'[k] = Out(seq + 1, flight[k].next)
      BY <1>7, EndsIs DEF TypeOK
    <3>2. QED
      BY <3>1 DEF NoFlight, Out
  <2>3. QED
    BY <1>1, <2>1, <2>2 DEF WaitersOf
<1>8. CASE SeeDown
  <2>1. \A k \in Keys : flight'[k].waiters = {} /\ flight'[k].next = {}
    BY <1>8 DEF SeeDown, NoFlight, Out
  <2>2. QED
    BY <1>1, <2>1 DEF WaitersOf
<1>9. CASE Next
  BY <1>2, <1>4, <1>5, <1>6, <1>7, <1>8, <1>9, StepKinds, QuietSteps
<1>10. QED
  BY <1>3, <1>9

LEMMA InitLimits == Init => LimitsInv
<1> SUFFICES ASSUME Init PROVE LimitsInv
  OBVIOUS
<1>1. AllWaiters = {}
  BY DEF Init, AllWaiters, WaitersOf, NoFlight, Out
<1>2. \A s \in Subs : WaitersOfSub(s) = {}
  BY <1>1 DEF WaitersOfSub
<1>3. IsFiniteSet({}) /\ Cardinality({}) = 0
  BY FS_EmptySet
<1>4. QED
  BY <1>1, <1>2, <1>3, LimitsAssumption DEF LimitsInv, WaiterLimits

-----------------------------------------------------------------------------
(* The ids under way, and those that are followed.                         *)

LEMMA IdsMember ==
  ASSUME NEW q
  PROVE  \A x : x \in IdsOf(q) <=> \E i \in DOMAIN q : HasId(q[i]) /\ x = q[i].id
BY DEF IdsOf, HasId

LEMMA IdsAppend ==
  ASSUME NEW S, NEW q \in Seq(S), NEW e \in S
  PROVE  /\ IdsOf(Append(q, e)) = IdsOf(q) \cup (IF HasId(e) THEN {e.id} ELSE {})
         /\ Once(q) /\ (HasId(e) => e.id \notin IdsOf(q)) => Once(Append(q, e))
<1> DEFINE a == Append(q, e)
           n == Len(q) + 1
<1>1. /\ Len(q) \in Nat /\ DOMAIN q = 1 .. Len(q) /\ DOMAIN a = 1 .. Len(q) \cup {n}
      /\ \A i \in 1 .. Len(q) : a[i] = q[i]
      /\ a[n] = e /\ n \notin 1 .. Len(q)
  OBVIOUS
<1> HIDE DEF a, n
<1>2. IdsOf(a) = IdsOf(q) \cup (IF HasId(e) THEN {e.id} ELSE {})
  <2>1. \A x : x \in IdsOf(a) <=> x \in IdsOf(q) \/ (HasId(e) /\ x = e.id)
    BY <1>1, IdsMember
  <2>2. QED
    BY <2>1
<1>3. ASSUME Once(q), HasId(e) => e.id \notin IdsOf(q)
      PROVE  Once(a)
  <2>1. SUFFICES ASSUME NEW i \in DOMAIN a, NEW j \in DOMAIN a, HasId(a[i]), HasId(a[j]),
                        a[i].id = a[j].id
                 PROVE  i = j
    BY DEF Once
  <2>2. \A k \in 1 .. Len(q) : HasId(q[k]) => q[k].id \in IdsOf(q)
    BY <1>1, IdsMember
  <2>3. CASE i = n /\ j = n
    BY <2>3
  <2>4. CASE i = n /\ j # n
    BY <1>1, <1>3, <2>1, <2>2, <2>4
  <2>5. CASE i # n /\ j = n
    BY <1>1, <1>3, <2>1, <2>2, <2>5
  <2>6. CASE i # n /\ j # n
    BY <1>1, <1>3, <2>1, <2>6 DEF Once
  <2>7. QED
    BY <2>3, <2>4, <2>5, <2>6
<1>4. QED
  BY <1>2, <1>3 DEF a

LEMMA IdsTail ==
  ASSUME NEW S, NEW q \in Seq(S), q # <<>>
  PROVE  /\ IdsOf(q) = IdsOf(Tail(q)) \cup (IF HasId(Head(q)) THEN {Head(q).id} ELSE {})
         /\ Once(q) => Once(Tail(q))
         /\ Once(q) /\ HasId(Head(q)) => Head(q).id \notin IdsOf(Tail(q))
<1> DEFINE t == Tail(q)
           h == Head(q)
<1>1. /\ Len(q) \in Nat /\ DOMAIN q = 1 .. Len(q) /\ DOMAIN t = 1 .. Len(q) - 1
      /\ \A i \in 1 .. Len(q) - 1 : t[i] = q[i + 1] /\ i + 1 \in 1 .. Len(q) /\ i + 1 # 1
      /\ h = q[1] /\ 1 \in 1 .. Len(q)
  OBVIOUS
<1>2. \A i \in 1 .. Len(q) : i = 1 \/ (i - 1 \in 1 .. Len(q) - 1 /\ t[i - 1] = q[i])
  <2>1. SUFFICES ASSUME NEW i \in 1 .. Len(q), i # 1
                 PROVE  i - 1 \in 1 .. Len(q) - 1 /\ t[i - 1] = q[i]
    OBVIOUS
  <2>2. i - 1 \in 1 .. Len(q) - 1 /\ (i - 1) + 1 = i
    BY <1>1, <2>1
  <2>3. QED
    BY <1>1, <2>2
<1> HIDE DEF t, h
<1>3. IdsOf(q) = IdsOf(t) \cup (IF HasId(h) THEN {h.id} ELSE {})
  <2>1. \A x : x \in IdsOf(q) => x \in IdsOf(t) \/ (HasId(h) /\ x = h.id)
    BY <1>1, <1>2, IdsMember
  <2>2. \A x : x \in IdsOf(t) => x \in IdsOf(q)
    BY <1>1, IdsMember
  <2>3. HasId(h) => h.id \in IdsOf(q)
    BY <1>1, IdsMember
  <2>4. QED
    BY <2>1, <2>2, <2>3
<1>4. ASSUME Once(q) PROVE Once(t)
  <2>1. \A i, j \in DOMAIN t : HasId(t[i]) /\ HasId(t[j]) /\ t[i].id = t[j].id => i + 1 = j + 1
    BY <1>1, <1>4 DEF Once
  <2>2. \A i, j \in DOMAIN t : i + 1 = j + 1 => i = j
    BY <1>1
  <2>3. QED
    BY <2>1, <2>2 DEF Once
<1>5. ASSUME Once(q), HasId(h), h.id \in IdsOf(t) PROVE FALSE
  <2>1. PICK i \in DOMAIN t : HasId(t[i]) /\ h.id = t[i].id
    BY <1>5, IdsMember
  <2>2. i + 1 \in DOMAIN q /\ HasId(q[i + 1]) /\ q[i + 1].id = q[1].id /\ HasId(q[1])
        /\ 1 \in DOMAIN q /\ i + 1 # 1
    BY <1>1, <1>5, <2>1
  <2>3. QED
    BY <1>5, <2>2 DEF Once
<1>6. QED
  BY <1>3, <1>4, <1>5 DEF t, h

LEMMA PlainAppend ==
  ASSUME NEW S, NEW q \in Seq(S), NEW e \in S, ~HasId(e)
  PROVE  IdsOf(Append(q, e)) = IdsOf(q) /\ (Once(q) => Once(Append(q, e)))
<1>1. IdsOf(Append(q, e)) = IdsOf(q) \cup (IF HasId(e) THEN {e.id} ELSE {})
  BY IdsAppend
<1>2. Once(q) => Once(Append(q, e))
  BY IdsAppend
<1>3. QED
  BY <1>1, <1>2

LEMMA PlainTail ==
  ASSUME NEW S, NEW q \in Seq(S), q # <<>>, ~HasId(Head(q))
  PROVE  IdsOf(q) = IdsOf(Tail(q)) /\ (Once(q) => Once(Tail(q)))
<1>1. IdsOf(q) = IdsOf(Tail(q)) \cup (IF HasId(Head(q)) THEN {Head(q).id} ELSE {})
  BY IdsTail
<1>2. Once(q) => Once(Tail(q))
  BY IdsTail
<1>3. QED
  BY <1>1, <1>2

\* What carries an id, and whose ids have been given.
LEMMA WithIds ==
  ASSUME TypeOK, IdsGiven
  PROVE  /\ \A i \in Nat, k \in Keys : HasId(ReadLine(i, k)) /\ ReadLine(i, k).id = i
         /\ \A K, n : ~HasId(WriteLine(K, n))
         /\ \A e \in Replies \cup Notices : HasId(e) <=> e.type \in {"patch", "error"}
         /\ \A e \in Reads \cup Changes : HasId(e) <=> e.type = "read"
         /\ IdsOf(wire) \cup IdsOf(posted) \subseteq 1 .. seq
         /\ seq \in Nat /\ seq + 1 \notin IdsOf(wire) \cup IdsOf(posted)
<1>1. \A e \in Replies \cup Notices : HasId(e) <=> e.type \in {"patch", "error"}
  BY DEF HasId, Replies, Notices
<1>2. \A e \in Reads \cup Changes : HasId(e) <=> e.type = "read"
  BY DEF HasId, Reads, Changes
<1>3. /\ DOMAIN wire = 1 .. Len(wire) /\ DOMAIN posted = 1 .. Len(posted)
      /\ \A i \in 1 .. Len(wire) : wire[i] \in Reads \cup Changes
      /\ \A i \in 1 .. Len(posted) : posted[i] \in Replies \cup Notices
      /\ seq \in Nat
  BY DEF TypeOK
<1>4. IdsOf(wire) \subseteq 1 .. seq
  BY <1>2, <1>3, IdsMember DEF IdsGiven
<1>5. IdsOf(posted) \subseteq 1 .. seq
  BY <1>1, <1>3, IdsMember DEF IdsGiven
<1>6. seq + 1 \notin 1 .. seq
  BY <1>3
<1>7. QED
  BY <1>1, <1>2, <1>3, <1>4, <1>5, <1>6 DEF ReadLine, WriteLine, HasId

\* Taking a reply from what was posted, or nothing.
LEMMA TookIds ==
  ASSUME TypeOK, IdsGiven, IdsOnce, NEW F,
         (posted' = posted /\ F = {}) \/ Took(F)
  PROVE  /\ IdsOf(posted') = IdsOf(posted) \ F /\ F \subseteq IdsOf(posted)
         /\ Once(posted') /\ (DownPending' <=> DownPending)
         /\ LastDown /\ link' = link => LastDown'
<1>1. CASE posted' = posted /\ F = {}
  BY <1>1 DEF IdsOnce, DownPending, LastDown, connected
<1>2. CASE Took(F)
  <2>1. /\ posted # <<>> /\ posted' = Tail(posted) /\ F = {Head(posted).id}
        /\ Head(posted).type \in {"patch", "error"} /\ posted \in Seq(Replies \cup Notices)
    BY <1>2 DEF Took, TypeOK
  <2>2. /\ Head(posted) \in Replies \cup Notices
        /\ Len(posted) \in Nat /\ Len(posted') = Len(posted) - 1
        /\ \A i \in 1 .. Len(posted') : i + 1 \in 1 .. Len(posted) /\ posted'[i] = posted[i + 1]
        /\ Head(posted) = posted[1]
        /\ DOMAIN posted = 1 .. Len(posted) /\ DOMAIN posted' = 1 .. Len(posted')
    BY <2>1, TailFacts
  <2>3. HasId(Head(posted))
    BY <2>1 DEF HasId
  <2>4. /\ IdsOf(posted) = IdsOf(posted') \cup {Head(posted).id} /\ Once(posted')
        /\ Head(posted).id \notin IdsOf(posted')
    BY <2>1, <2>3, IdsTail DEF IdsOnce
  <2>5. DownPending' <=> DownPending
    <3>1. DownPending' => DownPending
      BY <2>2 DEF DownPending
    <3>2. ASSUME NEW i \in DOMAIN posted, posted[i].type = "down"
          PROVE  DownPending'
      <4>1. i # 1
        <5>1. posted[1].type \in {"patch", "error"}
          BY <2>1, <2>2
        <5>2. QED
          BY <3>2, <5>1
      <4>2. i - 1 \in DOMAIN posted' /\ (i - 1) + 1 = i
        BY <2>2, <4>1
      <4>3. posted'[i - 1].type = "down"
        BY <2>2, <3>2, <4>2
      <4>4. QED
        BY <4>2, <4>3 DEF DownPending
    <3>3. QED
      BY <3>1, <3>2 DEF DownPending
  <2>6. ASSUME LastDown, link' = link
        PROVE  LastDown'
    BY <2>2, <2>6 DEF LastDown, connected
  <2>7. QED
    BY <2>1, <2>4, <2>5, <2>6
<1>3. QED
  BY <1>1, <1>2

FollowAll == IdsOnce /\ FollowInv

LEMMA SameFollow ==
  ASSUME FollowAll, UNCHANGED <<wire, posted, tracked, link>>
  PROVE  FollowAll'
BY DEF FollowAll, IdsOnce, FollowInv, TrackedUntilAnswered, DownPending, LastDown, connected

\* Replies taken, and no longer followed.
LEMMA TookFollow ==
  ASSUME TypeOK, IdsGiven, FollowAll, NEW F,
         (posted' = posted /\ F = {}) \/ Took(F),
         tracked' = tracked \ F, UNCHANGED <<wire, link>>
  PROVE  FollowAll'
<1>1. /\ IdsOf(posted') = IdsOf(posted) \ F /\ F \subseteq IdsOf(posted)
      /\ Once(posted') /\ (DownPending' <=> DownPending)
      /\ LastDown => LastDown'
  BY TookIds DEF FollowAll
<1>2. IdsOnce'
  BY <1>1 DEF FollowAll, IdsOnce
<1>3. tracked' \subseteq IdsOf(wire') \cup IdsOf(posted') \/ DownPending'
  BY <1>1 DEF FollowAll, FollowInv
<1>4. LoopKeepsUp => TrackedUntilAnswered' /\ LastDown'
  BY <1>1 DEF FollowAll, FollowInv, IdsOnce, TrackedUntilAnswered
<1>5. QED
  BY <1>2, <1>3, <1>4 DEF FollowAll, FollowInv

\* A new read is sent, and followed from then on.
LEMMA SentFollow ==
  ASSUME TypeOK, IdsGiven, FollowAll, NEW F, NEW k \in Keys,
         (posted' = posted /\ F = {}) \/ Took(F),
         tracked' = (tracked \ F) \cup {seq + 1},
         wire' = Append(wire, ReadLine(seq + 1, k)), link' = link
  PROVE  FollowAll'
<1>1. /\ IdsOf(posted') = IdsOf(posted) \ F /\ F \subseteq IdsOf(posted)
      /\ Once(posted') /\ (DownPending' <=> DownPending)
      /\ LastDown => LastDown'
  BY TookIds DEF FollowAll
<1>2. /\ HasId(ReadLine(seq + 1, k)) /\ ReadLine(seq + 1, k).id = seq + 1
      /\ seq + 1 \notin IdsOf(wire) \cup IdsOf(posted)
      /\ ReadLine(seq + 1, k) \in Reads \cup Changes /\ wire \in Seq(Reads \cup Changes)
  BY WithIds, LineTypes DEF TypeOK
<1>3. IdsOf(wire') = IdsOf(wire) \cup {seq + 1} /\ Once(wire')
  BY <1>2, IdsAppend DEF FollowAll, IdsOnce
<1>4. IdsOnce'
  BY <1>1, <1>2, <1>3 DEF FollowAll, IdsOnce
<1>5. tracked' \subseteq IdsOf(wire') \cup IdsOf(posted') \/ DownPending'
  BY <1>1, <1>3 DEF FollowAll, FollowInv, IdsOnce
<1>6. LoopKeepsUp => TrackedUntilAnswered' /\ LastDown'
  BY <1>1, <1>3 DEF FollowAll, FollowInv, IdsOnce, TrackedUntilAnswered
<1>7. QED
  BY <1>4, <1>5, <1>6 DEF FollowAll, FollowInv

LEMMA WriteFollow ==
  ASSUME TypeOK, IdsGiven, FollowAll, NEW S, NEW K \in SUBSET Keys, Write(S, K)
  PROVE  FollowAll'
<1>1. /\ wire' = Append(wire, WriteLine(K, writes + 1))
      /\ UNCHANGED <<posted, tracked, link>>
      /\ WriteLine(K, writes + 1) \in Reads \cup Changes /\ wire \in Seq(Reads \cup Changes)
      /\ ~HasId(WriteLine(K, writes + 1))
  BY LineTypes, WithIds DEF Write, Forget, TypeOK
<1>2. IdsOf(wire') = IdsOf(wire) /\ Once(wire')
  BY <1>1, PlainAppend DEF FollowAll, IdsOnce
<1>3. QED
  BY <1>1, <1>2
  DEF FollowAll, IdsOnce, FollowInv, TrackedUntilAnswered, DownPending, LastDown, connected

LEMMA SealFollow ==
  ASSUME TypeOK, IdsGiven, FollowAll, NEW S, Sealing(S)
  PROVE  FollowAll'
<1>1. CASE posted' = posted
  BY <1>1, SameFollow DEF Sealing
<1>2. CASE posted # <<>> /\ Head(posted).type = "switched" /\ posted' = Tail(posted)
  <2>1. /\ Head(posted) \in Replies \cup Notices /\ posted \in Seq(Replies \cup Notices)
        /\ Len(posted) \in Nat /\ Len(posted') = Len(posted) - 1
        /\ \A i \in 1 .. Len(posted') : i + 1 \in 1 .. Len(posted) /\ posted'[i] = posted[i + 1]
        /\ Head(posted) = posted[1]
        /\ DOMAIN posted = 1 .. Len(posted) /\ DOMAIN posted' = 1 .. Len(posted')
    BY <1>2, TailFacts DEF TypeOK
  <2>2. ~HasId(Head(posted))
    BY <1>2 DEF HasId
  <2>3. IdsOf(posted) = IdsOf(posted') /\ Once(posted')
    BY <1>2, <2>1, <2>2, PlainTail DEF FollowAll, IdsOnce
  <2>4. DownPending => DownPending'
    <3>1. SUFFICES ASSUME NEW i \in DOMAIN posted, posted[i].type = "down"
                   PROVE  DownPending'
      BY DEF DownPending
    <3>2. i # 1
      BY <1>2, <2>1, <3>1
    <3>3. i - 1 \in DOMAIN posted' /\ (i - 1) + 1 = i
      BY <2>1, <3>2
    <3>4. posted'[i - 1].type = "down"
      BY <2>1, <3>1, <3>3
    <3>5. QED
      BY <3>3, <3>4 DEF DownPending
  <2>5. LastDown => LastDown'
    BY <2>1 DEF LastDown, connected, Sealing
  <2>6. UNCHANGED <<wire, tracked>>
    BY DEF Sealing
  <2>7. QED
    BY <2>3, <2>4, <2>5, <2>6 DEF FollowAll, IdsOnce, FollowInv, TrackedUntilAnswered
<1>3. QED
  BY <1>1, <1>2 DEF Sealing

\* When the loop keeps up, the end of a session is the last callback posted and no
\* line is under way, so that nothing is left when it has been run.
LEMMA DownFollow ==
  ASSUME TypeOK, IdsGiven, DownIsEmpty, FollowAll, SeeDown
  PROVE  FollowAll'
<1>1. /\ posted # <<>> /\ Head(posted).type = "down" /\ posted' = Tail(posted)
      /\ tracked' = {} /\ UNCHANGED <<wire, link>>
      /\ posted \in Seq(Replies \cup Notices)
  BY DEF SeeDown, NextIs, captainVars, TypeOK
<1>2. /\ Len(posted) \in Nat /\ Len(posted') = Len(posted) - 1 /\ Head(posted) = posted[1]
      /\ 1 \in 1 .. Len(posted) /\ posted' \in Seq(Replies \cup Notices)
      /\ DOMAIN posted' = 1 .. Len(posted')
  BY <1>1, TailFacts
<1>3. ~HasId(Head(posted))
  BY <1>1 DEF HasId
<1>4. IdsOf(posted) = IdsOf(posted') /\ Once(posted')
  BY <1>1, <1>3, PlainTail DEF FollowAll, IdsOnce
<1>5. IdsOnce'
  BY <1>1, <1>4 DEF FollowAll, IdsOnce
<1>6. ASSUME LoopKeepsUp PROVE TrackedUntilAnswered' /\ LastDown'
  <2>1. Len(posted) = 1 /\ ~connected
    BY <1>1, <1>2, <1>6 DEF FollowAll, FollowInv, LastDown
  <2>2. wire' = <<>> /\ Len(posted') = 0
    BY <1>1, <1>2, <2>1 DEF DownIsEmpty
  <2>3. IdsOf(wire') = {} /\ IdsOf(posted') = {}
    BY <1>2, <2>2, IdsMember
  <2>4. QED
    BY <2>2, <2>3 DEF TrackedUntilAnswered, LastDown
<1>7. QED
  BY <1>1, <1>5, <1>6 DEF FollowAll, FollowInv

\* What the link thread posts comes last.
LEMMA PostFollow ==
  ASSUME TypeOK, FollowAll, NEW e \in Replies \cup Notices,
         posted' = Append(posted, e), e.type # "down", connected,
         UNCHANGED <<link, tracked>>,
         IdsOf(wire') \cup IdsOf(posted') = IdsOf(wire) \cup IdsOf(posted),
         Once(wire'), Once(posted'), IdsOf(wire') \cap IdsOf(posted') = {}
  PROVE  FollowAll'
<1>1. /\ posted \in Seq(Replies \cup Notices) /\ Len(posted) \in Nat
      /\ Len(posted') = Len(posted) + 1 /\ DOMAIN posted = 1 .. Len(posted)
      /\ DOMAIN posted' = 1 .. Len(posted')
      /\ \A i \in 1 .. Len(posted) : posted'[i] = posted[i]
      /\ posted'[Len(posted) + 1] = e
  BY AppendFacts DEF TypeOK
<1>2. DownPending => DownPending'
  <2>1. 1 .. Len(posted) \subseteq 1 .. Len(posted')
    BY <1>1
  <2>2. QED
    BY <1>1, <2>1 DEF DownPending
<1>3. LastDown => LastDown'
  <2>1. SUFFICES ASSUME LastDown, NEW i \in 1 .. Len(posted'), posted'[i].type = "down"
                 PROVE  FALSE
    BY DEF LastDown
  <2>2. i \in 1 .. Len(posted)
    BY <1>1, <2>1
  <2>3. QED
    BY <1>1, <2>1, <2>2 DEF LastDown
<1>4. QED
  BY <1>2, <1>3 DEF FollowAll, IdsOnce, FollowInv, TrackedUntilAnswered

LEMMA LinkFollow ==
  ASSUME TypeOK, IdsGiven, DownIsEmpty, FollowAll, OfTheLink
  PROVE  FollowAll'
<1>1. CASE SessionStarts
  <2>1. UNCHANGED <<wire, posted, tracked>>
    BY <1>1 DEF SessionStarts, hubVars
  <2>2. LoopKeepsUp => LastDown'
    BY <1>1, <2>1 DEF SessionStarts, LastDown, TypeOK
  <2>3. QED
    BY <2>1, <2>2 DEF FollowAll, IdsOnce, FollowInv, TrackedUntilAnswered, DownPending
<1>2. CASE SessionEnds
  <2> DEFINE e == [type |-> "down"]
  <2>1. /\ posted' = Append(posted, e) /\ wire' = <<>> /\ connected /\ ~connected'
        /\ tracked' = tracked
    BY <1>2 DEF SessionEnds, hubVars, connected
  <2>2. e \in Replies \cup Notices /\ ~HasId(e) /\ e.type = "down"
    BY PostedTypes DEF HasId
  <2> HIDE DEF e
  <2>3. /\ posted \in Seq(Replies \cup Notices) /\ Len(posted) \in Nat
        /\ Len(posted') = Len(posted) + 1
        /\ DOMAIN posted' = 1 .. Len(posted')
        /\ \A i \in 1 .. Len(posted) : posted'[i] = posted[i]
        /\ posted'[Len(posted) + 1] = e
    BY <2>1, <2>2, AppendFacts DEF TypeOK
  <2>4. IdsOf(posted') = IdsOf(posted) /\ Once(posted')
    BY <2>1, <2>2, <2>3, PlainAppend DEF FollowAll, IdsOnce
  <2>5. IdsOf(wire') = {} /\ Once(wire')
    BY <2>1, IdsMember DEF Once
  <2>6. DownPending'
    <3>1. Len(posted) + 1 \in DOMAIN posted'
      BY <2>3
    <3>2. QED
      BY <2>2, <2>3, <3>1 DEF DownPending
  <2>7. ASSUME LoopKeepsUp PROVE LastDown'
    <3>1. SUFFICES ASSUME NEW i \in 1 .. Len(posted'), posted'[i].type = "down"
                   PROVE  i = Len(posted')
      BY <2>1 DEF LastDown
    <3>2. \A j \in 1 .. Len(posted) : posted[j].type # "down"
      BY <2>1, <2>7 DEF FollowAll, FollowInv, LastDown
    <3>3. QED
      BY <2>3, <3>1, <3>2
  <2>8. QED
    BY <2>4, <2>5, <2>6, <2>7 DEF FollowAll, IdsOnce, FollowInv, TrackedUntilAnswered
<1>3. CASE ExecuteRead
  <2> DEFINE i == Head(wire).id
             v == stored[Head(wire).key]
  <2>1. /\ wire # <<>> /\ Head(wire).type = "read" /\ wire' = Tail(wire)
        /\ UNCHANGED <<tracked, link>>
        /\ i \in Nat /\ v \in Nat /\ connected
    BY <1>3, HeadFacts DEF ExecuteRead, hubVars, TypeOK, DownIsEmpty
  <2>2. PICK e \in Replies \cup Notices :
          posted' = Append(posted, e) /\ e.type \in {"patch", "error"} /\ e.id = i
    <3>1. \/ posted' = Append(posted, [type |-> "patch", id |-> i, val |-> v])
          \/ posted' = Append(posted, [type |-> "error", id |-> i])
      BY <1>3 DEF ExecuteRead
    <3>2. /\ [type |-> "patch", id |-> i, val |-> v] \in Replies \cup Notices
          /\ [type |-> "error", id |-> i] \in Replies \cup Notices
      BY <2>1, PostedTypes
    <3>3. QED
      BY <3>1, <3>2
  <2>3. HasId(e) /\ HasId(Head(wire))
    BY <2>1, <2>2 DEF HasId
  <2>4. wire \in Seq(Reads \cup Changes) /\ posted \in Seq(Replies \cup Notices)
    BY DEF TypeOK
  <2> HIDE DEF v
  <2>5. IdsOf(wire) = IdsOf(wire') \cup {i} /\ Once(wire') /\ i \notin IdsOf(wire')
    BY <2>1, <2>3, <2>4, IdsTail DEF FollowAll, IdsOnce
  <2>6. IdsOf(posted') = IdsOf(posted) \cup {i} /\ Once(posted')
    BY <2>2, <2>3, <2>4, <2>5, IdsAppend DEF FollowAll, IdsOnce
  <2> HIDE DEF i
  <2>7. IdsOf(wire') \cap IdsOf(posted') = {}
    BY <2>5, <2>6 DEF FollowAll, IdsOnce
  <2>8. IdsOf(wire') \cup IdsOf(posted') = IdsOf(wire) \cup IdsOf(posted)
    BY <2>5, <2>6
  <2>9. QED
    BY <2>1, <2>2, <2>5, <2>6, <2>7, <2>8, PostFollow
<1>4. CASE ExecuteWrite
  <2>1. /\ wire # <<>> /\ Head(wire).type = "write" /\ wire' = Tail(wire)
        /\ UNCHANGED <<tracked, link, posted>> /\ wire \in Seq(Reads \cup Changes)
    BY <1>4 DEF ExecuteWrite, hubVars, TypeOK
  <2>2. ~HasId(Head(wire))
    BY <2>1 DEF HasId
  <2>3. IdsOf(wire) = IdsOf(wire') /\ Once(wire')
    BY <2>1, <2>2, PlainTail DEF FollowAll, IdsOnce
  <2>4. QED
    BY <2>1, <2>3
    DEF FollowAll, IdsOnce, FollowInv, TrackedUntilAnswered, DownPending, LastDown, connected
<1>5. ASSUME NEW l \in Locations, PedalSwitches(l)
      PROVE  FollowAll'
  <2> DEFINE e == [type |-> "switched", loc |-> l]
  <2>1. e \in Replies \cup Notices /\ ~HasId(e) /\ e.type # "down"
    BY PostedTypes DEF HasId
  <2>2. /\ posted' = Append(posted, e) /\ connected /\ UNCHANGED <<wire, link, tracked>>
        /\ posted \in Seq(Replies \cup Notices)
    BY <1>5 DEF PedalSwitches, captainVars, hubVars, TypeOK
  <2> HIDE DEF e
  <2>3. IdsOf(posted') = IdsOf(posted) /\ Once(posted')
    BY <2>1, <2>2, PlainAppend DEF FollowAll, IdsOnce
  <2>4. QED
    BY <2>1, <2>2, <2>3, PostFollow DEF FollowAll, IdsOnce
<1>6. ASSUME NEW k \in Keys, SavesDraft(k) \/ EditedElsewhere(k)
      PROVE  FollowAll'
  BY <1>6, SameFollow DEF SavesDraft, EditedElsewhere, hubVars
<1>7. QED
  BY <1>1, <1>2, <1>3, <1>4, <1>5, <1>6 DEF OfTheLink

LEMMA FollowStep == TypeOK /\ IdsGiven /\ DownIsEmpty /\ FollowAll /\ [Next]_vars => FollowAll'
<1> SUFFICES ASSUME TypeOK, IdsGiven, DownIsEmpty, FollowAll, [Next]_vars PROVE FollowAll'
  OBVIOUS
<1>1. CASE UNCHANGED vars
  BY <1>1, SameFollow DEF vars, captainVars, hubVars
<1>2. ASSUME NEW r, NEW k, NEW o, Answered(r, k, o) PROVE FollowAll'
  BY <1>2, SameFollow DEF Answered, captainVars
<1>3. ASSUME NEW r, NEW k \in Keys, JoinFlight(r, k) \/ StartFlight(r, k) PROVE FollowAll'
  <2>1. CASE JoinFlight(r, k)
    BY <2>1, SameFollow DEF JoinFlight, captainVars
  <2>2. CASE StartFlight(r, k)
    <3>1. tracked' = (tracked \ {}) \cup {seq + 1}
      BY <2>2 DEF StartFlight
    <3>2. QED
      BY <2>2, <3>1, SentFollow DEF StartFlight
  <2>3. QED
    BY <1>3, <2>1, <2>2
<1>4. ASSUME NEW k \in Keys, NEW o, NEW F, Ends(k, o, F) PROVE FollowAll'
  <2>1. ((posted' = posted /\ F = {}) \/ Took(F)) /\ link' = link
    BY <1>4 DEF Ends
  <2>2. CASE /\ tracked' = (tracked \ F) \cup {seq + 1}
             /\ wire' = Append(wire, ReadLine(seq + 1, k))
    BY <2>1, <2>2, SentFollow
  <2>3. CASE tracked' = tracked \ F /\ wire' = wire
    BY <2>1, <2>3, TookFollow
  <2>4. QED
    BY <1>4, <2>2, <2>3, EndsIs
<1>5. CASE DropReply
  <2>1. Took({Head(posted).id})
    BY <1>5 DEF DropReply, NextIs, Took
  <2>2. QED
    BY <1>5, <2>1, TookFollow DEF DropReply, captainVars
<1>6. ASSUME NEW s, CloseSub(s) PROVE FollowAll'
  BY <1>6, SameFollow DEF CloseSub, captainVars
<1>7. CASE Next
  BY <1>2, <1>3, <1>4, <1>5, <1>6, <1>7, StepKinds, WriteFollow, SealFollow, DownFollow,
     LinkFollow
<1>8. QED
  BY <1>1, <1>7

LEMMA InitFollows == Init => FollowAll
<1> SUFFICES ASSUME Init PROVE FollowAll
  OBVIOUS
<1>1. wire = <<>> /\ posted = <<>> /\ tracked = {} /\ DOMAIN wire = {} /\ DOMAIN posted = {}
  BY DEF Init
<1>2. IdsOf(wire) = {} /\ IdsOf(posted) = {}
  BY <1>1, IdsMember
<1>3. QED
  BY <1>1, <1>2 DEF FollowAll, IdsOnce, Once, FollowInv, TrackedUntilAnswered, LastDown

-----------------------------------------------------------------------------
(* Nothing shows a change that was not made.                               *)

LEMMA LineValues ==
  ASSUME TypeOK
  PROVE  /\ \A i \in 1 .. Len(posted) : posted[i].type = "patch" => posted[i].val \in Nat
         /\ \A i \in 1 .. Len(wire), k \in Keys : WritesTo(wire[i], k) => wire[i].n \in Nat
         /\ \A k \in Keys : cache[k] # None => cache[k].val \in Nat
         /\ \A k \in Keys : stored[k] \in Nat /\ promised[k] \in Nat
         /\ writes \in Nat
<1>1. \A i \in 1 .. Len(posted) : posted[i] \in Replies \cup Notices
  BY DEF TypeOK
<1>2. \A i \in 1 .. Len(wire) : wire[i] \in Reads \cup Changes
  BY DEF TypeOK
<1>3. \A i \in 1 .. Len(posted) : posted[i].type = "patch" => posted[i].val \in Nat
  BY <1>1 DEF Replies, Notices
<1>4. \A i \in 1 .. Len(wire), k \in Keys : WritesTo(wire[i], k) => wire[i].n \in Nat
  BY <1>2 DEF Reads, Changes, WritesTo
<1>5. \A k \in Keys : cache[k] # None => cache[k].val \in Nat
  BY DEF TypeOK
<1>6. (\A k \in Keys : stored[k] \in Nat /\ promised[k] \in Nat) /\ writes \in Nat
  BY DEF TypeOK
<1>7. QED
  BY <1>3, <1>4, <1>5, <1>6

\* Nothing is stored or promised, and what is under way was under way before.
LEMMA OldPossible ==
  ASSUME TypeOK, Possible, writes' \in Nat, writes' >= writes,
         \A i \in 1 .. Len(posted') : posted'[i].type = "patch" =>
            \E j \in 1 .. Len(posted) : posted'[i] = posted[j],
         \A k \in Keys : cache'[k] # None =>
            \/ cache'[k] = cache[k]
            \/ \E j \in 1 .. Len(posted) :
                 posted[j].type = "patch" /\ cache'[k].val = posted[j].val,
         \A i \in 1 .. Len(wire'), k \in Keys : WritesTo(wire'[i], k) =>
            \E j \in 1 .. Len(wire) : wire'[i] = wire[j],
         UNCHANGED <<stored, promised>>
  PROVE  Possible'
<1>1. \A i \in 1 .. Len(posted) : posted[i].type = "patch" => posted[i].val <= writes'
  BY LineValues DEF Possible
<1>2. \A k \in Keys : cache[k] # None => cache[k].val <= writes'
  BY LineValues DEF Possible
<1>3. \A i \in 1 .. Len(posted') : posted'[i].type = "patch" => posted'[i].val <= writes'
  BY <1>1
<1>4. \A k \in Keys : cache'[k] # None => cache'[k].val <= writes'
  BY <1>1, <1>2
<1>5. \A i \in 1 .. Len(wire'), k \in Keys : WritesTo(wire'[i], k) => wire'[i].n <= promised'[k]
  BY DEF Possible, WritesTo
<1>6. \A k \in Keys \ SavedKeys : stored'[k] <= promised'[k]
  BY DEF Possible
<1>7. QED
  BY <1>3, <1>4, <1>5, <1>6 DEF Possible, WritesTo

LEMMA TakenOrNot ==
  ASSUME TypeOK, posted' = posted \/ (posted # <<>> /\ posted' = Tail(posted))
  PROVE  \A i \in 1 .. Len(posted') : \E j \in 1 .. Len(posted) : posted'[i] = posted[j]
<1>1. CASE posted' = posted
  BY <1>1
<1>2. CASE posted # <<>> /\ posted' = Tail(posted)
  <2>1. /\ Len(posted') = Len(posted) - 1 /\ Len(posted) \in Nat
        /\ \A i \in 1 .. Len(posted) - 1 : posted'[i] = posted[i + 1]
    BY <1>2, TailFacts DEF TypeOK
  <2>2. \A i \in 1 .. Len(posted') : posted'[i] = posted[i + 1] /\ i + 1 \in 1 .. Len(posted)
    BY <2>1
  <2>3. QED
    BY <2>2
<1>3. QED
  BY <1>1, <1>2

LEMMA SentWire ==
  ASSUME TypeOK, NEW k \in Keys, wire' = wire \/ wire' = Append(wire, ReadLine(seq + 1, k))
  PROVE  /\ \A i \in 1 .. Len(wire'), x \in Keys : WritesTo(wire'[i], x) =>
              \E j \in 1 .. Len(wire) : wire'[i] = wire[j]
         /\ Len(wire) \in Nat
         /\ \A i \in 1 .. Len(wire) : i \in 1 .. Len(wire') /\ wire'[i] = wire[i]
<1>1. CASE wire' = wire
  BY <1>1 DEF TypeOK
<1>2. CASE wire' = Append(wire, ReadLine(seq + 1, k))
  <2>1. seq + 1 \in Nat /\ wire \in Seq(Reads \cup Changes)
    BY DEF TypeOK
  <2>2. /\ Len(wire) \in Nat /\ Len(wire') = Len(wire) + 1
        /\ \A j \in 1 .. Len(wire) : wire'[j] = wire[j]
        /\ wire'[Len(wire) + 1] = ReadLine(seq + 1, k)
    BY <1>2, <2>1, LineTypes, AppendFacts
  <2>3. \A x : ~WritesTo(wire'[Len(wire) + 1], x)
    BY <2>2 DEF ReadLine, WritesTo
  <2>4. \A i \in 1 .. Len(wire') : i \in 1 .. Len(wire) \/ i = Len(wire) + 1
    BY <2>2
  <2>5. QED
    BY <2>2, <2>3, <2>4
<1>3. QED
  BY <1>1, <1>2

LEMMA EndsPossible ==
  ASSUME TypeOK, Possible, NEW k \in Keys, NEW o, NEW F, Ends(k, o, F)
  PROVE  Possible'
<1>1. writes' = writes /\ UNCHANGED <<stored, promised>> /\ writes \in Nat
  BY DEF Ends, TypeOK
<1>2. \A i \in 1 .. Len(posted') : \E j \in 1 .. Len(posted) : posted'[i] = posted[j]
  BY TakenOrNot DEF Ends, Took
<1>3. \A x \in Keys : cache'[x] # None =>
         \/ cache'[x] = cache[x]
         \/ \E j \in 1 .. Len(posted) :
              posted[j].type = "patch" /\ cache'[x].val = posted[j].val
  <2>1. CASE cache' = cache
    BY <2>1
  <2>2. CASE /\ Head(posted).type = "patch" /\ posted # <<>>
             /\ cache' = [cache EXCEPT ![k] = Patch(Head(posted).val)]
    <3>1. Head(posted) = posted[1] /\ 1 \in 1 .. Len(posted)
      BY <2>2, TailFacts DEF TypeOK
    <3>2. Patch(Head(posted).val).val = posted[1].val
      BY <3>1 DEF Patch
    <3>3. \A x \in Keys : cache'[x] = IF x = k THEN Patch(Head(posted).val) ELSE cache[x]
      BY <2>2 DEF TypeOK
    <3>4. QED
      BY <2>2, <3>1, <3>2, <3>3
  <2>3. QED
    BY <2>1, <2>2 DEF Ends
<1>4. wire' = wire \/ wire' = Append(wire, ReadLine(seq + 1, k))
  BY EndsIs
<1>5. \A i \in 1 .. Len(wire'), x \in Keys : WritesTo(wire'[i], x) =>
         \E j \in 1 .. Len(wire) : wire'[i] = wire[j]
  BY <1>4, SentWire
<1>6. QED
  BY <1>1, <1>2, <1>3, <1>5, OldPossible

LEMMA WritePossible ==
  ASSUME TypeOK, Numbered, Possible, NEW S, NEW K \in SUBSET Keys, Write(S, K)
  PROVE  Possible'
<1>1. /\ writes \in Nat /\ writes' = writes + 1 /\ UNCHANGED <<stored, posted>>
      /\ \A k \in Keys : promised'[k] = IF k \in K THEN writes + 1 ELSE promised[k]
      /\ \A k \in Keys : cache'[k] # None => cache'[k] = cache[k]
      /\ wire' = Append(wire, WriteLine(K, writes + 1))
  BY DEF TypeOK, Write, Forget
<1>2. /\ Len(wire) \in Nat /\ Len(wire') = Len(wire) + 1
      /\ \A j \in 1 .. Len(wire) : wire'[j] = wire[j]
      /\ wire'[Len(wire) + 1] = WriteLine(K, writes + 1)
  BY <1>1, LineTypes, AppendFacts DEF TypeOK
<1>3. \A k \in Keys : promised[k] <= promised'[k] /\ promised'[k] \in Nat /\ promised[k] \in Nat
  BY <1>1, LineValues DEF Numbered
<1>4. ASSUME NEW i \in 1 .. Len(wire'), NEW k \in Keys, WritesTo(wire'[i], k)
      PROVE  wire'[i].n <= promised'[k]
  <2>1. CASE i = Len(wire) + 1
    <3>1. wire'[i].n = writes + 1 /\ k \in K
      BY <1>2, <1>4, <2>1 DEF WriteLine, WritesTo
    <3>2. QED
      BY <1>1, <3>1
  <2>2. CASE i # Len(wire) + 1
    <3>1. i \in 1 .. Len(wire) /\ wire'[i] = wire[i]
      BY <1>2, <2>2
    <3>2. wire[i].n <= promised[k] /\ wire[i].n \in Nat
      BY <1>4, <3>1, LineValues DEF Possible
    <3>3. QED
      BY <1>3, <3>1, <3>2
  <2>3. QED
    BY <2>1, <2>2
<1>5. \A k \in Keys \ SavedKeys : stored'[k] <= promised'[k]
  <2>1. \A k \in Keys \ SavedKeys : stored[k] <= promised[k] /\ stored[k] \in Nat
    BY LineValues DEF Possible
  <2>2. QED
    BY <1>1, <1>3, <2>1
<1>6. \A i \in 1 .. Len(posted') : posted'[i].type = "patch" => posted'[i].val <= writes'
  BY <1>1, LineValues DEF Possible
<1>7. \A k \in Keys : cache'[k] # None => cache'[k].val <= writes'
  BY <1>1, LineValues DEF Possible
<1>8. QED
  BY <1>4, <1>5, <1>6, <1>7 DEF Possible, WritesTo

\* A line the Captain has executed is gone, and no other.
LEMMA WireTail ==
  ASSUME TypeOK, wire # <<>>, wire' = Tail(wire)
  PROVE  /\ Len(wire) \in Nat /\ Len(wire') = Len(wire) - 1
         /\ \A i \in 1 .. Len(wire') : i + 1 \in 1 .. Len(wire) /\ wire'[i] = wire[i + 1]
         /\ Head(wire) = wire[1] /\ 1 \in 1 .. Len(wire)
<1>1. /\ Len(wire) \in Nat /\ Len(wire) >= 1 /\ Len(wire') = Len(wire) - 1
      /\ \A i \in 1 .. Len(wire) - 1 : wire'[i] = wire[i + 1]
      /\ Head(wire) = wire[1]
  BY TailFacts DEF TypeOK
<1>2. QED
  BY <1>1

LEMMA LinkPossible ==
  ASSUME IInv, Numbered, Possible, OfTheLink
  PROVE  Possible'
<1>1. TypeOK /\ cache' = cache /\ writes \in Nat
  BY LinkHasNoClients DEF IInv, TypeOK
<1>2. CASE SessionStarts
  BY <1>1, <1>2, OldPossible DEF SessionStarts
<1>3. CASE SessionEnds
  <2>1. /\ wire' = <<>> /\ UNCHANGED <<stored, writes>> /\ posted' = Append(posted, [type |-> "down"])
        /\ \A k \in Keys \ SavedKeys : promised'[k] = stored[k]
    BY <1>3 DEF SessionEnds
  <2>2. /\ Len(posted) \in Nat /\ Len(posted') = Len(posted) + 1
        /\ \A i \in 1 .. Len(posted) : posted'[i] = posted[i]
        /\ posted'[Len(posted) + 1].type = "down"
    BY <1>1, <2>1, PostedTypes, AppendFacts DEF TypeOK
  <2>3. \A i \in 1 .. Len(posted') : posted'[i].type = "patch" => i \in 1 .. Len(posted)
    BY <2>2
  <2>4. \A i \in 1 .. Len(posted') : posted'[i].type = "patch" => posted'[i].val <= writes'
    BY <2>1, <2>2, <2>3 DEF Possible
  <2>5. \A k \in Keys \ SavedKeys : stored'[k] <= promised'[k]
    BY <1>1, <2>1, LineValues
  <2>6. 1 .. Len(wire') = {}
    BY <2>1
  <2>7. \A k \in Keys : cache'[k] # None => cache'[k].val <= writes'
    BY <1>1, <2>1 DEF Possible
  <2>8. QED
    BY <2>4, <2>5, <2>6, <2>7 DEF Possible
<1>4. CASE ExecuteRead
  <2> DEFINE id == Head(wire).id
             v == stored[Head(wire).key]
  <2>1. /\ wire # <<>> /\ wire' = Tail(wire) /\ UNCHANGED <<stored, promised, writes>>
        /\ v \in Nat /\ v <= writes /\ id \in Nat
    BY <1>1, <1>4, HeadFacts DEF ExecuteRead, TypeOK, Numbered
  <2>2. PICK e \in Replies \cup Notices :
          posted' = Append(posted, e) /\ (e.type = "patch" => e.val = v)
    <3>1. \/ posted' = Append(posted, [type |-> "patch", id |-> id, val |-> v])
          \/ posted' = Append(posted, [type |-> "error", id |-> id])
      BY <1>4 DEF ExecuteRead
    <3>2. /\ [type |-> "patch", id |-> id, val |-> v] \in Replies \cup Notices
          /\ [type |-> "error", id |-> id] \in Replies \cup Notices
      BY <2>1, PostedTypes
    <3>3. QED
      BY <3>1, <3>2
  <2> HIDE DEF id, v
  <2>3. /\ Len(posted) \in Nat /\ Len(posted') = Len(posted) + 1
        /\ \A i \in 1 .. Len(posted) : posted'[i] = posted[i]
        /\ posted'[Len(posted) + 1] = e
    BY <1>1, <2>2, AppendFacts DEF TypeOK
  <2>4. \A i \in 1 .. Len(posted') : i \in 1 .. Len(posted) \/ i = Len(posted) + 1
    BY <2>3
  <2>5. \A i \in 1 .. Len(posted') : posted'[i].type = "patch" => posted'[i].val <= writes'
    BY <2>1, <2>2, <2>3, <2>4 DEF Possible
  <2>6. \A i \in 1 .. Len(wire') : i + 1 \in 1 .. Len(wire) /\ wire'[i] = wire[i + 1]
    BY <1>1, <2>1, WireTail
  <2>7. \A i \in 1 .. Len(wire'), k \in Keys : WritesTo(wire'[i], k) => wire'[i].n <= promised'[k]
    BY <2>1, <2>6 DEF Possible
  <2>8. QED
    BY <1>1, <2>1, <2>5, <2>7 DEF Possible, WritesTo
<1>5. CASE ExecuteWrite
  <2>1. /\ wire # <<>> /\ wire' = Tail(wire) /\ UNCHANGED <<promised, posted, writes>>
        /\ Head(wire).type = "write"
        /\ \A k \in Keys : stored'[k] = IF k \in Head(wire).keys THEN Head(wire).n ELSE stored[k]
    BY <1>5 DEF ExecuteWrite
  <2>2. /\ \A i \in 1 .. Len(wire') : i + 1 \in 1 .. Len(wire) /\ wire'[i] = wire[i + 1]
        /\ Head(wire) = wire[1] /\ 1 \in 1 .. Len(wire)
    BY <1>1, <2>1, WireTail
  <2>3. \A i \in 1 .. Len(wire'), k \in Keys : WritesTo(wire'[i], k) => wire'[i].n <= promised'[k]
    BY <2>1, <2>2 DEF Possible
  <2>4. \A k \in Keys \ SavedKeys : stored'[k] <= promised'[k]
    BY <2>1, <2>2 DEF Possible, WritesTo
  <2>5. QED
    BY <1>1, <2>1, <2>3, <2>4 DEF Possible, WritesTo
<1>6. ASSUME NEW l \in Locations, PedalSwitches(l)
      PROVE  Possible'
  <2>1. /\ posted' = Append(posted, [type |-> "switched", loc |-> l])
        /\ UNCHANGED <<wire, stored, promised, writes>>
    BY <1>6 DEF PedalSwitches, captainVars
  <2>2. /\ Len(posted) \in Nat /\ Len(posted') = Len(posted) + 1
        /\ \A i \in 1 .. Len(posted) : posted'[i] = posted[i]
        /\ posted'[Len(posted) + 1].type = "switched"
    BY <1>1, <2>1, PostedTypes, AppendFacts DEF TypeOK
  <2>3. \A i \in 1 .. Len(posted') : posted'[i].type = "patch" => i \in 1 .. Len(posted)
    BY <2>2
  <2>4. QED
    BY <1>1, <2>1, <2>2, <2>3, OldPossible
<1>7. ASSUME NEW x \in Keys, SavesDraft(x) \/ EditedElsewhere(x)
      PROVE  Possible'
  <2>1. /\ writes' = writes + 1 /\ UNCHANGED <<wire, posted>>
        /\ wire = <<>> \/ promised' = promised
        /\ \A k \in Keys : promised'[k] = IF k = x /\ ~SavesDraft(x) THEN writes + 1 ELSE promised[k]
        /\ \A k \in Keys : stored'[k] = IF k = x THEN writes + 1 ELSE stored[k]
        /\ SavesDraft(x) => x \in SavedKeys
    <3>1. CASE SavesDraft(x)
      BY <1>1, <3>1 DEF SavesDraft, TypeOK
    <3>2. CASE ~SavesDraft(x) /\ EditedElsewhere(x)
      BY <1>1, <3>2 DEF EditedElsewhere, TypeOK, IInv, DownIsEmpty
    <3>3. QED
      BY <1>7, <3>1, <3>2
  <2>2. \A k \in Keys \ SavedKeys : stored'[k] <= promised'[k]
    BY <1>1, <2>1 DEF Possible
  <2>3. \A i \in 1 .. Len(posted') : posted'[i].type = "patch" => posted'[i].val <= writes'
    BY <1>1, <2>1, LineValues DEF Possible
  <2>4. \A k \in Keys : cache'[k] # None => cache'[k].val <= writes'
    BY <1>1, <2>1, LineValues DEF Possible
  <2>5. \A i \in 1 .. Len(wire'), k \in Keys : WritesTo(wire'[i], k) => wire'[i].n <= promised'[k]
    <3>1. CASE wire = <<>>
      BY <2>1, <3>1
    <3>2. CASE promised' = promised
      BY <2>1, <3>2 DEF Possible
    <3>3. QED
      BY <2>1, <3>1, <3>2
  <2>6. QED
    BY <2>2, <2>3, <2>4, <2>5 DEF Possible, WritesTo
<1>8. QED
  BY <1>2, <1>3, <1>4, <1>5, <1>6, <1>7 DEF OfTheLink

LEMMA PossibleStep == IInv /\ Numbered /\ Possible /\ [Next]_vars => Possible'
<1> SUFFICES ASSUME IInv, Numbered, Possible, [Next]_vars PROVE Possible'
  OBVIOUS
<1>1. TypeOK /\ IdsGiven /\ writes \in Nat
  BY DEF IInv, TypeOK
<1>2. ASSUME posted' = posted \/ (posted # <<>> /\ posted' = Tail(posted)),
             writes' \in {writes, writes + 1}, \A k \in Keys : cache'[k] \in {cache[k], None},
             UNCHANGED <<wire, stored, promised>>
      PROVE  Possible'
  <2>1. \A i \in 1 .. Len(posted') : \E j \in 1 .. Len(posted) : posted'[i] = posted[j]
    BY <1>1, <1>2, TakenOrNot
  <2>2. writes' \in Nat /\ writes' >= writes
    BY <1>1, <1>2
  <2>3. \A k \in Keys : cache'[k] # None => cache'[k] = cache[k]
    BY <1>2
  <2>4. QED
    BY <1>1, <1>2, <2>1, <2>2, <2>3, OldPossible
<1>3. CASE UNCHANGED vars
  BY <1>2, <1>3 DEF vars, captainVars, hubVars
<1>4. ASSUME NEW r, NEW k, NEW o, Answered(r, k, o) PROVE Possible'
  BY <1>2, <1>4 DEF Answered, captainVars
<1>5. ASSUME NEW r, NEW k \in Keys, JoinFlight(r, k) PROVE Possible'
  BY <1>2, <1>5 DEF JoinFlight, captainVars
<1>6. ASSUME NEW r, NEW k \in Keys, StartFlight(r, k) PROVE Possible'
  <2>1. \A i \in 1 .. Len(wire'), x \in Keys : WritesTo(wire'[i], x) =>
           \E j \in 1 .. Len(wire) : wire'[i] = wire[j]
    BY <1>1, <1>6, SentWire DEF StartFlight
  <2>2. UNCHANGED <<posted, cache, writes, stored, promised>>
    BY <1>6 DEF StartFlight
  <2>3. QED
    BY <1>1, <2>1, <2>2, OldPossible
<1>7. ASSUME NEW S, Sealing(S) PROVE Possible'
  BY <1>2, <1>7 DEF Sealing
<1>8. ASSUME NEW s, CloseSub(s) PROVE Possible'
  BY <1>2, <1>8 DEF CloseSub, captainVars
<1>9. CASE DropReply
  BY <1>2, <1>9 DEF DropReply, NextIs, captainVars
<1>10. CASE SeeDown
  BY <1>2, <1>10 DEF SeeDown, NextIs, captainVars
<1>11. CASE Next
  BY <1>1, <1>4, <1>5, <1>6, <1>7, <1>8, <1>9, <1>10, <1>11, StepKinds, EndsPossible,
     WritePossible, LinkPossible
<1>12. QED
  BY <1>3, <1>11

LEMMA InitPossible == Init => Possible
<1> SUFFICES ASSUME Init PROVE Possible
  OBVIOUS
<1>1. /\ 1 .. Len(posted) = {} /\ 1 .. Len(wire) = {}
      /\ \A k \in Keys : cache[k] = None /\ stored[k] = 0 /\ promised[k] = 0
  BY DEF Init
<1>2. QED
  BY <1>1 DEF Possible

-----------------------------------------------------------------------------
(* What a waiter is owed.                                                  *)

\* A read sent now shows what was promised.
LEMMA LastShows ==
  ASSUME TypeOK, PromiseKept, NEW k \in Keys, NEW p \in Nat, p <= promised[k]
  PROVE  WillShow(Len(wire) + 1, k, p)
<1>1. (Len(wire) + 1) - 1 = Len(wire)
  BY DEF TypeOK
<1>2. (\A j \in 1 .. Len(wire) : ~WritesTo(wire[j], k)) => stored[k] >= p
  BY LineValues DEF PromiseKept, Settled, Meets
<1>3. \A j \in 1 .. Len(wire) :
        WritesTo(wire[j], k) /\ (\A m \in j + 1 .. Len(wire) : ~WritesTo(wire[m], k))
          => wire[j].n >= p
  BY LineValues DEF PromiseKept
<1>4. QED
  BY <1>1, <1>2, <1>3 DEF WillShow

\* So does a read that can still be joined, for it comes after every change.
LEMMA OpenShows ==
  ASSUME TypeOK, PromiseKept, OpenReadIsLast, NEW k \in Keys, NEW p \in Nat, p <= promised[k],
         NEW i \in 1 .. Len(wire), wire[i].type = "read", wire[i].id = flight[k].id, Keepable(k)
  PROVE  WillShow(i, k, p)
<1>1. Len(wire) \in Nat /\ ~WritesTo(wire[i], k)
  BY DEF TypeOK, WritesTo
<1>2. \A j \in 1 .. Len(wire) : j >= i => ~WritesTo(wire[j], k)
  BY <1>1 DEF OpenReadIsLast
<1>3. ASSUME \A j \in 1 .. i - 1 : ~WritesTo(wire[j], k)
      PROVE  stored[k] >= p
  <2>1. Settled(k)
    BY <1>1, <1>2, <1>3 DEF Settled
  <2>2. QED
    BY <2>1, LineValues DEF PromiseKept, Meets
<1>4. ASSUME NEW j \in 1 .. i - 1, WritesTo(wire[j], k),
             \A m \in j + 1 .. i - 1 : ~WritesTo(wire[m], k)
      PROVE  wire[j].n >= p
  <2>1. j \in 1 .. Len(wire) /\ \A m \in j + 1 .. Len(wire) : ~WritesTo(wire[m], k)
    BY <1>1, <1>2, <1>4
  <2>2. wire[j].n = promised[k]
    BY <1>4, <2>1 DEF PromiseKept
  <2>3. QED
    BY <2>2, LineValues
<1>5. QED
  BY <1>3, <1>4 DEF WillShow

\* A read shows the same whatever is sent after it.
LEMMA ShowsBefore ==
  ASSUME NEW i \in Nat, NEW k, NEW p,
         \A j \in 1 .. i - 1 : wire'[j] = wire[j], stored' = stored,
         WillShow(i, k, p)
  PROVE  WillShow(i, k, p)'
<1>1. \A j \in 1 .. i - 1 : \A m \in j + 1 .. i - 1 : m \in 1 .. i - 1
  OBVIOUS
<1>2. \A j \in 1 .. i - 1 : WritesTo(wire'[j], k) <=> WritesTo(wire[j], k)
  BY DEF WritesTo
<1>3. QED
  BY <1>1, <1>2 DEF WillShow, WritesTo

\* And the same when the line before it has been executed.
LEMMA ShowsAfter ==
  ASSUME TypeOK, wire # <<>>, wire' = Tail(wire), NEW i \in 1 .. Len(wire'), NEW k, NEW p,
         \/ WritesTo(wire[1], k) /\ stored'[k] = wire[1].n
         \/ ~WritesTo(wire[1], k) /\ stored'[k] = stored[k],
         WillShow(i + 1, k, p)
  PROVE  WillShow(i, k, p)'
<1>1. /\ Len(wire) \in Nat /\ Len(wire') = Len(wire) - 1 /\ i \in Nat /\ (i + 1) - 1 = i
      /\ \A j \in 1 .. i - 1 : wire'[j] = wire[j + 1] /\ j + 1 \in 1 .. i
  BY WireTail
<1>2. \A j \in 1 .. i - 1 : WritesTo(wire'[j], k) <=> WritesTo(wire[j + 1], k)
  BY <1>1 DEF WritesTo
<1>3. ASSUME \A j \in 1 .. i - 1 : ~WritesTo(wire'[j], k)
      PROVE  stored'[k] >= p
  <2>1. \A j \in 2 .. i : ~WritesTo(wire[j], k)
    <3>1. SUFFICES ASSUME NEW j \in 2 .. i PROVE ~WritesTo(wire[j], k)
      OBVIOUS
    <3>2. j - 1 \in 1 .. i - 1 /\ (j - 1) + 1 = j
      BY <1>1
    <3>3. QED
      BY <1>2, <1>3, <3>2
  <2>2. CASE WritesTo(wire[1], k) /\ stored'[k] = wire[1].n
    <3>1. 1 \in 1 .. i /\ \A m \in 1 + 1 .. i : ~WritesTo(wire[m], k)
      BY <1>1, <2>1
    <3>2. QED
      BY <1>1, <2>2, <3>1 DEF WillShow
  <2>3. CASE ~WritesTo(wire[1], k) /\ stored'[k] = stored[k]
    <3>1. \A j \in 1 .. i : ~WritesTo(wire[j], k)
      <4>1. SUFFICES ASSUME NEW j \in 1 .. i PROVE ~WritesTo(wire[j], k)
        OBVIOUS
      <4>2. j = 1 \/ j \in 2 .. i
        BY <1>1
      <4>3. QED
        BY <2>1, <2>3, <4>2
    <3>2. QED
      BY <1>1, <2>3, <3>1 DEF WillShow
  <2>4. QED
    BY <2>2, <2>3
<1>4. ASSUME NEW j \in 1 .. i - 1, WritesTo(wire'[j], k),
             \A m \in j + 1 .. i - 1 : ~WritesTo(wire'[m], k)
      PROVE  wire'[j].n >= p
  <2>1. wire'[j] = wire[j + 1] /\ j + 1 \in 1 .. i /\ WritesTo(wire[j + 1], k)
    BY <1>1, <1>2, <1>4
  <2>2. \A m \in (j + 1) + 1 .. i : ~WritesTo(wire[m], k)
    <3>1. SUFFICES ASSUME NEW m \in (j + 1) + 1 .. i PROVE ~WritesTo(wire[m], k)
      OBVIOUS
    <3>2. m - 1 \in j + 1 .. i - 1 /\ m - 1 \in 1 .. i - 1 /\ (m - 1) + 1 = m
      BY <1>1
    <3>3. QED
      BY <1>2, <1>4, <3>2
  <2>3. QED
    BY <1>1, <2>1, <2>2 DEF WillShow
<1>5. QED
  BY <1>3, <1>4 DEF WillShow, WritesTo

\* What has been posted when callbacks are taken in turn.
LEMMA TakenInTurn ==
  ASSUME TypeOK, PostedShrinks
  PROVE  /\ EndOfSessionPosted => EndOfSessionPosted'
         /\ \A i \in 1 .. Len(posted') :
              \E j \in 1 .. Len(posted) : posted'[i] = posted[j] /\ (Ended(j) => Ended(i)')
<1>1. CASE posted' = posted
  BY <1>1 DEF EndOfSessionPosted, Ended
<1>2. CASE posted # <<>> /\ Head(posted).type # "down" /\ posted' = Tail(posted)
  <2>1. /\ Len(posted') = Len(posted) - 1 /\ Len(posted) \in Nat
        /\ \A i \in 1 .. Len(posted) - 1 : posted'[i] = posted[i + 1]
        /\ posted[1].type # "down"
    BY <1>2, TailFacts DEF TypeOK
  <2>2. ASSUME NEW i \in 1 .. Len(posted')
        PROVE  /\ i + 1 \in 1 .. Len(posted) /\ posted'[i] = posted[i + 1]
               /\ Ended(i + 1) => Ended(i)'
    <3>1. i + 1 \in 1 .. Len(posted) /\ posted'[i] = posted[i + 1] /\ (i + 1) - 1 = i
      BY <2>1
    <3>2. ASSUME NEW j \in 1 .. i, posted[j].type = "down"
          PROVE  Ended(i)'
      <4>1. j # 1
        BY <2>1, <3>2
      <4>2. j - 1 \in 1 .. i - 1 /\ (j - 1) + 1 = j /\ j - 1 \in 1 .. Len(posted) - 1
        BY <2>1, <4>1
      <4>3. posted'[j - 1].type = "down"
        BY <2>1, <3>2, <4>2
      <4>4. QED
        BY <4>2, <4>3 DEF Ended
    <3>3. QED
      BY <3>1, <3>2 DEF Ended
  <2>3. QED
    BY <1>2, <2>2, ShrinkFacts
<1>3. QED
  BY <1>1, <1>2 DEF PostedShrinks

LEMMA PromisesAreNumbers ==
  ASSUME TypeOK, WaitersInv, NEW k \in Keys, NEW r \in WaitersOf(k)
  PROVE  asked[r].promised \in Nat /\ r \in Requests
<1>1. r \in Requests
  BY FlightTypes
<1>2. asked[r] # NotAsked /\ asked[r] \in {NotAsked} \cup Asking
  BY <1>1 DEF WaitersInv, NoLostWaiter, Waiting, TypeOK
<1>3. QED
  BY <1>1, <1>2 DEF Asking

\* A waiter that stays where it is, while other lines are sent.
LEMMA StaysShown ==
  ASSUME TypeOK, PostedShrinks, NEW k \in Keys, NEW r \in Requests,
         flight'[k].id = flight[k].id, asked'[r] = asked[r], stored' = stored,
         \A i \in 1 .. Len(wire) : wire'[i] = wire[i],
         \A i \in 1 .. Len(wire') :
           wire'[i].type = "read" /\ wire'[i].id = flight[k].id => i \in 1 .. Len(wire),
         IsShown(k, r)
  PROVE  IsShown(k, r)'
<1>1. ASSUME ~EndOfSessionPosted', NEW i \in 1 .. Len(wire'), wire'[i].type = "read",
             wire'[i].id = flight'[k].id
      PROVE  WillShow(i, k, asked[r].promised)'
  <2>1. ~EndOfSessionPosted
    BY <1>1, TakenInTurn
  <2>2. i \in 1 .. Len(wire) /\ Len(wire) \in Nat /\ wire'[i] = wire[i]
    BY <1>1 DEF TypeOK
  <2>3. WillShow(i, k, asked[r].promised)
    BY <1>1, <2>1, <2>2 DEF IsShown
  <2>4. \A j \in 1 .. i - 1 : wire'[j] = wire[j]
    BY <2>2
  <2> DEFINE p == asked[r].promised
  <2>5. WillShow(i, k, p)
    BY <2>3
  <2>6. PICK q : q = p
    OBVIOUS
  <2>7. WillShow(i, k, q)'
    BY <2>2, <2>4, <2>5, <2>6, ShowsBefore
  <2>8. asked'[r].promised = q
    BY <2>6
  <2>9. QED
    BY <2>7, <2>8 DEF WillShow
<1>2. ASSUME NEW i \in 1 .. Len(posted'), posted'[i].type = "patch",
             posted'[i].id = flight'[k].id, ~Ended(i)'
      PROVE  posted'[i].val >= asked'[r].promised
  <2>1. PICK j \in 1 .. Len(posted) : posted'[i] = posted[j] /\ (Ended(j) => Ended(i)')
    BY TakenInTurn
  <2>2. QED
    BY <1>2, <2>1 DEF IsShown
<1>3. QED
  BY <1>1, <1>2 DEF IsShown, WillShow

LEMMA StaysPromised ==
  ASSUME TypeOK, WaitersInv, NEW k \in Keys, NEW r \in WaitersOf(k),
         EndOfSessionPosted => EndOfSessionPosted',
         promised'[k] \in Nat, promised'[k] >= promised[k],
         asked'[r] = asked[r], StillPromised(k, r)
  PROVE  StillPromised(k, r)'
<1>1. asked[r].promised \in Nat /\ promised[k] \in Nat
  BY PromisesAreNumbers, LineValues
<1>2. QED
  BY <1>1 DEF StillPromised

\* A step that sends nothing, and nobody's turn.
LEMMA QuietOwed ==
  ASSUME TypeOK, WaitersInv, OwedInv, PostedShrinks, UNCHANGED <<wire, stored, promised>>,
         \A k \in Keys :
           /\ WaitersOf(k)' \subseteq WaitersOf(k)
           /\ flight'[k].waiters \subseteq flight[k].waiters
           /\ flight'[k].waiters # {} => flight'[k].id = flight[k].id
           /\ \A r \in WaitersOf(k) : asked'[r] = asked[r]
  PROVE  OwedInv'
<1>1. EndOfSessionPosted => EndOfSessionPosted'
  BY TakenInTurn
<1>2. ASSUME NEW k \in Keys, NEW r \in WaitersOf(k)'
      PROVE  StillPromised(k, r)'
  <2>1. r \in WaitersOf(k) /\ StillPromised(k, r) /\ promised[k] \in Nat
    BY <1>2, LineValues DEF OwedInv
  <2>2. QED
    BY <1>1, <2>1, StaysPromised
<1>3. ASSUME NEW k \in Keys, NEW r \in flight'[k].waiters
      PROVE  IsShown(k, r)'
  <2>1. r \in flight[k].waiters /\ r \in WaitersOf(k) /\ r \in Requests
    BY <1>3, FlightTypes DEF WaitersOf
  <2>2. IsShown(k, r) /\ flight'[k].id = flight[k].id /\ asked'[r] = asked[r]
    BY <1>3, <2>1 DEF OwedInv
  <2>3. QED
    BY <2>1, <2>2, StaysShown
<1>4. QED
  BY <1>2, <1>3 DEF OwedInv, WaitersOf, StillPromised, IsShown, EndOfSessionPosted

\* A step that sends a read for those of W.
LEMMA SentOwed ==
  ASSUME IInv, WaitersInv, OwedInv, PostedShrinks, UNCHANGED <<stored, promised>>,
         NEW k \in Keys, NEW W \in SUBSET Requests,
         wire' = Append(wire, ReadLine(seq + 1, k)),
         flight' = [flight EXCEPT ![k] = Out(seq + 1, W)],
         \A r \in W : asked'[r].promised \in Nat /\ StillPromised(k, r)',
         \A x \in Keys : x # k => \A r \in WaitersOf(x) : asked'[r] = asked[r]
  PROVE  OwedInv'
<1>1. TypeOK /\ IdsGiven /\ PromiseKept /\ seq \in Nat /\ Len(wire) \in Nat
      /\ wire \in Seq(Reads \cup Changes) /\ seq + 1 \in Nat
  BY DEF IInv, TypeOK
<1>2. /\ Len(wire') = Len(wire) + 1
      /\ \A i \in 1 .. Len(wire) : wire'[i] = wire[i]
      /\ wire'[Len(wire) + 1] = ReadLine(seq + 1, k)
  BY <1>1, LineTypes, AppendFacts
<1>3. wire'[Len(wire) + 1].id = seq + 1
  BY <1>2 DEF ReadLine
<1>4. /\ flight'[k].id = seq + 1 /\ flight'[k].waiters = W /\ flight'[k].next = {}
      /\ \A x \in Keys : x # k => flight'[x] = flight[x] /\ flight[x].id # seq + 1
  BY <1>1 DEF TypeOK, Out, Flights
<1>5. EndOfSessionPosted => EndOfSessionPosted'
  BY <1>1, TakenInTurn
<1>6. ASSUME NEW x \in Keys, x # k, NEW r \in WaitersOf(x)
      PROVE  StillPromised(x, r)' /\ (r \in flight[x].waiters => IsShown(x, r)')
  <2>1. StillPromised(x, r) /\ promised[x] \in Nat /\ asked'[r] = asked[r] /\ r \in Requests
    BY <1>1, <1>6, LineValues, FlightTypes DEF OwedInv
  <2>2. StillPromised(x, r)'
    BY <1>1, <1>5, <1>6, <2>1, StaysPromised
  <2>3. \A i \in 1 .. Len(wire') :
          wire'[i].type = "read" /\ wire'[i].id = flight[x].id => i \in 1 .. Len(wire)
    BY <1>1, <1>2, <1>3, <1>4, <1>6
  <2>4. flight'[x].id = flight[x].id /\ (r \in flight[x].waiters => IsShown(x, r))
    BY <1>4, <1>6 DEF OwedInv
  <2>5. ASSUME r \in flight[x].waiters PROVE IsShown(x, r)'
    BY <1>1, <1>2, <2>1, <2>3, <2>4, <2>5, StaysShown
  <2>6. QED
    BY <2>2, <2>5
<1>7. ASSUME NEW r \in W
      PROVE  IsShown(k, r)'
  <2>1. PICK p \in Nat : p = asked'[r].promised
    BY <1>7
  <2>2. ASSUME ~EndOfSessionPosted', NEW i \in 1 .. Len(wire'), wire'[i].type = "read",
               wire'[i].id = seq + 1
        PROVE  WillShow(i, k, p)'
    <3>1. i = Len(wire) + 1
      <4>1. \A j \in 1 .. Len(wire) : wire[j].type = "read" => wire[j].id # seq + 1
        BY <1>1 DEF IdsGiven
      <4>2. QED
        BY <1>1, <1>2, <2>2, <4>1
    <3>2. p <= promised[k]
      BY <1>7, <2>1, <2>2 DEF StillPromised
    <3>3. WillShow(Len(wire) + 1, k, p)
      BY <1>1, <3>2, LastShows
    <3>4. \A j \in 1 .. (Len(wire) + 1) - 1 : wire'[j] = wire[j]
      BY <1>1, <1>2
    <3>5. Len(wire) + 1 \in Nat
      BY <1>1
    <3>6. PICK n \in Nat : n = Len(wire) + 1
      BY <3>5
    <3>7. WillShow(n, k, p)'
      BY <3>3, <3>4, <3>6, ShowsBefore
    <3>8. QED
      BY <3>1, <3>6, <3>7
  <2>3. \A i \in 1 .. Len(posted') : ~(posted'[i].type = "patch" /\ posted'[i].id = seq + 1)
    <3>1. \A j \in 1 .. Len(posted) : ~(posted[j].type = "patch" /\ posted[j].id = seq + 1)
      BY <1>1 DEF IdsGiven
    <3>2. QED
      BY <1>1, <3>1, TakenInTurn
  <2>4. QED
    BY <1>4, <2>1, <2>2, <2>3 DEF IsShown, WillShow
<1>8. ASSUME NEW x \in Keys, NEW r \in WaitersOf(x)'
      PROVE  StillPromised(x, r)' /\ (r \in flight'[x].waiters => IsShown(x, r)')
  <2>1. CASE x = k
    <3>1. r \in W
      BY <1>4, <1>8, <2>1 DEF WaitersOf
    <3>2. QED
      BY <1>7, <2>1, <3>1
  <2>2. CASE x # k
    <3>1. flight'[x] = flight[x] /\ r \in WaitersOf(x)
      BY <1>4, <1>8, <2>2 DEF WaitersOf
    <3>2. QED
      BY <1>6, <2>2, <3>1
  <2>3. QED
    BY <2>1, <2>2
<1>9. QED
  BY <1>8 DEF OwedInv, WaitersOf, StillPromised, IsShown, EndOfSessionPosted

\* A client that asks is promised what is promised now.
LEMMA AskedNow ==
  ASSUME TypeOK, NEW r \in Requests, NEW k \in Keys, Asks(r, k)
  PROVE  /\ asked'[r].promised = promised[k] /\ promised[k] \in Nat
         /\ asked[r] = NotAsked
         /\ \A x \in Requests : x # r => asked'[x] = asked[x]
BY DEF Asks, TypeOK

LEMMA NotYetWaiting ==
  ASSUME WaitersInv, NEW r \in Requests, asked[r] = NotAsked
  PROVE  \A x \in Keys : r \notin WaitersOf(x)
BY DEF WaitersInv, NoLostWaiter, Waiting

LEMMA JoinOwed ==
  ASSUME IInv, WaitersInv, OwedInv, NEW r \in Requests, NEW k \in Keys, JoinFlight(r, k)
  PROVE  OwedInv'
<1>1. TypeOK /\ PromiseKept /\ OpenReadIsLast /\ OpenReplyIsFresh
      /\ UNCHANGED <<wire, stored, promised, posted>>
  BY DEF IInv, JoinFlight, captainVars
<1>2. /\ asked'[r].promised = promised[k] /\ promised[k] \in Nat /\ asked[r] = NotAsked
      /\ \A x \in Requests : x # r => asked'[x] = asked[x]
  BY <1>1, AskedNow DEF JoinFlight
<1>3. \A x \in Keys : /\ flight'[x].id = flight[x].id
                      /\ WaitersOf(x)' \subseteq WaitersOf(x) \cup (IF x = k THEN {r} ELSE {})
                      /\ \/ flight'[x].waiters = flight[x].waiters
                         \/ x = k /\ Joinable(k) /\ flight'[x].waiters = flight[x].waiters \cup {r}
  BY <1>1, JoinIs DEF WaitersOf
<1>4. PostedShrinks /\ (EndOfSessionPosted' <=> EndOfSessionPosted)
  BY <1>1 DEF PostedShrinks, EndOfSessionPosted
<1>5. \A x \in Keys : \A y \in WaitersOf(x) : y \in Requests /\ asked'[y] = asked[y]
  BY <1>1, <1>2, NotYetWaiting, FlightTypes
<1>6. ASSUME NEW x \in Keys, NEW y \in WaitersOf(x)
      PROVE  StillPromised(x, y)' /\ (y \in flight[x].waiters => IsShown(x, y)')
  <2>1. /\ StillPromised(x, y) /\ promised'[x] \in Nat /\ promised'[x] >= promised[x]
        /\ asked'[y] = asked[y] /\ y \in Requests
    BY <1>1, <1>5, <1>6, LineValues DEF OwedInv
  <2>2. StillPromised(x, y)'
    BY <1>1, <1>4, <1>6, <2>1, StaysPromised
  <2>3. ASSUME y \in flight[x].waiters PROVE IsShown(x, y)'
    <3>1. IsShown(x, y) /\ flight'[x].id = flight[x].id
      BY <1>3, <1>6, <2>3 DEF OwedInv
    <3>2. QED
      BY <1>1, <1>4, <2>1, <3>1, StaysShown
  <2>4. QED
    BY <2>2, <2>3
<1>7. StillPromised(k, r)'
  BY <1>1, <1>2 DEF StillPromised
<1>8. ASSUME Joinable(k) PROVE IsShown(k, r)'
  <2>1. PICK p \in Nat : p = promised[k]
    BY <1>2
  <2>2. ASSUME NEW i \in 1 .. Len(wire), wire[i].type = "read", wire[i].id = flight[k].id
        PROVE  WillShow(i, k, p)
    BY <1>1, <1>8, <2>1, <2>2, OpenShows DEF Joinable, Keepable
  <2>3. ASSUME NEW i \in 1 .. Len(wire), wire[i].type = "read", wire[i].id = flight[k].id
        PROVE  WillShow(i, k, p)'
    BY <1>1, <2>2, <2>3 DEF WillShow, WritesTo
  <2>4. ASSUME NEW i \in 1 .. Len(posted), posted[i].type = "patch", posted[i].id = flight[k].id
        PROVE  posted[i].val >= p
    BY <1>1, <1>8, <2>1, <2>4 DEF OpenReplyIsFresh, Joinable, Keepable, Meets
  <2>5. asked'[r].promised = p /\ flight'[k].id = flight[k].id
    BY <1>2, <1>3, <2>1
  <2>6. QED
    BY <1>1, <2>3, <2>4, <2>5 DEF IsShown, WillShow
<1>9. ASSUME NEW x \in Keys, NEW y \in WaitersOf(x)'
      PROVE  StillPromised(x, y)' /\ (y \in flight'[x].waiters => IsShown(x, y)')
  <2>1. CASE y \in WaitersOf(x)
    <3>1. y # r
      BY <1>2, <2>1, NotYetWaiting
    <3>2. y \in flight'[x].waiters => y \in flight[x].waiters
      BY <1>3, <3>1
    <3>3. QED
      BY <1>6, <2>1, <3>2
  <2>2. CASE y \notin WaitersOf(x)
    <3>1. x = k /\ y = r
      BY <1>3, <1>9, <2>2
    <3>2. y \in flight'[x].waiters => Joinable(k)
      BY <1>3, <2>2, <3>1 DEF WaitersOf
    <3>3. QED
      BY <1>7, <1>8, <3>1, <3>2
  <2>3. QED
    BY <2>1, <2>2
<1>10. QED
  BY <1>9 DEF OwedInv, WaitersOf, StillPromised, IsShown, EndOfSessionPosted

LEMMA StartOwed ==
  ASSUME IInv, WaitersInv, OwedInv, NEW r \in Requests, NEW k \in Keys, StartFlight(r, k)
  PROVE  OwedInv'
<1>1. TypeOK /\ UNCHANGED <<stored, promised, posted>>
      /\ wire' = Append(wire, ReadLine(seq + 1, k))
      /\ flight' = [flight EXCEPT ![k] = Out(seq + 1, {r})]
  BY DEF IInv, StartFlight
<1>2. /\ asked'[r].promised = promised[k] /\ promised[k] \in Nat /\ asked[r] = NotAsked
      /\ \A x \in Requests : x # r => asked'[x] = asked[x]
  BY <1>1, AskedNow DEF StartFlight
<1>3. \A x \in Keys : \A y \in WaitersOf(x) : asked'[y] = asked[y]
  BY <1>1, <1>2, NotYetWaiting, FlightTypes
<1>4. PostedShrinks
  BY <1>1 DEF PostedShrinks
<1>5. \A y \in {r} : asked'[y].promised \in Nat /\ StillPromised(k, y)'
  BY <1>1, <1>2 DEF StillPromised
<1>6. {r} \in SUBSET Requests
  OBVIOUS
<1>7. QED
  BY <1>1, <1>3, <1>4, <1>5, <1>6, SentOwed

LEMMA EndsOwed ==
  ASSUME IInv, WaitersInv, OwedInv, NEW k \in Keys, NEW o, NEW F, Ends(k, o, F)
  PROVE  OwedInv'
<1>1. TypeOK /\ UNCHANGED <<stored, promised, asked>> /\ flight[k].next \in SUBSET Requests
  BY FlightTypes DEF IInv, Ends
<1>2. PostedShrinks
  BY DEF Ends, Took, PostedShrinks
<1>3. CASE /\ flight' = [flight EXCEPT ![k] = Out(seq + 1, flight[k].next)]
           /\ wire' = Append(wire, ReadLine(seq + 1, k))
  <2>1. EndOfSessionPosted => EndOfSessionPosted'
    BY <1>1, <1>2, TakenInTurn
  <2>2. ASSUME NEW r \in flight[k].next
        PROVE  asked'[r].promised \in Nat /\ StillPromised(k, r)'
    <3>1. r \in WaitersOf(k)
      BY <2>2 DEF WaitersOf
    <3>2. StillPromised(k, r) /\ promised[k] \in Nat
      BY <1>1, <3>1, LineValues DEF OwedInv
    <3>3. QED
      BY <1>1, <2>1, <3>1, <3>2, StaysPromised, PromisesAreNumbers
  <2>3. QED
    BY <1>1, <1>2, <1>3, <2>2, SentOwed
<1>4. CASE flight' = [flight EXCEPT ![k] = NoFlight] /\ wire' = wire
  <2>1. \A x \in Keys : /\ WaitersOf(x)' \subseteq WaitersOf(x)
                        /\ flight'[x].waiters \subseteq flight[x].waiters
                        /\ flight'[x].waiters # {} => flight'[x].id = flight[x].id
    BY <1>1, <1>4 DEF TypeOK, NoFlight, Out, WaitersOf
  <2>2. QED
    BY <1>1, <1>2, <1>4, <2>1, QuietOwed
<1>5. QED
  BY <1>1, <1>3, <1>4, EndsIs

LEMMA WriteOwed ==
  ASSUME IInv, Numbered, WaitersInv, OwedInv, NEW S, NEW K \in SUBSET Keys, Write(S, K)
  PROVE  OwedInv'
<1>1. TypeOK /\ UNCHANGED <<stored, posted, asked>> /\ Len(wire) \in Nat
      /\ wire' = Append(wire, WriteLine(K, writes + 1)) /\ SameFlights
  BY QuietSteps, SealingKeeps DEF IInv, TypeOK, Write, Forget, clientVars
<1>2. \A k \in Keys : promised'[k] >= promised[k] /\ promised'[k] \in Nat
  BY <1>1, LineValues DEF Write, Numbered
<1>3. /\ Len(wire') = Len(wire) + 1
      /\ \A j \in 1 .. Len(wire) : wire'[j] = wire[j]
      /\ wire'[Len(wire) + 1] = WriteLine(K, writes + 1)
  BY <1>1, LineTypes, AppendFacts DEF TypeOK
<1>4. \A i \in 1 .. Len(wire') : wire'[i].type = "read" => i \in 1 .. Len(wire)
  <2>1. wire'[Len(wire) + 1].type = "write"
    BY <1>3 DEF WriteLine
  <2>2. \A i \in 1 .. Len(wire') : i \in 1 .. Len(wire) \/ i = Len(wire) + 1
    BY <1>1, <1>3
  <2>3. QED
    BY <2>1, <2>2
<1>5. PostedShrinks /\ (EndOfSessionPosted' <=> EndOfSessionPosted)
  BY <1>1 DEF PostedShrinks, EndOfSessionPosted
<1>6. \A k \in Keys : /\ flight'[k].id = flight[k].id /\ WaitersOf(k)' = WaitersOf(k)
                      /\ flight'[k].waiters = flight[k].waiters
  BY <1>1 DEF SameFlights, WaitersOf
<1>7. ASSUME NEW k \in Keys, NEW r \in WaitersOf(k)
      PROVE  StillPromised(k, r)' /\ (r \in flight[k].waiters => IsShown(k, r)')
  <2>1. StillPromised(k, r) /\ r \in Requests /\ asked'[r] = asked[r]
    BY <1>1, <1>7, FlightTypes DEF OwedInv
  <2>2. StillPromised(k, r)'
    BY <1>1, <1>2, <1>5, <1>7, <2>1, StaysPromised
  <2>3. ASSUME r \in flight[k].waiters PROVE IsShown(k, r)'
    <3>1. IsShown(k, r) /\ flight'[k].id = flight[k].id
      BY <1>6, <2>3 DEF OwedInv
    <3>2. QED
      BY <1>1, <1>3, <1>4, <1>5, <2>1, <3>1, StaysShown
  <2>4. QED
    BY <2>2, <2>3
<1>8. QED
  BY <1>6, <1>7 DEF OwedInv, WaitersOf, StillPromised, IsShown, EndOfSessionPosted

LEMMA DownOwed == SeeDown => OwedInv'
<1> SUFFICES ASSUME SeeDown PROVE OwedInv'
  OBVIOUS
<1>1. \A k \in Keys : flight'[k].waiters = {} /\ flight'[k].next = {}
  BY DEF SeeDown, NoFlight, Out
<1>2. QED
  BY <1>1 DEF OwedInv, WaitersOf

\* A callback posted last.
LEMMA PostedLast ==
  ASSUME TypeOK, NEW e \in Replies \cup Notices, posted' = Append(posted, e)
  PROVE  /\ Len(posted) \in Nat
         /\ \A i \in 1 .. Len(posted') : i \in 1 .. Len(posted) \/ i = Len(posted) + 1
         /\ \A i \in 1 .. Len(posted) : posted'[i] = posted[i] /\ (Ended(i)' <=> Ended(i))
         /\ posted'[Len(posted) + 1] = e
         /\ \A n : n = Len(posted) + 1 => (Ended(n)' <=> EndOfSessionPosted)
         /\ EndOfSessionPosted => EndOfSessionPosted'
         /\ e.type = "down" => EndOfSessionPosted'
<1>1. /\ Len(posted) \in Nat /\ Len(posted') = Len(posted) + 1
      /\ \A i \in 1 .. Len(posted) : posted'[i] = posted[i]
      /\ posted'[Len(posted) + 1] = e
  BY AppendFacts DEF TypeOK
<1>2. /\ \A i \in 1 .. Len(posted') : i \in 1 .. Len(posted) \/ i = Len(posted) + 1
      /\ \A i \in 1 .. Len(posted) : i \in 1 .. Len(posted')
      /\ Len(posted) + 1 \in 1 .. Len(posted') /\ (Len(posted) + 1) - 1 = Len(posted)
      /\ \A i \in 1 .. Len(posted) : \A j \in 1 .. i - 1 : j \in 1 .. Len(posted)
  BY <1>1
<1>3. \A i \in 1 .. Len(posted) : Ended(i)' <=> Ended(i)
  BY <1>1, <1>2 DEF Ended
<1>4. \A n : n = Len(posted) + 1 => (Ended(n)' <=> EndOfSessionPosted)
  BY <1>1, <1>2 DEF Ended, EndOfSessionPosted
<1>5. EndOfSessionPosted => EndOfSessionPosted'
  BY <1>1, <1>2 DEF EndOfSessionPosted
<1>6. e.type = "down" => EndOfSessionPosted'
  BY <1>1, <1>2 DEF EndOfSessionPosted
<1>7. QED
  BY <1>1, <1>2, <1>3, <1>4, <1>5, <1>6

LEMMA LinkOwed ==
  ASSUME IInv, Numbered, WaitersInv, OwedInv, OfTheLink
  PROVE  OwedInv'
<1>1. TypeOK /\ flight' = flight /\ UNCHANGED clientVars
  BY LinkHasNoClients DEF IInv, NoClients
<1>2. ASSUME EndOfSessionPosted => EndOfSessionPosted',
             \A k \in Keys : ~EndOfSessionPosted' => promised'[k] \in Nat /\ promised'[k] >= promised[k],
             \A k \in Keys : \A r \in flight[k].waiters : IsShown(k, r) => IsShown(k, r)'
      PROVE  OwedInv'
  <2>1. ASSUME NEW k \in Keys, NEW r \in WaitersOf(k) PROVE StillPromised(k, r)'
    <3>1. asked[r].promised \in Nat /\ promised[k] \in Nat /\ StillPromised(k, r)
      BY <1>1, <2>1, PromisesAreNumbers, LineValues DEF OwedInv
    <3>2. QED
      BY <1>1, <1>2, <3>1 DEF StillPromised, clientVars
  <2>2. \A k \in Keys : \A r \in flight[k].waiters : IsShown(k, r)'
    BY <1>2 DEF OwedInv
  <2>3. QED
    BY <1>1, <2>1, <2>2 DEF OwedInv, WaitersOf, StillPromised, IsShown, EndOfSessionPosted
<1>3. \A k \in Keys : \A r \in flight[k].waiters :
         r \in WaitersOf(k) /\ r \in Requests /\ asked[r].promised \in Nat /\ asked'[r] = asked[r]
  BY <1>1, PromisesAreNumbers DEF WaitersOf, clientVars
<1>4. CASE SessionStarts
  <2>1. UNCHANGED <<wire, stored, promised, posted>>
    BY <1>4 DEF SessionStarts
  <2>2. PostedShrinks /\ \A k \in Keys : WaitersOf(k)' = WaitersOf(k)
    BY <1>1, <2>1 DEF PostedShrinks, WaitersOf
  <2>3. QED
    BY <1>1, <2>1, <2>2, QuietOwed DEF clientVars
<1>5. CASE SessionEnds
  <2> DEFINE e == [type |-> "down"]
  <2>1. e \in Replies \cup Notices /\ posted' = Append(posted, e) /\ e.type = "down"
    BY <1>5, PostedTypes DEF SessionEnds
  <2> HIDE DEF e
  <2>2. EndOfSessionPosted'
    BY <1>1, <2>1, PostedLast
  <2>3. ASSUME NEW k \in Keys, NEW r \in flight[k].waiters, IsShown(k, r)
        PROVE  IsShown(k, r)'
    <3>1. ASSUME NEW i \in 1 .. Len(posted'), posted'[i].type = "patch",
                 posted'[i].id = flight'[k].id, ~Ended(i)'
          PROVE  posted'[i].val >= asked'[r].promised
      <4>1. i \in 1 .. Len(posted) /\ posted'[i] = posted[i] /\ ~Ended(i)
        BY <1>1, <2>1, <3>1, PostedLast
      <4>2. QED
        BY <1>1, <1>3, <2>3, <3>1, <4>1 DEF IsShown
    <3>2. QED
      BY <2>2, <3>1 DEF IsShown
  <2>4. QED
    BY <1>2, <2>2, <2>3
<1>6. CASE ExecuteRead
  <2> DEFINE id == Head(wire).id
             v == stored[Head(wire).key]
  <2>1. /\ wire # <<>> /\ wire' = Tail(wire) /\ UNCHANGED <<stored, promised>>
        /\ Head(wire).type = "read" /\ v \in Nat /\ id \in Nat
    BY <1>1, <1>6, HeadFacts DEF ExecuteRead, TypeOK
  <2>2. PICK e \in Replies \cup Notices :
          /\ posted' = Append(posted, e) /\ e.id = id /\ e.type # "down"
          /\ e.type = "patch" => e.val = v
    <3>1. \/ posted' = Append(posted, [type |-> "patch", id |-> id, val |-> v])
          \/ posted' = Append(posted, [type |-> "error", id |-> id])
      BY <1>6 DEF ExecuteRead
    <3>2. /\ [type |-> "patch", id |-> id, val |-> v] \in Replies \cup Notices
          /\ [type |-> "error", id |-> id] \in Replies \cup Notices
      BY <2>1, PostedTypes
    <3>3. QED
      BY <3>1, <3>2
  <2>3. /\ Len(wire) \in Nat /\ Len(wire') = Len(wire) - 1
        /\ \A i \in 1 .. Len(wire') : i + 1 \in 1 .. Len(wire) /\ wire'[i] = wire[i + 1]
        /\ Head(wire) = wire[1] /\ 1 \in 1 .. Len(wire)
    BY <1>1, <2>1, WireTail
  <2>4. v = stored[wire[1].key] /\ id = wire[1].id /\ wire[1].type = "read"
    BY <2>1, <2>3
  <2> HIDE DEF id, v
  <2>5. ASSUME NEW k \in Keys, NEW r \in flight[k].waiters, IsShown(k, r)
        PROVE  IsShown(k, r)'
    <3>1. PICK p \in Nat : p = asked[r].promised /\ p = asked'[r].promised
      BY <1>3, <2>5
    <3>2. ASSUME ~EndOfSessionPosted', NEW i \in 1 .. Len(wire'), wire'[i].type = "read",
                 wire'[i].id = flight'[k].id
          PROVE  WillShow(i, k, p)'
      <4>1. ~EndOfSessionPosted
        BY <1>1, <2>2, <3>2, PostedLast
      <4>2. WillShow(i + 1, k, p)
        BY <1>1, <2>3, <2>5, <3>1, <3>2, <4>1 DEF IsShown
      <4>3. ~WritesTo(wire[1], k) /\ stored'[k] = stored[k]
        BY <2>1, <2>4 DEF WritesTo
      <4>4. QED
        BY <1>1, <2>1, <4>2, <4>3, ShowsAfter
    <3>3. ASSUME NEW i \in 1 .. Len(posted'), posted'[i].type = "patch",
                 posted'[i].id = flight'[k].id, ~Ended(i)'
          PROVE  posted'[i].val >= p
      <4>1. CASE i \in 1 .. Len(posted)
        <5>1. posted'[i] = posted[i] /\ ~Ended(i)
          BY <1>1, <2>2, <3>3, <4>1, PostedLast
        <5>2. QED
          BY <1>1, <2>5, <3>1, <3>3, <4>1, <5>1 DEF IsShown
      <4>2. CASE i = Len(posted) + 1
        <5>1. posted'[i] = e /\ ~EndOfSessionPosted
          BY <1>1, <2>2, <3>3, <4>2, PostedLast
        <5>2. wire[1].id = flight[k].id /\ posted'[i].val = v
          BY <1>1, <2>2, <2>4, <3>3, <5>1
        <5>3. wire[1].key = k
          BY <2>3, <2>4, <5>2 DEF IInv, ReadsHaveKeys
        <5>4. WillShow(1, k, p)
          BY <2>3, <2>4, <2>5, <3>1, <5>1, <5>2 DEF IsShown
        <5>5. stored[k] >= p
          BY <5>4 DEF WillShow
        <5>6. QED
          BY <2>4, <5>2, <5>3, <5>5
      <4>3. QED
        BY <1>1, <2>2, <4>1, <4>2, PostedLast
    <3>4. QED
      BY <3>1, <3>2, <3>3 DEF IsShown, WillShow
  <2>6. EndOfSessionPosted => EndOfSessionPosted'
    BY <1>1, <2>2, PostedLast
  <2>7. \A k \in Keys : promised'[k] \in Nat /\ promised'[k] >= promised[k]
    BY <1>1, <2>1, LineValues
  <2>8. QED
    BY <1>2, <2>5, <2>6, <2>7
<1>7. CASE ExecuteWrite
  <2>1. /\ wire # <<>> /\ wire' = Tail(wire) /\ UNCHANGED <<promised, posted>>
        /\ Head(wire).type = "write"
        /\ \A k \in Keys : stored'[k] = IF k \in Head(wire).keys THEN Head(wire).n ELSE stored[k]
    BY <1>7 DEF ExecuteWrite
  <2>2. /\ \A i \in 1 .. Len(wire') : i + 1 \in 1 .. Len(wire) /\ wire'[i] = wire[i + 1]
        /\ Head(wire) = wire[1]
    BY <1>1, <2>1, WireTail
  <2>3. \A k \in Keys : \/ WritesTo(wire[1], k) /\ stored'[k] = wire[1].n
                        \/ ~WritesTo(wire[1], k) /\ stored'[k] = stored[k]
    BY <2>1, <2>2 DEF WritesTo
  <2>4. EndOfSessionPosted' <=> EndOfSessionPosted
    BY <2>1 DEF EndOfSessionPosted
  <2>5. ASSUME NEW k \in Keys, NEW r \in flight[k].waiters, IsShown(k, r)
        PROVE  IsShown(k, r)'
    <3>1. PICK p \in Nat : p = asked[r].promised /\ p = asked'[r].promised
      BY <1>3, <2>5
    <3>2. ASSUME ~EndOfSessionPosted', NEW i \in 1 .. Len(wire'), wire'[i].type = "read",
                 wire'[i].id = flight'[k].id
          PROVE  WillShow(i, k, p)'
      <4>1. WillShow(i + 1, k, p)
        BY <1>1, <2>2, <2>4, <2>5, <3>1, <3>2 DEF IsShown
      <4>2. QED
        BY <1>1, <2>1, <2>3, <4>1, ShowsAfter
    <3>3. \A i \in 1 .. Len(posted') :
            posted'[i].type = "patch" /\ posted'[i].id = flight'[k].id /\ ~Ended(i)'
              => posted'[i].val >= p
      BY <1>1, <2>1, <2>5, <3>1 DEF IsShown, Ended
    <3>4. QED
      BY <3>1, <3>2, <3>3 DEF IsShown, WillShow
  <2>6. \A k \in Keys : promised'[k] \in Nat /\ promised'[k] >= promised[k]
    BY <1>1, <2>1, LineValues
  <2>7. QED
    BY <1>2, <2>4, <2>5, <2>6
<1>8. ASSUME NEW l \in Locations, PedalSwitches(l) PROVE OwedInv'
  <2> DEFINE e == [type |-> "switched", loc |-> l]
  <2>1. /\ e \in Replies \cup Notices /\ posted' = Append(posted, e) /\ e.type = "switched"
        /\ UNCHANGED <<wire, stored, promised>>
    BY <1>8, PostedTypes DEF PedalSwitches, captainVars
  <2> HIDE DEF e
  <2>2. EndOfSessionPosted => EndOfSessionPosted'
    BY <1>1, <2>1, PostedLast
  <2>3. ASSUME NEW k \in Keys, NEW r \in flight[k].waiters, IsShown(k, r)
        PROVE  IsShown(k, r)'
    <3>1. ASSUME NEW i \in 1 .. Len(posted'), posted'[i].type = "patch",
                 posted'[i].id = flight'[k].id, ~Ended(i)'
          PROVE  posted'[i].val >= asked'[r].promised
      <4>1. i \in 1 .. Len(posted) /\ posted'[i] = posted[i] /\ ~Ended(i)
        BY <1>1, <2>1, <3>1, PostedLast
      <4>2. QED
        BY <1>1, <1>3, <2>3, <3>1, <4>1 DEF IsShown
    <3>2. ASSUME ~EndOfSessionPosted', NEW i \in 1 .. Len(wire), wire[i].type = "read",
                 wire[i].id = flight[k].id
          PROVE  WillShow(i, k, asked[r].promised)
      BY <2>2, <2>3, <3>2 DEF IsShown
    <3>3. QED
      BY <1>1, <1>3, <2>1, <3>1, <3>2 DEF IsShown, WillShow, WritesTo
  <2>4. \A k \in Keys : promised'[k] \in Nat /\ promised'[k] >= promised[k]
    BY <1>1, <2>1, LineValues
  <2>5. QED
    BY <1>2, <2>2, <2>3, <2>4
<1>9. ASSUME NEW x \in Keys, SavesDraft(x) PROVE OwedInv'
  <2>1. /\ UNCHANGED <<wire, promised, posted>>
        /\ \A k \in Keys : stored'[k] = IF k = x THEN writes + 1 ELSE stored[k]
    BY <1>1, <1>9 DEF SavesDraft, TypeOK
  <2>2. \A k \in Keys : stored'[k] \in Nat /\ stored'[k] >= stored[k] /\ stored[k] \in Nat
    BY <1>1, <2>1, LineValues DEF Numbered
  <2>3. EndOfSessionPosted' <=> EndOfSessionPosted
    BY <2>1 DEF EndOfSessionPosted
  <2>4. ASSUME NEW k \in Keys, NEW r \in flight[k].waiters, IsShown(k, r)
        PROVE  IsShown(k, r)'
    <3>1. PICK p \in Nat : p = asked[r].promised /\ p = asked'[r].promised
      BY <1>3, <2>4
    <3>2. ASSUME NEW i \in 1 .. Len(wire), WillShow(i, k, p)
          PROVE  WillShow(i, k, p)'
      <4>1. stored'[k] >= stored[k] /\ stored'[k] \in Nat /\ stored[k] \in Nat
        BY <2>2
      <4>2. QED
        BY <2>1, <3>2, <4>1 DEF WillShow, WritesTo
    <3>3. ASSUME ~EndOfSessionPosted', NEW i \in 1 .. Len(wire), wire[i].type = "read",
                 wire[i].id = flight[k].id
          PROVE  WillShow(i, k, p)'
      BY <2>3, <2>4, <3>1, <3>2, <3>3 DEF IsShown
    <3>4. \A i \in 1 .. Len(posted') :
            posted'[i].type = "patch" /\ posted'[i].id = flight'[k].id /\ ~Ended(i)'
              => posted'[i].val >= p
      BY <1>1, <2>1, <2>4, <3>1 DEF IsShown, Ended
    <3>5. QED
      BY <1>1, <2>1, <3>1, <3>3, <3>4 DEF IsShown, WillShow
  <2>5. \A k \in Keys : promised'[k] \in Nat /\ promised'[k] >= promised[k]
    BY <1>1, <2>1, LineValues
  <2>6. QED
    BY <1>2, <2>3, <2>4, <2>5
<1>10. ASSUME NEW x \in Keys, EditedElsewhere(x) PROVE OwedInv'
  <2>1. /\ wire = <<>> /\ posted = <<>> /\ UNCHANGED <<wire, posted>> /\ writes \in Nat
        /\ \A k \in Keys : promised'[k] = IF k = x THEN writes + 1 ELSE promised[k]
    BY <1>1, <1>10 DEF EditedElsewhere, TypeOK, IInv, DownIsEmpty
  <2>2. \A k \in Keys : promised'[k] \in Nat /\ promised'[k] >= promised[k]
    BY <1>1, <2>1, LineValues DEF Numbered
  <2>3. EndOfSessionPosted' <=> EndOfSessionPosted
    BY <2>1 DEF EndOfSessionPosted
  <2>4. 1 .. Len(wire') = {} /\ 1 .. Len(posted') = {}
    BY <2>1
  <2>5. \A k \in Keys : \A r \in flight[k].waiters : IsShown(k, r)'
    BY <2>4 DEF IsShown
  <2>6. QED
    BY <1>2, <2>2, <2>3, <2>5
<1>11. QED
  BY <1>4, <1>5, <1>6, <1>7, <1>8, <1>9, <1>10 DEF OfTheLink

LEMMA OwedStep ==
  IInv /\ Numbered /\ WaitersInv /\ OwedInv /\ [Next]_vars => OwedInv'
<1> SUFFICES ASSUME IInv, Numbered, WaitersInv, OwedInv, [Next]_vars PROVE OwedInv'
  OBVIOUS
<1>1. TypeOK /\ IdsGiven
  BY DEF IInv
<1>2. ASSUME SameFlights, UNCHANGED <<wire, stored, promised, asked>>, PostedShrinks
      PROVE  OwedInv'
  <2>1. \A k \in Keys : /\ WaitersOf(k)' \subseteq WaitersOf(k)
                        /\ flight'[k].waiters \subseteq flight[k].waiters
                        /\ flight'[k].id = flight[k].id
    BY <1>2 DEF SameFlights, WaitersOf
  <2>2. QED
    BY <1>1, <1>2, <2>1, QuietOwed
<1>3. UNCHANGED posted => PostedShrinks
  BY DEF PostedShrinks
<1>4. CASE UNCHANGED vars
  <2>1. SameFlights
    BY <1>4 DEF vars, hubVars, SameFlights
  <2>2. UNCHANGED <<wire, stored, promised, asked, posted>>
    BY <1>4 DEF vars, captainVars, clientVars
  <2>3. QED
    BY <1>2, <1>3, <2>1, <2>2
<1>5. ASSUME NEW r \in Requests, NEW k \in Keys, NEW o, Answered(r, k, o) PROVE OwedInv'
  <2>1. UNCHANGED <<wire, stored, promised, posted, flight>> /\ Asks(r, k)
    BY <1>5 DEF Answered, captainVars
  <2>2. \A x \in Keys : \A y \in WaitersOf(x) : asked'[y] = asked[y]
    BY <1>1, <2>1, AskedNow, NotYetWaiting, FlightTypes
  <2>3. \A x \in Keys : WaitersOf(x)' \subseteq WaitersOf(x)
    BY <2>1 DEF WaitersOf
  <2>4. QED
    BY <1>1, <1>3, <2>1, <2>2, <2>3, QuietOwed
<1>6. ASSUME NEW S, Sealing(S) PROVE OwedInv'
  <2>1. SameFlights
    BY <1>1, <1>6, SealingKeeps DEF Sealing
  <2>2. PostedShrinks
    BY <1>6 DEF Sealing, PostedShrinks
  <2>3. QED
    BY <1>2, <1>6, <2>1, <2>2 DEF Sealing, clientVars
<1>7. ASSUME NEW s \in Subs, CloseSub(s) PROVE OwedInv'
  <2>1. \A k \in Keys : /\ flight'[k].waiters \subseteq flight[k].waiters
                        /\ flight'[k].next \subseteq flight[k].next
                        /\ flight'[k].id = flight[k].id
    BY <1>1, <1>7, CloseIs
  <2>2. UNCHANGED <<wire, stored, promised, asked, posted>>
    BY <1>7 DEF CloseSub, captainVars, clientVars
  <2>3. \A k \in Keys : WaitersOf(k)' \subseteq WaitersOf(k)
    BY <2>1 DEF WaitersOf
  <2>4. QED
    BY <1>1, <1>3, <2>1, <2>2, <2>3, QuietOwed
<1>8. CASE DropReply
  <2>1. SameFlights /\ UNCHANGED <<wire, stored, promised, asked>>
    BY <1>8 DEF DropReply, captainVars, clientVars, SameFlights
  <2>2. PostedShrinks
    BY <1>8 DEF DropReply, NextIs, PostedShrinks
  <2>3. QED
    BY <1>2, <2>1, <2>2
<1>9. CASE Next
  BY <1>1, <1>5, <1>6, <1>7, <1>8, <1>9, StepKinds, JoinOwed, StartOwed, EndsOwed, WriteOwed,
     DownOwed, LinkOwed
<1>10. QED
  BY <1>4, <1>9

LEMMA InitOwed == Init => OwedInv
<1> SUFFICES ASSUME Init PROVE OwedInv
  OBVIOUS
<1>1. \A k \in Keys : flight[k].waiters = {} /\ flight[k].next = {}
  BY DEF Init, NoFlight, Out
<1>2. QED
  BY <1>1 DEF OwedInv, WaitersOf

-----------------------------------------------------------------------------
(* The theorems.                                                           *)

ClientInv ==
  IInv /\ Numbered /\ WaitersInv /\ LimitsInv /\ FollowAll /\ Possible /\ OwedInv

LEMMA InitClients == Init => ClientInv
BY InitInv, InitWaits, InitLimits, InitFollows, InitPossible, InitOwed
DEF ClientInv, Init, Numbered

LEMMA NextClients == ClientInv /\ [Next]_vars => ClientInv'
<1> SUFFICES ASSUME ClientInv, [Next]_vars PROVE ClientInv'
  OBVIOUS
<1>1. TypeOK /\ TypeOK' /\ IdsGiven /\ DownIsEmpty
  BY NextType DEF ClientInv, IInv
<1>2. Numbered' /\ IInv'
  BY <1>1, NextNumbers, NextInv DEF ClientInv
<1>3. WaitersInv'
  BY <1>1, WaitersStep DEF ClientInv
<1>4. LimitsInv'
  BY <1>1, LimitsStep DEF ClientInv
<1>5. FollowAll'
  BY <1>1, FollowStep DEF ClientInv
<1>6. Possible' /\ OwedInv'
  BY PossibleStep, OwedStep DEF ClientInv
<1>7. QED
  BY <1>2, <1>3, <1>4, <1>5, <1>6 DEF ClientInv

\* What the hub keeps for its clients agrees, at every step, with what is under way
\* and with what was promised.
THEOREM ClientsInductive == Spec => []ClientInv
BY InitClients, NextClients, PTL DEF Spec

\* A client without an answer is a waiter of exactly the flight of its key, and
\* nobody else is, through any order of joins, seals, timeouts and lost sessions.
THEOREM NoWaiterIsLost == Spec => []NoLostWaiter
<1>1. ClientInv => NoLostWaiter
  BY DEF ClientInv, WaitersInv
<1>2. QED
  BY <1>1, ClientsInductive, PTL

\* The limits on those who wait hold for all flights and generations together.
THEOREM LimitsAlwaysHold == Spec => []WaiterLimits
<1>1. ClientInv => WaiterLimits
  BY DEF ClientInv, LimitsInv
<1>2. QED
  BY <1>1, ClientsInductive, PTL

\* The reads that keep a firmware update waiting are exactly those whose answer, or
\* the end of whose session, is still to come, provided that the loop runs the end of
\* a session before the next one begins.
THEOREM FollowedAreOwed ==
  ASSUME LoopKeepsUp PROVE Spec => []FollowedIsOwed
<1>1. ClientInv => FollowedIsOwed
  BY DEF ClientInv, FollowAll, FollowInv, FollowedIsOwed
<1>2. QED
  BY <1>1, ClientsInductive, PTL

-----------------------------------------------------------------------------
(* The cache, the flights and the sessions cannot be seen in the answers.  *)

LEMMA ChangeStep ==
  ASSUME TypeOK, NEW K \in SUBSET Keys, writes' = writes + 1, UNCHANGED clientVars,
         \A k \in Keys : promised'[k] = IF k \in K THEN writes + 1 ELSE promised[k],
         TypeOK'
  PROVE  Fresh!Next
<1>1. promised' = [k \in Keys |-> IF k \in K THEN writes' ELSE promised[k]]
  BY DEF TypeOK
<1>2. QED
  BY <1>1 DEF Fresh!Next, Fresh!Change, clientVars

LEMMA FreshAnswer ==
  ASSUME TypeOK, NEW a \in Asking, NEW v \in Nat, v >= a.promised, v <= writes
  PROVE  Fresh!FreshFor(a, v)
BY DEF Fresh!FreshFor, Asking, TypeOK

LEMMA AskFresh ==
  ASSUME TypeOK, NEW r \in Requests, NEW k \in Keys, Asks(r, k)
  PROVE  /\ asked[r] = Fresh!NotAsked
         /\ asked' = [asked EXCEPT ![r] = [kind |-> "asked", key |-> k, promised |-> promised[k]]]
         /\ asked'[r] \in Asking /\ asked'[r].promised = promised[k] /\ asked'[r] # Fresh!NotAsked
         /\ answer[r] = None => answer[r] = Fresh!None
BY DEF Asks, TypeOK, NotAsked, Fresh!NotAsked, Asking, None, Fresh!None

LEMMA AnsweredFresh ==
  ASSUME ClientInv, NEW r \in Requests, NEW k \in Keys, NEW o \in Outcomes, Answered(r, k, o)
  PROVE  Fresh!Next
<1>1. TypeOK /\ UNCHANGED <<promised, writes>> /\ Asks(r, k)
      /\ answer' = [answer EXCEPT ![r] = o]
  BY DEF ClientInv, IInv, Answered, captainVars
<1>2. answer[r] = Fresh!None
  BY <1>1, AskFresh DEF ClientInv, WaitersInv, Asks
<1>3. \A x \in Requests : x # r => answer'[x] = answer[x]
  BY <1>1 DEF TypeOK
<1>4. \/ answer'[r].kind = "error"
      \/ answer'[r].kind = "patch" /\ Fresh!FreshFor(asked'[r], answer'[r].val)
  <2>1. answer'[r] = o
    BY <1>1 DEF TypeOK
  <2>2. CASE o = Failed
    BY <2>1, <2>2 DEF Failed
  <2>3. CASE cache[k] # None /\ o = cache[k]
    <3>1. o.kind = "patch" /\ o.val \in Nat
      BY <1>1, <2>3 DEF TypeOK
    <3>2. o.val >= promised[k] /\ o.val <= writes
      BY <2>3 DEF ClientInv, IInv, CacheSettled, Meets, Possible
    <3>3. asked'[r] \in Asking /\ asked'[r].promised = promised[k]
      BY <1>1, AskFresh
    <3>4. PICK a \in Asking : a = asked'[r]
      BY <3>3
    <3>5. Fresh!FreshFor(a, o.val)
      BY <1>1, <3>1, <3>2, <3>3, <3>4, FreshAnswer
    <3>6. QED
      BY <2>1, <3>1, <3>4, <3>5
  <2>4. QED
    BY <2>2, <2>3 DEF Answered
<1>5. asked'[r] # Fresh!NotAsked
  BY <1>1, AskFresh
<1>6. Fresh!AskOrAnswer
  BY <1>1, <1>2, <1>3, <1>4, <1>5, AskFresh DEF Fresh!AskOrAnswer
<1>7. QED
  BY <1>6 DEF Fresh!Next

LEMMA AskingFresh ==
  ASSUME TypeOK, NEW r \in Requests, NEW k \in Keys, JoinFlight(r, k) \/ StartFlight(r, k)
  PROVE  Fresh!Next
<1>1. UNCHANGED <<promised, writes, answer>> /\ Asks(r, k)
  BY DEF JoinFlight, StartFlight, captainVars
<1>2. Fresh!AskOrAnswer
  BY <1>1, AskFresh DEF Fresh!AskOrAnswer
<1>3. QED
  BY <1>2 DEF Fresh!Next

\* Those that wait have asked, and have no answer.
LEMMA WaitersHaveAsked ==
  ASSUME TypeOK, WaitersInv, NEW k \in Keys, NEW r \in WaitersOf(k)
  PROVE  r \in Requests /\ asked[r] \in Asking /\ answer[r] = Fresh!None
         /\ asked[r] # Fresh!NotAsked
<1>1. r \in Requests
  BY FlightTypes
<1>2. Waiting(r)
  BY <1>1 DEF WaitersInv, NoLostWaiter
<1>3. QED
  BY <1>1, <1>2 DEF Waiting, TypeOK, None, Fresh!None, NotAsked, Fresh!NotAsked

LEMMA EndsFresh ==
  ASSUME ClientInv, NEW k \in Keys, NEW o \in Outcomes, NEW F, Ends(k, o, F)
  PROVE  Fresh!Next
<1>1. TypeOK /\ WaitersInv /\ UNCHANGED <<promised, writes, asked>>
  BY DEF ClientInv, IInv, Ends
<1>2. \A r \in Requests :
        \/ answer'[r] = answer[r]
        \/ r \in WaitersOf(k) /\ answer'[r] = Failed
        \/ r \in flight[k].waiters /\ answer'[r] = o
  <2>1. CASE answer' = [r \in Requests |-> IF r \in flight[k].waiters THEN o ELSE answer[r]]
    BY <2>1
  <2>2. CASE answer' = [r \in Requests |-> IF r \in flight[k].waiters THEN o
                                           ELSE IF r \in flight[k].next THEN Failed
                                           ELSE answer[r]]
    BY <2>2 DEF WaitersOf
  <2>3. QED
    BY <1>1, <2>1, <2>2, EndsIs
<1>3. ASSUME NEW r \in flight[k].waiters, o # Failed
      PROVE  o.kind = "patch" /\ Fresh!FreshFor(asked'[r], o.val)
  <2>1. /\ Head(posted).type = "patch" /\ Head(posted).id = flight[k].id
        /\ o = Patch(Head(posted).val) /\ posted # <<>>
    BY <1>3 DEF Ends
  <2>2. Head(posted) = posted[1] /\ 1 \in 1 .. Len(posted)
    BY <1>1, <2>1, TailFacts DEF TypeOK
  <2>3. o.kind = "patch" /\ o.val = posted[1].val /\ o.val \in Nat
    BY <1>1, <2>1, <2>2, HeadFacts DEF Patch
  <2>4. ~Ended(1)
    BY DEF Ended
  <2>5. o.val >= asked[r].promised
    BY <2>1, <2>2, <2>3, <2>4 DEF ClientInv, OwedInv, IsShown
  <2>6. o.val <= writes
    BY <2>1, <2>2, <2>3 DEF ClientInv, Possible
  <2>7. r \in WaitersOf(k)
    BY DEF WaitersOf
  <2>8. PICK a \in Asking : a = asked[r] /\ a = asked'[r]
    BY <1>1, <2>7, WaitersHaveAsked
  <2>9. Fresh!FreshFor(a, o.val)
    BY <1>1, <2>3, <2>5, <2>6, <2>8, FreshAnswer
  <2>10. QED
    BY <2>3, <2>8, <2>9
<1>4. \A r \in WaitersOf(k) : answer[r] = Fresh!None /\ asked'[r] # Fresh!NotAsked
  BY <1>1, WaitersHaveAsked
<1>5. Failed.kind = "error" /\ flight[k].waiters \subseteq WaitersOf(k)
  BY DEF Failed, WaitersOf
<1>6. Fresh!AskOrAnswer
  BY <1>1, <1>2, <1>3, <1>4, <1>5 DEF Fresh!AskOrAnswer
<1>7. QED
  BY <1>6 DEF Fresh!Next

LEMMA DownFresh ==
  ASSUME ClientInv, SeeDown
  PROVE  Fresh!Next
<1>1. TypeOK /\ WaitersInv /\ UNCHANGED <<promised, writes, asked>>
      /\ \A r \in Requests : answer'[r] = IF r \in AllWaiters THEN Failed ELSE answer[r]
  BY DEF ClientInv, IInv, SeeDown, captainVars
<1>2. \A r \in AllWaiters : answer[r] = Fresh!None /\ asked'[r] # Fresh!NotAsked
  BY <1>1, WaitersHaveAsked DEF AllWaiters
<1>3. Failed.kind = "error"
  BY DEF Failed
<1>4. Fresh!AskOrAnswer
  BY <1>1, <1>2, <1>3 DEF Fresh!AskOrAnswer
<1>5. QED
  BY <1>4 DEF Fresh!Next

\* The end of a session takes promises back, and only those not kept.
LEMMA SessionEndsFresh ==
  ASSUME ClientInv, SessionEnds
  PROVE  Fresh!Next
<1>1. TypeOK /\ UNCHANGED <<writes, asked, answer>> /\ writes \in Nat
      /\ promised' = [k \in Keys |-> IF k \in SavedKeys /\ promised[k] <= stored[k]
                                     THEN promised[k] ELSE stored[k]]
  BY DEF ClientInv, IInv, TypeOK, SessionEnds, clientVars
<1>2. \A k \in Keys : /\ stored[k] \in 0 .. writes /\ promised[k] \in 0 .. writes
                      /\ k \notin SavedKeys => stored[k] <= promised[k]
  BY <1>1, LineValues DEF ClientInv, Numbered, Possible
<1>3. \A k \in Keys : promised'[k] \in 0 .. writes /\ promised'[k] <= promised[k]
  BY <1>1, <1>2
<1>4. promised' \in [Keys -> 0 .. writes]
  BY <1>1, <1>3
<1>5. QED
  BY <1>1, <1>3, <1>4 DEF Fresh!Next, Fresh!TakeBack

LEMMA FreshStep == ClientInv /\ [Next]_vars => [Fresh!Next]_Fresh!vars
<1> SUFFICES ASSUME ClientInv, [Next]_vars PROVE [Fresh!Next]_Fresh!vars
  OBVIOUS
<1>1. TypeOK /\ IdsGiven /\ TypeOK' /\ promised \in [Keys -> Nat]
  BY NextType DEF ClientInv, IInv, TypeOK
<1>2. UNCHANGED <<promised, writes, asked, answer>> => UNCHANGED Fresh!vars
  BY DEF Fresh!vars
<1>3. CASE UNCHANGED vars
  BY <1>2, <1>3 DEF vars, captainVars, clientVars
<1>4. ASSUME NEW S, NEW K \in SUBSET Keys, Write(S, K) PROVE Fresh!Next
  <2>1. /\ writes' = writes + 1 /\ UNCHANGED clientVars
        /\ \A k \in Keys : promised'[k] = IF k \in K THEN writes + 1 ELSE promised[k]
    BY <1>4 DEF Write, Forget
  <2>2. QED
    BY <1>1, <2>1, ChangeStep
<1>5. ASSUME NEW S, Sealing(S) PROVE Fresh!Next \/ UNCHANGED Fresh!vars
  <2>1. CASE writes' = writes
    BY <1>2, <1>5, <2>1 DEF Sealing, clientVars
  <2>2. CASE writes' = writes + 1
    <3>1. \A k \in Keys : promised'[k] = IF k \in {} THEN writes + 1 ELSE promised[k]
      BY <1>5 DEF Sealing
    <3>2. UNCHANGED clientVars
      BY <1>5 DEF Sealing
    <3>3. {} \in SUBSET Keys
      OBVIOUS
    <3>4. QED
      BY <1>1, <2>2, <3>1, <3>2, <3>3, ChangeStep
  <2>3. QED
    BY <1>5, <2>1, <2>2 DEF Sealing
<1>6. ASSUME NEW s, CloseSub(s) PROVE UNCHANGED Fresh!vars
  BY <1>2, <1>6 DEF CloseSub, captainVars, clientVars
<1>7. CASE DropReply
  BY <1>2, <1>7 DEF DropReply, captainVars, clientVars
<1>8. CASE OfTheLink
  <2>1. CASE SessionStarts \/ ExecuteRead \/ ExecuteWrite \/ \E l \in Locations : PedalSwitches(l)
    BY <1>2, <2>1
    DEF SessionStarts, ExecuteRead, ExecuteWrite, PedalSwitches, captainVars, clientVars
  <2>2. CASE SessionEnds
    BY <2>2, SessionEndsFresh
  <2>3. ASSUME NEW x \in Keys, SavesDraft(x) PROVE Fresh!Next
    <3>1. /\ writes' = writes + 1 /\ UNCHANGED clientVars
          /\ \A k \in Keys : promised'[k] = IF k \in {} THEN writes + 1 ELSE promised[k]
      BY <2>3 DEF SavesDraft
    <3>2. {} \in SUBSET Keys
      OBVIOUS
    <3>3. QED
      BY <1>1, <3>1, <3>2, ChangeStep
  <2>4. ASSUME NEW x \in Keys, EditedElsewhere(x) PROVE Fresh!Next
    <3>1. /\ writes' = writes + 1 /\ UNCHANGED clientVars
          /\ \A k \in Keys : promised'[k] = IF k \in {x} THEN writes + 1 ELSE promised[k]
      BY <1>1, <2>4 DEF EditedElsewhere
    <3>2. {x} \in SUBSET Keys
      OBVIOUS
    <3>3. QED
      BY <1>1, <3>1, <3>2, ChangeStep
  <2>5. QED
    BY <1>8, <2>1, <2>2, <2>3, <2>4 DEF OfTheLink
<1>9. CASE Next
  BY <1>1, <1>4, <1>5, <1>6, <1>7, <1>8, <1>9, StepKinds, AnsweredFresh, AskingFresh,
     EndsFresh, DownFresh
<1>10. QED
  BY <1>3, <1>9

\* HubReads implements FreshReads for any clients, keys, limits and sessions, however
\* late the loop runs: a request is answered at most once, by an error or by contents
\* no older than what was promised when it was made.
THEOREM ReadsAlwaysFresh == Spec => ReadsAreFresh
<1>1. Init => Fresh!Init
  BY DEF Init, Fresh!Init, None, NotAsked, Fresh!None, Fresh!NotAsked
<1>2. ClientInv /\ [Next]_vars => [Fresh!Next]_Fresh!vars
  BY FreshStep
<1>3. QED
  BY <1>1, <1>2, ClientsInductive, PTL DEF Spec, ReadsAreFresh, Fresh!Spec

=============================================================================
