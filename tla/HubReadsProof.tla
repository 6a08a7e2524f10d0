--------------------------- MODULE HubReadsProof ---------------------------
(***************************************************************************)
(* HubReads keeps its types, and the hub's patch cache is never stale, for *)
(* every number of clients, requests, keys, locations and sessions.        *)
(***************************************************************************)
EXTENDS HubReads, TLAPS

-----------------------------------------------------------------------------
(* Queues, lines and flights.                                              *)

LEMMA AppendFacts ==
  ASSUME NEW S, NEW s \in Seq(S), NEW e \in S
  PROVE  /\ Append(s, e) \in Seq(S)
         /\ Len(Append(s, e)) = Len(s) + 1
         /\ \A i \in 1 .. Len(s) : Append(s, e)[i] = s[i]
         /\ Append(s, e)[Len(s) + 1] = e
OBVIOUS

LEMMA TailFacts ==
  ASSUME NEW S, NEW s \in Seq(S), s # <<>>
  PROVE  /\ Len(s) \in Nat /\ Len(s) >= 1
         /\ Tail(s) \in Seq(S)
         /\ Len(Tail(s)) = Len(s) - 1
         /\ \A i \in 1 .. Len(s) - 1 : Tail(s)[i] = s[i + 1]
         /\ Head(s) = s[1]
         /\ Head(s) \in S
OBVIOUS

LEMMA LineTypes ==
  /\ \A i \in Nat, k \in Keys : ReadLine(i, k) \in Reads \cup Changes
  /\ \A K \in SUBSET Keys, n \in Nat : WriteLine(K, n) \in Reads \cup Changes
BY DEF ReadLine, WriteLine, Reads, Changes

LEMMA PostedTypes ==
  /\ \A i \in Nat, v \in Nat :
       [type |-> "patch", id |-> i, val |-> v] \in Replies \cup Notices
  /\ \A i \in Nat : [type |-> "error", id |-> i] \in Replies \cup Notices
  /\ \A l \in Locations :
       [type |-> "switched", loc |-> l] \in Replies \cup Notices
  /\ [type |-> "down"] \in Replies \cup Notices
BY DEF Replies, Notices

LEMMA OutcomeTypes ==
  /\ Failed \in Outcomes
  /\ \A v \in Nat : /\ Patch(v) \in Outcomes
                    /\ Patch(v) \in [kind : {"patch"}, val : Nat]
                    /\ Patch(v) # None
                    /\ Patch(v).val = v
BY DEF Outcomes, Failed, Patch, None

LEMMA OutType ==
  ASSUME NEW i \in Nat, NEW j \in 0 .. i, NEW W \in SUBSET Requests
  PROVE  Out(j, W) \in [id : 0 .. i, gate : {"open", "sealed"},
                        waiters : SUBSET Requests, next : SUBSET Requests]
BY DEF Out

\* The first callback, and the first line, by their types.
LEMMA HeadFacts ==
  ASSUME TypeOK
  PROVE  /\ posted # <<>> /\ Head(posted).type \in {"patch", "error"}
              => Head(posted).id \in Nat
         /\ posted # <<>> /\ Head(posted).type = "patch"
              => Head(posted).val \in Nat
         /\ wire # <<>> /\ Head(wire).type = "read"
              => Head(wire).id \in Nat /\ Head(wire).key \in Keys
         /\ wire # <<>> /\ Head(wire).type = "write"
              => Head(wire).n \in Nat /\ Head(wire).keys \in SUBSET Keys
<1>1. posted # <<>> => Head(posted) \in Replies \cup Notices
  BY TailFacts DEF TypeOK
<1>2. wire # <<>> => Head(wire) \in Reads \cup Changes
  BY TailFacts DEF TypeOK
<1>3. QED
  BY <1>1, <1>2 DEF Replies, Notices, Reads, Changes

-----------------------------------------------------------------------------
(* Types.                                                                  *)

LEMMA SealedType ==
  ASSUME TypeOK, NEW S
  PROVE  Sealed(flight, S) \in [Keys -> Flights]
<1>1. \A k \in Keys : flight[k] \in Flights
  BY DEF TypeOK
<1>2. \A f \in Flights : [f EXCEPT !.gate = "sealed"] \in Flights
  BY DEF Flights
<1>3. QED
  BY <1>1, <1>2 DEF Sealed

LEMMA FlightsGrow ==
  ASSUME TypeOK, seq' \in Nat, seq' >= seq
  PROVE  Flights \subseteq Flights'
<1>1. 0 .. seq \subseteq 0 .. seq'
  BY DEF TypeOK
<1>2. QED
  BY <1>1 DEF Flights

LEMMA AsksType ==
  ASSUME TypeOK, NEW r \in Requests, NEW k \in Keys, Asks(r, k)
  PROVE  asked' \in [Requests -> {NotAsked} \cup Asking]
BY RequestsAssumption DEF TypeOK, Asks, Asking

LEMMA FinishType ==
  ASSUME TypeOK, NEW k \in Keys, NEW outcome \in Outcomes, NEW done,
         Finish(k, outcome, done)
  PROVE  /\ seq' \in Nat
         /\ wire' \in Seq(Reads \cup Changes)
         /\ flight' \in [Keys -> Flights']
         /\ tracked' \subseteq 1 .. seq'
         /\ answer' \in [Requests -> {None} \cup Outcomes]
<1>1. seq' \in Nat
  BY DEF TypeOK, Finish, NextSeq
<1>2. wire' \in Seq(Reads \cup Changes)
  BY LineTypes DEF TypeOK, Finish, NextSeq
<1>3. flight' \in [Keys -> Flights']
  BY OutType DEF TypeOK, Finish, NextSeq, NoFlight, Flights
<1>4. tracked' \subseteq 1 .. seq'
  <2> DEFINE new == IF flight[k].next # {} /\ LinkAccepts THEN {seq + 1} ELSE {}
  <2>1. tracked' = (tracked \ done) \cup new
    BY DEF Finish
  <2>2. new \subseteq 1 .. seq' /\ seq <= seq'
    BY DEF TypeOK, Finish, NextSeq
  <2>3. tracked \subseteq 1 .. seq'
    BY <1>1, <2>2 DEF TypeOK
  <2>4. QED
    BY <2>1, <2>2, <2>3
<1>5. answer' \in [Requests -> {None} \cup Outcomes]
  BY OutcomeTypes DEF TypeOK, Finish
<1>6. QED
  BY <1>1, <1>2, <1>3, <1>4, <1>5

LEMMA StartType ==
  ASSUME TypeOK, NEW r \in Requests, NEW k \in Keys, StartFlight(r, k)
  PROVE  /\ seq' \in Nat
         /\ wire' \in Seq(Reads \cup Changes)
         /\ flight' \in [Keys -> Flights']
         /\ tracked' \subseteq 1 .. seq'
<1>1. seq' \in Nat /\ seq' = seq + 1
  BY DEF TypeOK, StartFlight, NextSeq
<1>2. wire' \in Seq(Reads \cup Changes)
  BY LineTypes DEF TypeOK, StartFlight
<1>3. flight' \in [Keys -> Flights']
  <2>1. Out(seq + 1, {r}) \in Flights'
    BY <1>1, OutType DEF Flights
  <2>2. flight \in [Keys -> Flights']
    BY <1>1, FlightsGrow DEF TypeOK
  <2>3. QED
    BY <2>1, <2>2 DEF StartFlight
<1>4. tracked' \subseteq 1 .. seq'
  BY <1>1 DEF TypeOK, StartFlight
<1>5. QED
  BY <1>1, <1>2, <1>3, <1>4

LEMMA ForgetType ==
  ASSUME TypeOK, NEW S \in SUBSET Locations, Forget(S)
  PROVE  /\ writes' \in Nat
         /\ cache' \in [Keys -> {None} \cup [kind : {"patch"}, val : Nat]]
         /\ flight' \in [Keys -> Flights']
BY SealedType DEF TypeOK, Forget, Flights

LEMMA InitType == Init => TypeOK
BY OutType, RequestsAssumption DEF Init, TypeOK, NoFlight, Flights

LEMMA NextType == TypeOK /\ [Next]_vars => TypeOK'
<1> SUFFICES ASSUME TypeOK, [Next]_vars PROVE TypeOK'
  OBVIOUS
<1>1. ASSUME NEW r \in Requests, NEW k \in Keys, AnswerAtOnce(r, k)
      PROVE  TypeOK'
  <2>1. cache[k] # None => cache[k] \in Outcomes
    BY DEF TypeOK, Outcomes
  <2>2. answer' \in [Requests -> {None} \cup Outcomes]
    BY <1>1, <2>1, OutcomeTypes DEF TypeOK, AnswerAtOnce
  <2>3. QED
    BY <1>1, <2>2, AsksType DEF TypeOK, AnswerAtOnce, Flights, captainVars, hubVars
<1>2. ASSUME NEW r \in Requests, NEW k \in Keys, JoinFlight(r, k)
      PROVE  TypeOK'
  <2>1. flight' \in [Keys -> Flights']
    <3>1. \A f \in Flights : /\ [f EXCEPT !.next = @ \cup {r}] \in Flights
                             /\ [f EXCEPT !.waiters = @ \cup {r}] \in Flights
      BY DEF Flights
    <3>2. flight' \in [Keys -> Flights]
      BY <1>2, <3>1 DEF TypeOK, JoinFlight
    <3>3. QED
      BY <1>2, <3>2 DEF JoinFlight, Flights
  <2>2. QED
    BY <1>2, <2>1, AsksType DEF TypeOK, JoinFlight, captainVars
<1>3. ASSUME NEW r \in Requests, NEW k \in Keys, StartFlight(r, k)
      PROVE  TypeOK'
  BY <1>3, StartType, AsksType DEF TypeOK, StartFlight
<1>4. ASSUME NEW r \in Requests, NEW k \in Keys, RefusedFlight(r, k)
      PROVE  TypeOK'
  <2>1. seq' \in Nat /\ seq' = seq + 1
    BY <1>4 DEF TypeOK, RefusedFlight, NextSeq
  <2>2. tracked' \subseteq 1 .. seq'
    BY <1>4, <2>1 DEF TypeOK, RefusedFlight
  <2>3. flight' \in [Keys -> Flights']
    BY <1>4, <2>1 DEF TypeOK, RefusedFlight, Flights
  <2>4. QED
    BY <1>4, <2>1, <2>2, <2>3, AsksType, OutcomeTypes
    DEF TypeOK, RefusedFlight, captainVars
<1>5. ASSUME NEW S \in SUBSET Locations, NEW K \in SUBSET Keys, Write(S, K)
      PROVE  TypeOK'
  <2>1. Forget(S)
    BY <1>5 DEF Write
  <2>2. wire' \in Seq(Reads \cup Changes)
    BY <1>5, LineTypes DEF TypeOK, Write
  <2>3. promised' \in [Keys -> Nat]
    BY <1>5 DEF TypeOK, Write, Forget
  <2>4. QED
    BY <2>1, <2>2, <2>3, ForgetType DEF TypeOK, Forget, clientVars
<1>6. ASSUME NEW S \in SUBSET Locations, RefusedWrite(S)
      PROVE  TypeOK'
  <2>1. promised' \in [Keys -> Nat]
    BY <1>6 DEF TypeOK, RefusedWrite, Forget
  <2>2. QED
    BY <1>6, <2>1, ForgetType DEF TypeOK, RefusedWrite, Forget, clientVars
<1>7. ASSUME NEW S, SwitchPatch(S)
      PROVE  TypeOK'
  BY <1>7, SealedType DEF TypeOK, SwitchPatch, Flights, captainVars, clientVars
<1>8. ASSUME NEW s \in Subs, CloseSub(s)
      PROVE  TypeOK'
  <2>1. seq' = seq /\ flight \in [Keys -> Flights]
    BY <1>8 DEF TypeOK, CloseSub
  <2>2. \A f \in Flights, W \in SUBSET Requests, N \in SUBSET Requests :
          [f EXCEPT !.waiters = W, !.next = N] \in Flights'
    BY <2>1 DEF Flights
  <2>3. flight' = [k \in Keys |-> [flight[k] EXCEPT !.waiters = {r \in @ : Owner[r] # s},
                                                   !.next = {r \in @ : Owner[r] # s}]]
    BY <1>8 DEF CloseSub
  <2>4. \A k \in Keys : flight[k].waiters \subseteq Requests /\ flight[k].next \subseteq Requests
    BY <2>1 DEF Flights
  <2>5. flight' \in [Keys -> Flights']
    BY <2>1, <2>2, <2>3, <2>4
  <2>6. QED
    BY <1>8, <2>5 DEF TypeOK, CloseSub, captainVars, clientVars
<1>9. ASSUME NEW k \in Keys, Timeout(k)
      PROVE  TypeOK'
  BY <1>9, FinishType, OutcomeTypes DEF TypeOK, Timeout
<1>10. CASE DropReply
  <2>1. posted' \in Seq(Replies \cup Notices)
    BY <1>10, TailFacts DEF TypeOK, DropReply, NextIs
  <2>2. tracked' \subseteq 1 .. seq'
    BY <1>10 DEF TypeOK, DropReply
  <2>3. flight' \in [Keys -> Flights']
    BY <1>10 DEF TypeOK, DropReply, Flights
  <2>4. QED
    BY <1>10, <2>1, <2>2, <2>3 DEF TypeOK, DropReply, captainVars, clientVars
<1>11. CASE TakePatch
  <2>1. Patch(Head(posted).val) \in Outcomes \cap [kind : {"patch"}, val : Nat]
    BY <1>11, HeadFacts, OutcomeTypes DEF TakePatch, NextIs
  <2>2. PICK k \in Keys :
          /\ cache' = IF Keepable(k)
                      THEN [cache EXCEPT ![k] = Patch(Head(posted).val)]
                      ELSE cache
          /\ Finish(k, Patch(Head(posted).val), {Head(posted).id})
    BY <1>11 DEF TakePatch, FlightOf
  <2>3. cache' \in [Keys -> {None} \cup [kind : {"patch"}, val : Nat]]
    BY <2>1, <2>2 DEF TypeOK
  <2>4. QED
    BY <1>11, <2>1, <2>2, <2>3, FinishType, TailFacts DEF TypeOK, TakePatch, NextIs
<1>12. CASE TakeError
  BY <1>12, TailFacts, FinishType, OutcomeTypes
  DEF TypeOK, TakeError, NextIs, FlightOf
<1>13. CASE SeePatchSwitched
  BY <1>13, TailFacts, SealedType
  DEF TypeOK, SeePatchSwitched, NextIs, Flights, captainVars, clientVars
<1>14. CASE SeeDown
  BY <1>14, TailFacts, OutType, OutcomeTypes
  DEF TypeOK, SeeDown, NextIs, NoFlight, Flights, captainVars
<1>15. CASE SessionStarts
  BY <1>15 DEF TypeOK, SessionStarts, Flights, hubVars, clientVars
<1>16. CASE SessionEnds
  <2>1. promised' \in [Keys -> Nat]
    BY <1>16 DEF TypeOK, SessionEnds
  <2>2. QED
    BY <1>16, <2>1, PostedTypes DEF TypeOK, SessionEnds, Flights, hubVars, clientVars
<1>17. CASE ExecuteRead
  <2>1. posted' \in Seq(Replies \cup Notices)
    <3>1. stored[Head(wire).key] \in Nat /\ Head(wire).id \in Nat
      BY <1>17, HeadFacts DEF TypeOK, ExecuteRead
    <3>2. QED
      <4> DEFINE i == Head(wire).id
                 v == stored[Head(wire).key]
      <4>1. /\ [type |-> "patch", id |-> i, val |-> v] \in Replies \cup Notices
            /\ [type |-> "error", id |-> i] \in Replies \cup Notices
        BY <3>1, PostedTypes
      <4>2. \/ posted' = Append(posted, [type |-> "patch", id |-> i, val |-> v])
            \/ posted' = Append(posted, [type |-> "error", id |-> i])
        BY <1>17 DEF ExecuteRead
      <4>3. posted \in Seq(Replies \cup Notices)
        BY DEF TypeOK
      <4> HIDE DEF i, v
      <4>4. QED
        BY <4>1, <4>2, <4>3
  <2>2. QED
    BY <1>17, <2>1, TailFacts DEF TypeOK, ExecuteRead, Flights, hubVars, clientVars
<1>18. CASE ExecuteWrite
  BY <1>18, TailFacts, HeadFacts
  DEF TypeOK, ExecuteWrite, Flights, hubVars, clientVars
<1>19. ASSUME NEW l \in Locations, PedalSwitches(l)
       PROVE  TypeOK'
  BY <1>19, PostedTypes
  DEF TypeOK, PedalSwitches, Flights, captainVars, hubVars, clientVars
<1>20. ASSUME NEW k \in Keys, EditedElsewhere(k)
       PROVE  TypeOK'
  <2>1. promised' \in [Keys -> Nat] /\ stored' \in [Keys -> Nat]
    BY <1>20 DEF TypeOK, EditedElsewhere
  <2>2. QED
    BY <1>20, <2>1 DEF TypeOK, EditedElsewhere, Flights, hubVars, clientVars
<1>24. ASSUME NEW k \in Keys, SavesDraft(k)
       PROVE  TypeOK'
  <2>1. promised' \in [Keys -> Nat] /\ stored' \in [Keys -> Nat]
    BY <1>24 DEF TypeOK, SavesDraft
  <2>2. QED
    BY <1>24, <2>1 DEF TypeOK, SavesDraft, Flights, hubVars, clientVars
<1>21. CASE UNCHANGED vars
  BY <1>21 DEF TypeOK, Flights, vars, captainVars, hubVars, clientVars
<1>22. \A S \in Selections : S \in SUBSET Locations
  BY DEF Selections
<1>23. QED
  BY <1>1, <1>2, <1>3, <1>4, <1>5, <1>6, <1>7, <1>8, <1>9, <1>10, <1>11, <1>12,
     <1>13, <1>14, <1>15, <1>16, <1>17, <1>18, <1>19, <1>20, <1>21, <1>22, <1>24
  DEF Next, ClientStep, Dispatch, CaptainStep

\* Every variable keeps its type, and no id the hub gives away is above the
\* counter it takes them from.
THEOREM TypeCorrect == Spec => []TypeOK
BY InitType, NextType, PTL DEF Spec

-----------------------------------------------------------------------------
(* Every change under way or stored has been numbered.                     *)

Numbered ==
  /\ \A k \in Keys : stored[k] <= writes /\ promised[k] <= writes
  /\ \A i \in 1 .. Len(wire) : wire[i].type = "write" => wire[i].n <= writes

\* A step that changes nothing stored, and at most sends a read.
LEMMA QuietNumbers ==
  ASSUME TypeOK, Numbered, writes' \in Nat, writes' >= writes,
         UNCHANGED <<stored, promised>>,
         \/ wire' = wire
         \/ \E i \in Nat, k \in Keys : wire' = Append(wire, ReadLine(i, k))
  PROVE  Numbered'
<1>1. \A i \in 1 .. Len(wire') : wire'[i].type = "write" =>
        i \in 1 .. Len(wire) /\ wire'[i] = wire[i]
  <2>1. CASE wire' = wire
    BY <2>1
  <2>2. ASSUME NEW i \in Nat, NEW k \in Keys, wire' = Append(wire, ReadLine(i, k))
        PROVE  \A j \in 1 .. Len(wire') : wire'[j].type = "write" =>
                 j \in 1 .. Len(wire) /\ wire'[j] = wire[j]
    <3>1. /\ Len(wire) \in Nat /\ Len(wire') = Len(wire) + 1
          /\ \A j \in 1 .. Len(wire) : wire'[j] = wire[j]
          /\ wire'[Len(wire) + 1] = ReadLine(i, k)
      BY <2>2, LineTypes, AppendFacts DEF TypeOK
    <3>2. wire'[Len(wire) + 1].type # "write"
      BY <3>1 DEF ReadLine
    <3>3. QED
      BY <3>1, <3>2
  <2>3. QED
    BY <2>1, <2>2
<1>2. \A i \in 1 .. Len(wire) : wire[i].type = "write" => wire[i].n \in Nat
  <2>1. \A i \in 1 .. Len(wire) : wire[i] \in Reads \cup Changes
    BY DEF TypeOK
  <2>2. QED
    BY <2>1 DEF Reads, Changes
<1>3. \A k \in Keys : stored[k] \in Nat /\ promised[k] \in Nat
  BY DEF TypeOK
<1>4. writes \in Nat
  BY DEF TypeOK
<1>5. QED
  BY <1>1, <1>2, <1>3, <1>4 DEF Numbered

LEMMA FinishNumbers ==
  ASSUME TypeOK, Numbered, NEW k \in Keys, NEW outcome, NEW done, Finish(k, outcome, done),
         UNCHANGED <<stored, promised, writes>>
  PROVE  Numbered'
<1>1. seq + 1 \in Nat /\ writes \in Nat
  BY DEF TypeOK
<1>2. wire' = wire \/ wire' = Append(wire, ReadLine(seq + 1, k))
  BY DEF Finish
<1>3. QED
  BY <1>1, <1>2, QuietNumbers

LEMMA WriteNumbers ==
  ASSUME TypeOK, Numbered, NEW S, NEW K \in SUBSET Keys, Write(S, K)
  PROVE  Numbered'
<1>1. /\ writes \in Nat /\ writes' = writes + 1 /\ stored' = stored
      /\ promised' = [k \in Keys |-> IF k \in K THEN writes + 1 ELSE promised[k]]
      /\ stored \in [Keys -> Nat] /\ promised \in [Keys -> Nat]
  BY DEF TypeOK, Write, Forget
<1>2. /\ Len(wire) \in Nat /\ Len(wire') = Len(wire) + 1
      /\ \A j \in 1 .. Len(wire) : wire'[j] = wire[j] /\ wire[j] \in Reads \cup Changes
      /\ wire'[Len(wire) + 1] = WriteLine(K, writes + 1)
  BY <1>1, LineTypes, AppendFacts DEF TypeOK, Write
<1>3. \A k \in Keys : stored'[k] <= writes' /\ promised'[k] <= writes'
  BY <1>1 DEF Numbered
<1>4. \A j \in 1 .. Len(wire) : wire[j].type = "write" => wire[j].n <= writes + 1
  BY <1>1, <1>2 DEF Numbered, Reads, Changes
<1>5. \A i \in 1 .. Len(wire') : wire'[i].type = "write" => wire'[i].n <= writes'
  <2>1. Len(wire') = Len(wire) + 1 /\ writes' = writes + 1 /\ Len(wire) \in Nat
    BY <1>1, <1>2
  <2>2. wire'[Len(wire) + 1].n = writes + 1
    BY <1>2 DEF WriteLine
  <2>3. SUFFICES ASSUME NEW i \in 1 .. Len(wire) + 1, wire'[i].type = "write"
                 PROVE  wire'[i].n <= writes + 1
    BY <2>1
  <2>4. CASE i = Len(wire) + 1
    BY <1>1, <2>2, <2>4
  <2>5. CASE i # Len(wire) + 1
    <3>1. i \in 1 .. Len(wire)
      BY <2>1, <2>5
    <3>2. QED
      BY <1>2, <1>4, <2>3, <3>1
  <2>6. QED
    BY <2>4, <2>5
<1>6. QED
  BY <1>3, <1>5 DEF Numbered

LEMMA ExecuteNumbers ==
  ASSUME TypeOK, Numbered, ExecuteRead \/ ExecuteWrite
  PROVE  Numbered'
<1>1. /\ wire # <<>> /\ wire' = Tail(wire)
      /\ promised' = promised /\ writes' = writes
      /\ stored' = stored \/ (/\ Head(wire).type = "write"
                              /\ stored' = [k \in Keys |-> IF k \in Head(wire).keys
                                               THEN Head(wire).n ELSE stored[k]])
  BY DEF ExecuteRead, ExecuteWrite
<1>2. /\ Len(wire) \in Nat /\ Len(wire) >= 1 /\ Len(wire') = Len(wire) - 1
      /\ \A i \in 1 .. Len(wire) - 1 : wire'[i] = wire[i + 1]
      /\ Head(wire) = wire[1]
  BY <1>1, TailFacts DEF TypeOK
<1>3. 1 \in 1 .. Len(wire)
  BY <1>2
<1>4. \A k \in Keys : stored'[k] <= writes' /\ promised'[k] <= writes'
  BY <1>1, <1>2, <1>3 DEF Numbered
<1>5. \A i \in 1 .. Len(wire') : i + 1 \in 1 .. Len(wire) /\ wire'[i] = wire[i + 1]
  BY <1>2
<1>6. QED
  BY <1>1, <1>4, <1>5 DEF Numbered

LEMMA NextNumbers == TypeOK /\ TypeOK' /\ Numbered /\ [Next]_vars => Numbered'
<1> SUFFICES ASSUME TypeOK, TypeOK', Numbered, [Next]_vars PROVE Numbered'
  OBVIOUS
<1>1. /\ writes \in Nat /\ seq + 1 \in Nat
      /\ stored \in [Keys -> Nat] /\ promised \in [Keys -> Nat]
  BY DEF TypeOK
<1>2. UNCHANGED <<wire, stored, promised, writes>> => Numbered'
  BY <1>1, QuietNumbers
<1>3. ASSUME NEW r \in Requests, NEW k \in Keys,
             AnswerAtOnce(r, k) \/ JoinFlight(r, k) \/ RefusedFlight(r, k)
      PROVE  Numbered'
  BY <1>2, <1>3 DEF AnswerAtOnce, JoinFlight, RefusedFlight, captainVars
<1>4. ASSUME NEW r \in Requests, NEW k \in Keys, StartFlight(r, k)
      PROVE  Numbered'
  BY <1>1, <1>4, QuietNumbers DEF StartFlight
<1>5. ASSUME NEW S, NEW K \in SUBSET Keys, Write(S, K)
      PROVE  Numbered'
  BY <1>5, WriteNumbers
<1>6. ASSUME NEW S, RefusedWrite(S)
      PROVE  Numbered'
  <2>1. writes' \in Nat /\ writes' >= writes /\ UNCHANGED <<wire, stored, promised>>
    BY <1>1, <1>6 DEF RefusedWrite, Forget
  <2>2. QED
    BY <2>1, QuietNumbers
<1>7. ASSUME NEW S, SwitchPatch(S)
      PROVE  Numbered'
  BY <1>2, <1>7 DEF SwitchPatch, captainVars
<1>8. ASSUME NEW s \in Subs, CloseSub(s)
      PROVE  Numbered'
  BY <1>2, <1>8 DEF CloseSub, captainVars
<1>9. ASSUME NEW k \in Keys, Timeout(k)
      PROVE  Numbered'
  BY <1>9, FinishNumbers DEF Timeout
<1>10. CASE DropReply \/ SeePatchSwitched \/ SeeDown
  BY <1>2, <1>10 DEF DropReply, SeePatchSwitched, SeeDown, captainVars
<1>11. CASE TakePatch
  <2>1. PICK k \in Keys : Finish(k, Patch(Head(posted).val), {Head(posted).id})
    BY <1>11 DEF TakePatch, FlightOf
  <2>2. QED
    BY <1>11, <2>1, FinishNumbers DEF TakePatch
<1>12. CASE TakeError
  <2>1. PICK k \in Keys : Finish(k, Failed, {Head(posted).id})
    BY <1>12 DEF TakeError, FlightOf
  <2>2. QED
    BY <1>12, <2>1, FinishNumbers DEF TakeError
<1>13. CASE SessionStarts
  BY <1>2, <1>13 DEF SessionStarts
<1>14. CASE SessionEnds
  BY <1>1, <1>14 DEF SessionEnds, Numbered
<1>15. CASE ExecuteRead \/ ExecuteWrite
  BY <1>15, ExecuteNumbers
<1>16. ASSUME NEW l, PedalSwitches(l)
       PROVE  Numbered'
  BY <1>2, <1>16 DEF PedalSwitches, captainVars
<1>17. ASSUME NEW k \in Keys, SavesDraft(k) \/ EditedElsewhere(k)
       PROVE  Numbered'
  <2>1. /\ writes' = writes + 1 /\ wire' = wire
        /\ \A x \in Keys : /\ stored'[x] \in {stored[x], writes + 1}
                           /\ promised'[x] \in {promised[x], writes + 1}
    BY <1>1, <1>17 DEF SavesDraft, EditedElsewhere
  <2>2. \A i \in 1 .. Len(wire) : wire[i].type = "write" => wire[i].n \in Nat
    <3>1. \A i \in 1 .. Len(wire) : wire[i] \in Reads \cup Changes
      BY DEF TypeOK
    <3>2. QED
      BY <3>1 DEF Reads, Changes
  <2>3. \A k2 \in Keys : /\ stored[k2] \in Nat /\ promised[k2] \in Nat
                         /\ stored[k2] <= writes /\ promised[k2] <= writes
    BY DEF TypeOK, Numbered
  <2>4. \A x \in Keys : stored'[x] <= writes' /\ promised'[x] <= writes'
    BY <1>1, <2>1, <2>3
  <2>5. \A i \in 1 .. Len(wire') : wire'[i].type = "write" => wire'[i].n <= writes'
    BY <1>1, <2>1, <2>2 DEF Numbered
  <2>6. QED
    BY <2>4, <2>5 DEF Numbered
<1>18. CASE UNCHANGED vars
  BY <1>2, <1>18 DEF vars, captainVars
<1>19. QED
  BY <1>3, <1>4, <1>5, <1>6, <1>7, <1>8, <1>9, <1>10, <1>11, <1>12, <1>13, <1>14,
     <1>15, <1>16, <1>17, <1>18
  DEF Next, ClientStep, Dispatch, CaptainStep

LEMMA AlwaysNumbered == Spec => []Numbered
<1>1. Init => Numbered
  BY DEF Init, Numbered
<1>2. QED
  BY <1>1, NextNumbers, TypeCorrect, PTL DEF Spec

-----------------------------------------------------------------------------
(* The cache is never stale.  CacheFresh is not inductive: it says nothing *)
(* of the reads and replies under way, from which the cache is filled.     *)

WritesTo(line, k) == line.type = "write" /\ k \in line.keys

\* No change to k is under way.
Settled(k) == \A i \in 1 .. Len(wire) : ~WritesTo(wire[i], k)

\* v is what was promised for k, or what was saved there since.
Meets(k, v) == v >= promised[k] /\ (k \notin SavedKeys => v = promised[k])

IdsGiven ==
  /\ \A i \in 1 .. Len(wire) :
       wire[i].type = "read" => wire[i].id \in 1 .. seq
  /\ \A i \in 1 .. Len(posted) :
       posted[i].type \in {"patch", "error"} => posted[i].id \in 1 .. seq

FlightIdsDiffer ==
  \A k1, k2 \in Keys :
    flight[k1].id = flight[k2].id /\ flight[k1].id # 0 => k1 = k2

ReadsHaveKeys ==
  \A i \in 1 .. Len(wire), k \in Keys :
    wire[i].type = "read" /\ wire[i].id = flight[k].id => wire[i].key = k

\* The last change under way is the one promised.
PromiseKept ==
  \A k \in Keys :
    /\ Settled(k) => Meets(k, stored[k])
    /\ \A i \in 1 .. Len(wire) :
         WritesTo(wire[i], k) /\ (\A j \in i + 1 .. Len(wire) : ~WritesTo(wire[j], k))
           => wire[i].n = promised[k]

CacheSettled ==
  \A k \in Keys :
    cache[k] # None => Settled(k) /\ Meets(k, cache[k].val)

\* A read whose flight is not sealed comes after every change to its key.
OpenReadIsLast ==
  \A i, j \in 1 .. Len(wire), k \in Keys :
    wire[i].type = "read" /\ wire[i].id = flight[k].id /\ Keepable(k) /\ i < j
      => ~WritesTo(wire[j], k)

OpenReplyIsFresh ==
  \A i \in 1 .. Len(posted), k \in Keys :
    posted[i].type = "patch" /\ posted[i].id = flight[k].id /\ Keepable(k)
      => Settled(k) /\ Meets(k, posted[i].val)

Idle == \A k \in Keys : cache[k] = None /\ flight[k].id = 0

EndOfSessionPosted == \E i \in 1 .. Len(posted) : posted[i].type = "down"

\* Without a session nothing is under way, and once the loop knows, nothing is kept.
DownIsEmpty ==
  ~connected => wire = <<>> /\ (EndOfSessionPosted \/ Idle)

IInv ==
  /\ TypeOK
  /\ IdsGiven
  /\ FlightIdsDiffer
  /\ ReadsHaveKeys
  /\ PromiseKept
  /\ CacheSettled
  /\ OpenReadIsLast
  /\ OpenReplyIsFresh
  /\ DownIsEmpty

\* What a step may do to the flights without sending a read, to the cache, and to
\* the callbacks.
FewerFlights ==
  \A k \in Keys :
    /\ flight'[k].id \in {flight[k].id, 0}
    /\ flight'[k].id # 0 /\ flight'[k].gate = "open" => flight[k].gate = "open"

CacheGrowsFresh ==
  \A k \in Keys :
    cache'[k] # None =>
      /\ Settled(k) /\ Meets(k, cache'[k].val)
      /\ cache[k] # None \/ flight[k].id # 0

PostedShrinks ==
  \/ posted' = posted
  \/ posted # <<>> /\ Head(posted).type # "down" /\ posted' = Tail(posted)

LEMMA ShrinkFacts ==
  ASSUME TypeOK, PostedShrinks
  PROVE  /\ \A i \in 1 .. Len(posted') : \E j \in 1 .. Len(posted) : posted'[i] = posted[j]
         /\ EndOfSessionPosted => EndOfSessionPosted'
<1>1. CASE posted' = posted
  BY <1>1 DEF EndOfSessionPosted
<1>2. CASE posted # <<>> /\ Head(posted).type # "down" /\ posted' = Tail(posted)
  <2>1. /\ Len(posted') = Len(posted) - 1 /\ Len(posted) \in Nat
        /\ \A i \in 1 .. Len(posted) - 1 : posted'[i] = posted[i + 1]
        /\ posted[1].type # "down"
    BY <1>2, TailFacts DEF TypeOK
  <2>2. \A i \in 1 .. Len(posted') : posted'[i] = posted[i + 1] /\ i + 1 \in 1 .. Len(posted)
    BY <2>1
  <2>3. ASSUME NEW i \in 1 .. Len(posted), posted[i].type = "down"
        PROVE  EndOfSessionPosted'
    <3>1. i - 1 \in 1 .. Len(posted') /\ posted'[i - 1] = posted[i]
      BY <2>1, <2>3
    <3>2. QED
      BY <2>3, <3>1 DEF EndOfSessionPosted
  <2>4. QED
    BY <2>2, <2>3 DEF EndOfSessionPosted
<1>3. QED
  BY <1>1, <1>2 DEF PostedShrinks

\* A step that sends nothing and starts no flight.
LEMMA QuietStep ==
  ASSUME IInv, TypeOK', seq' >= seq, FewerFlights, CacheGrowsFresh, PostedShrinks,
         UNCHANGED <<wire, stored, promised, link>>
  PROVE  IInv'
<1>1. /\ seq \in Nat /\ seq' \in Nat /\ wire' = wire /\ promised' = promised
      /\ stored' = stored
  BY DEF IInv, TypeOK
<1>2. \A i \in 1 .. Len(posted') : \E j \in 1 .. Len(posted) : posted'[i] = posted[j]
  BY ShrinkFacts DEF IInv
<1>3. \A l : Settled(l)' <=> Settled(l)
  BY <1>1 DEF Settled, WritesTo
<1>4. \A k \in Keys : Keepable(k)' /\ flight'[k].id # 0
                        => Keepable(k) /\ flight'[k].id = flight[k].id
  BY DEF FewerFlights, Keepable
<1>5. IdsGiven'
  <2>1. 1 .. seq \subseteq 1 .. seq'
    BY <1>1
  <2>2. QED
    BY <1>1, <1>2, <2>1 DEF IInv, IdsGiven
<1>6. FlightIdsDiffer'
  BY DEF IInv, FlightIdsDiffer, FewerFlights
<1>7. \A i \in 1 .. Len(wire) : wire[i].type = "read" => wire[i].id # 0
  BY <1>1 DEF IInv, IdsGiven
<1>8. ReadsHaveKeys'
  BY <1>1, <1>7 DEF IInv, ReadsHaveKeys, FewerFlights
<1>9. PromiseKept'
  BY <1>1, <1>3 DEF IInv, PromiseKept, WritesTo, Meets
<1>10. CacheSettled'
  BY <1>1, <1>3 DEF CacheSettled, CacheGrowsFresh, Meets
<1>11. OpenReadIsLast'
  BY <1>1, <1>4, <1>7 DEF IInv, OpenReadIsLast, WritesTo
<1>12. \A j \in 1 .. Len(posted) : posted[j].type = "patch" => posted[j].id # 0
  BY <1>1 DEF IInv, IdsGiven
<1>13. OpenReplyIsFresh'
  BY <1>1, <1>2, <1>3, <1>4, <1>12 DEF IInv, OpenReplyIsFresh, Meets
<1>14. DownIsEmpty'
  <2>1. Idle => Idle'
    BY DEF Idle, FewerFlights, CacheGrowsFresh
  <2>2. QED
    BY <1>1, <2>1, ShrinkFacts DEF IInv, DownIsEmpty, connected
<1>15. QED
  BY <1>5, <1>6, <1>8, <1>9, <1>10, <1>11, <1>13, <1>14 DEF IInv

\* A step that sends a new read for key k.
LEMMA ReadStep ==
  ASSUME IInv, TypeOK', NEW k \in Keys, NEW W, seq' = seq + 1, connected,
         flight' = [flight EXCEPT ![k] = Out(seq + 1, W)],
         wire' = Append(wire, ReadLine(seq + 1, k)),
         CacheGrowsFresh, PostedShrinks, UNCHANGED <<stored, promised, link>>
  PROVE  IInv'
<1> DEFINE last == Len(wire) + 1
<1>1. /\ seq \in Nat /\ seq' = seq + 1 /\ promised' = promised /\ stored' = stored
      /\ Len(wire) \in Nat
  BY DEF IInv, TypeOK
<1>2. /\ Len(wire') = last
      /\ \A i \in 1 .. Len(wire) : wire'[i] = wire[i]
      /\ wire'[last] = ReadLine(seq + 1, k)
  BY <1>1, LineTypes, AppendFacts DEF IInv, TypeOK
<1>3. /\ wire'[last].type = "read" /\ wire'[last].id = seq + 1 /\ wire'[last].key = k
      /\ \A l : ~WritesTo(wire'[last], l)
  BY <1>2 DEF ReadLine, WritesTo
<1>4. 1 .. Len(wire') = 1 .. Len(wire) \cup {last}
  BY <1>1, <1>2
<1>5. \A i \in 1 .. Len(posted') : \E j \in 1 .. Len(posted) : posted'[i] = posted[j]
  BY ShrinkFacts DEF IInv
<1>6. \A l : Settled(l)' <=> Settled(l)
  BY <1>2, <1>3, <1>4 DEF Settled, WritesTo
<1>7. /\ flight'[k].id = seq + 1
      /\ \A x \in Keys : x # k => flight'[x] = flight[x]
      /\ \A x \in Keys : flight[x].id \in 0 .. seq
  BY DEF IInv, TypeOK, Out, Flights
<1>8. IdsGiven'
  <2>1. 1 .. seq \subseteq 1 .. seq' /\ seq + 1 \in 1 .. seq'
    BY <1>1
  <2>2. \A i \in 1 .. Len(wire') : wire'[i].type = "read" => wire'[i].id \in 1 .. seq'
    BY <1>2, <1>3, <1>4, <2>1 DEF IInv, IdsGiven
  <2>3. \A i \in 1 .. Len(posted') :
          posted'[i].type \in {"patch", "error"} => posted'[i].id \in 1 .. seq'
    BY <1>5, <2>1 DEF IInv, IdsGiven
  <2>4. QED
    BY <2>2, <2>3 DEF IdsGiven
<1>9. FlightIdsDiffer'
  BY <1>1, <1>7 DEF IInv, FlightIdsDiffer
<1>10. /\ \A i \in 1 .. Len(wire) : wire[i].type = "read" => wire[i].id # seq + 1
       /\ \A i \in 1 .. Len(posted) :
            posted[i].type \in {"patch", "error"} => posted[i].id # seq + 1
  BY <1>1 DEF IInv, IdsGiven
<1>11. ReadsHaveKeys'
  BY <1>1, <1>2, <1>3, <1>4, <1>7, <1>10 DEF IInv, ReadsHaveKeys
<1>12. PromiseKept'
  <2>1. \A l \in Keys : Settled(l)' => Meets(l, stored[l])'
    BY <1>1, <1>6 DEF IInv, PromiseKept, Meets
  <2>2. ASSUME NEW l \in Keys, NEW i \in 1 .. Len(wire'), WritesTo(wire'[i], l),
               \A j \in i + 1 .. Len(wire') : ~WritesTo(wire'[j], l)
        PROVE  wire'[i].n = promised'[l]
    <3>1. i \in 1 .. Len(wire) /\ wire'[i] = wire[i]
      BY <1>2, <1>3, <1>4, <2>2
    <3>2. \A j \in i + 1 .. Len(wire) : j \in i + 1 .. Len(wire') /\ wire'[j] = wire[j]
      BY <1>1, <1>2, <3>1
    <3>3. QED
      BY <1>1, <2>2, <3>1, <3>2 DEF IInv, PromiseKept
  <2>3. QED
    BY <2>1, <2>2 DEF PromiseKept, WritesTo
<1>13. CacheSettled'
  BY <1>1, <1>6 DEF CacheSettled, CacheGrowsFresh, Meets
<1>14. OpenReadIsLast'
  <2>1. SUFFICES ASSUME NEW i \in 1 .. Len(wire'), NEW j \in 1 .. Len(wire'), NEW x \in Keys,
                        wire'[i].type = "read", wire'[i].id = flight'[x].id,
                        flight'[x].gate = "open", i < j
                 PROVE  ~WritesTo(wire'[j], x)
    BY DEF OpenReadIsLast, WritesTo, Keepable
  <2>2. CASE j = last
    BY <1>3, <2>2
  <2>3. CASE j # last
    <3>1. i \in 1 .. Len(wire) /\ j \in 1 .. Len(wire)
      BY <1>1, <1>2, <2>1, <2>3
    <3>2. x # k
      BY <1>2, <1>7, <1>10, <2>1, <3>1
    <3>3. QED
      BY <1>2, <1>7, <2>1, <3>1, <3>2 DEF IInv, OpenReadIsLast, Keepable
  <2>4. QED
    BY <2>2, <2>3
<1>15. OpenReplyIsFresh'
  <2>1. SUFFICES ASSUME NEW i \in 1 .. Len(posted'), NEW x \in Keys,
                        posted'[i].type = "patch", posted'[i].id = flight'[x].id,
                        flight'[x].gate = "open"
                 PROVE  Settled(x)' /\ Meets(x, posted[i].val)'
    BY DEF OpenReplyIsFresh, Keepable
  <2>2. PICK j \in 1 .. Len(posted) : posted'[i] = posted[j]
    BY <1>5, <2>1
  <2>3. x # k
    BY <1>7, <1>10, <2>1, <2>2
  <2>4. QED
    BY <1>1, <1>6, <1>7, <2>1, <2>2, <2>3 DEF IInv, OpenReplyIsFresh, Keepable, Meets
<1>16. DownIsEmpty'
  BY DEF DownIsEmpty, connected
<1>17. QED
  BY <1>8, <1>9, <1>11, <1>12, <1>13, <1>14, <1>15, <1>16 DEF IInv

\* A generation that ends: either its flight is gone, or it sent a read.
LEMMA FinishStep ==
  ASSUME IInv, TypeOK', NEW k \in Keys, NEW outcome, NEW done, InFlight(k),
         Finish(k, outcome, done), CacheGrowsFresh, PostedShrinks,
         UNCHANGED <<stored, promised, link>>
  PROVE  IInv'
<1>1. CASE flight[k].next # {} /\ LinkAccepts
  <2>1. /\ seq' = seq + 1 /\ connected
        /\ flight' = [flight EXCEPT ![k] = Out(seq + 1, flight[k].next)]
        /\ wire' = Append(wire, ReadLine(seq + 1, k))
    BY <1>1 DEF Finish, NextSeq, LinkAccepts
  <2>2. QED
    BY <2>1, ReadStep
<1>2. CASE ~(flight[k].next # {} /\ LinkAccepts)
  <2>1. flight' = [flight EXCEPT ![k] = NoFlight] /\ wire' = wire
    BY <1>2 DEF Finish
  <2>2. seq' >= seq
    BY DEF Finish, NextSeq, IInv, TypeOK
  <2>3. FewerFlights
    BY <2>1 DEF FewerFlights, NoFlight, Out, IInv, TypeOK
  <2>4. QED
    BY <2>1, <2>2, <2>3, QuietStep
<1>3. QED
  BY <1>1, <1>2

LEMMA KeptCache == IInv /\ UNCHANGED cache => CacheGrowsFresh
BY DEF IInv, CacheSettled, CacheGrowsFresh

LEMMA SealingIsQuiet ==
  ASSUME TypeOK, NEW S, flight' = Sealed(flight, S)
  PROVE  FewerFlights
<1>1. \A k \in Keys : flight[k] \in Flights
  BY DEF TypeOK
<1>2. \A f \in Flights : [f EXCEPT !.gate = "sealed"].id = f.id
                         /\ [f EXCEPT !.gate = "sealed"].gate = "sealed"
  BY DEF Flights
<1>3. QED
  BY <1>1, <1>2 DEF FewerFlights, Sealed

LEMMA QuietStepSameCache ==
  ASSUME IInv, TypeOK', seq' >= seq, FewerFlights, UNCHANGED cache, PostedShrinks,
         UNCHANGED <<wire, stored, promised, link>>
  PROVE  IInv'
BY KeptCache, QuietStep

LEMMA WriteStep ==
  ASSUME IInv, TypeOK', NEW S \in SUBSET Locations, NEW K \in SUBSET Keys, Write(S, K)
  PROVE  IInv'
<1> DEFINE last == Len(wire) + 1
           n == writes + 1
<1>1. /\ seq \in Nat /\ seq' = seq /\ stored' = stored /\ posted' = posted
      /\ link' = link /\ connected /\ Len(wire) \in Nat
      /\ flight' = Sealed(flight, S)
      /\ promised' = [k \in Keys |-> IF k \in K THEN n ELSE promised[k]]
      /\ \A k \in K : LocOf[k] \in S
      /\ cache' = [k \in Keys |-> IF LocOf[k] \in S THEN None ELSE cache[k]]
  BY DEF IInv, TypeOK, Write, Forget, LinkAccepts, KeysAt
<1>2. /\ Len(wire') = last
      /\ \A i \in 1 .. Len(wire) : wire'[i] = wire[i]
      /\ wire'[last] = WriteLine(K, n)
  BY <1>1, LineTypes, AppendFacts DEF IInv, TypeOK, Write
<1>3. /\ wire'[last].type = "write" /\ wire'[last].n = n
      /\ \A l : WritesTo(wire'[last], l) <=> l \in K
  BY <1>2 DEF WriteLine, WritesTo
<1>4. 1 .. Len(wire') = 1 .. Len(wire) \cup {last}
  BY <1>1, <1>2
<1>5. \A l : Settled(l)' <=> Settled(l) /\ l \notin K
  BY <1>2, <1>3, <1>4 DEF Settled, WritesTo
<1>6. \A l \in Keys : l \notin K => promised'[l] = promised[l]
                               /\ (\A v : Meets(l, v)' <=> Meets(l, v))
  BY <1>1 DEF Meets
<1>7. FewerFlights
  BY <1>1, SealingIsQuiet DEF IInv
<1>8. \A k \in Keys : Keepable(k)' /\ flight'[k].id # 0
                        => /\ Keepable(k) /\ flight'[k].id = flight[k].id
                           /\ LocOf[k] \notin S
  <2>1. \A k \in Keys : flight[k] \in Flights
    BY DEF IInv, TypeOK
  <2>2. \A f \in Flights : [f EXCEPT !.gate = "sealed"].gate = "sealed"
    BY DEF Flights
  <2>3. QED
    BY <1>1, <1>7, <2>1, <2>2 DEF Sealed, FewerFlights, Keepable
<1>9. \A k \in Keys : LocOf[k] \notin S => k \notin K
  BY <1>1
<1>10. IdsGiven'
  BY <1>1, <1>2, <1>3, <1>4 DEF IInv, IdsGiven
<1>11. FlightIdsDiffer'
  BY <1>7 DEF IInv, FlightIdsDiffer, FewerFlights
<1>12. \A i \in 1 .. Len(wire) : wire[i].type = "read" => wire[i].id # 0
  BY <1>1 DEF IInv, IdsGiven
<1>13. ReadsHaveKeys'
  BY <1>2, <1>3, <1>4, <1>7, <1>12 DEF IInv, ReadsHaveKeys, FewerFlights
<1>14. PromiseKept'
  <2>1. \A l \in Keys : Settled(l)' => Meets(l, stored[l])'
    BY <1>1, <1>5, <1>6 DEF IInv, PromiseKept
  <2>2. ASSUME NEW l \in Keys, NEW i \in 1 .. Len(wire'), WritesTo(wire'[i], l),
               \A j \in i + 1 .. Len(wire') : ~WritesTo(wire'[j], l)
        PROVE  wire'[i].n = promised'[l]
    <3>1. CASE i = last
      BY <1>1, <1>3, <2>2, <3>1
    <3>2. CASE i # last
      <4>1. i \in 1 .. Len(wire) /\ wire'[i] = wire[i] /\ last \in i + 1 .. Len(wire')
        BY <1>1, <1>2, <1>4, <2>2, <3>2
      <4>2. l \notin K
        BY <1>3, <2>2, <4>1
      <4>3. \A j \in i + 1 .. Len(wire) : j \in i + 1 .. Len(wire') /\ wire'[j] = wire[j]
        BY <1>1, <1>2, <4>1
      <4>4. QED
        BY <1>6, <2>2, <4>1, <4>2, <4>3 DEF IInv, PromiseKept
    <3>3. QED
      BY <3>1, <3>2
  <2>3. QED
    BY <2>1, <2>2 DEF PromiseKept, WritesTo
<1>15. CacheSettled'
  BY <1>1, <1>5, <1>6, <1>9 DEF IInv, CacheSettled
<1>16. OpenReadIsLast'
  <2>1. SUFFICES ASSUME NEW i \in 1 .. Len(wire'), NEW j \in 1 .. Len(wire'), NEW x \in Keys,
                        wire'[i].type = "read", wire'[i].id = flight'[x].id,
                        Keepable(x)', i < j
                 PROVE  ~WritesTo(wire'[j], x)
    BY DEF OpenReadIsLast, WritesTo
  <2>2. i \in 1 .. Len(wire) /\ wire'[i] = wire[i]
    BY <1>2, <1>3, <1>4, <2>1
  <2>3. Keepable(x) /\ flight'[x].id = flight[x].id /\ LocOf[x] \notin S
    BY <1>8, <1>12, <2>1, <2>2
  <2>4. CASE j = last
    BY <1>3, <1>9, <2>3, <2>4
  <2>5. CASE j # last
    BY <1>2, <1>4, <2>1, <2>2, <2>3, <2>5 DEF IInv, OpenReadIsLast
  <2>6. QED
    BY <2>4, <2>5
<1>17. OpenReplyIsFresh'
  <2>1. \A j \in 1 .. Len(posted) : posted[j].type = "patch" => posted[j].id # 0
    BY <1>1 DEF IInv, IdsGiven
  <2>2. QED
    BY <1>1, <1>5, <1>6, <1>8, <1>9, <2>1 DEF IInv, OpenReplyIsFresh
<1>18. DownIsEmpty'
  BY <1>1 DEF DownIsEmpty, connected
<1>19. QED
  BY <1>10, <1>11, <1>13, <1>14, <1>15, <1>16, <1>17, <1>18 DEF IInv

\* A callback that the link thread or the Captain adds.
LEMMA PostStep ==
  ASSUME IInv, TypeOK', NEW e \in Replies \cup Notices, posted' = Append(posted, e),
         e.type = "patch" => \A k \in Keys :
           e.id = flight[k].id /\ Keepable(k)
             => Settled(k)' /\ e.val >= promised'[k] /\ (k \notin SavedKeys => e.val = promised'[k]),
         e.type \in {"patch", "error"} => e.id \in 1 .. seq,
         UNCHANGED <<flight, seq>>,
         \A k \in Keys : Settled(k) => Settled(k)' /\ promised'[k] = promised[k]
  PROVE  /\ OpenReplyIsFresh'
         /\ EndOfSessionPosted => EndOfSessionPosted'
         /\ e.type = "down" => EndOfSessionPosted'
         /\ \A i \in 1 .. Len(posted') :
              posted'[i].type \in {"patch", "error"} => posted'[i].id \in 1 .. seq'
<1> DEFINE last == Len(posted) + 1
<1>1. /\ Len(posted) \in Nat /\ Len(posted') = last
      /\ \A i \in 1 .. Len(posted) : posted'[i] = posted[i]
      /\ posted'[last] = e
  BY AppendFacts DEF IInv, TypeOK
<1>2. 1 .. Len(posted') = 1 .. Len(posted) \cup {last}
  BY <1>1
<1>3. OpenReplyIsFresh'
  BY <1>1, <1>2 DEF IInv, OpenReplyIsFresh, Keepable, Meets
<1>4. \A i \in 1 .. Len(posted') :
        posted'[i].type \in {"patch", "error"} => posted'[i].id \in 1 .. seq'
  BY <1>1, <1>2 DEF IInv, IdsGiven
<1>5. EndOfSessionPosted => EndOfSessionPosted'
  BY <1>1, <1>2 DEF EndOfSessionPosted
<1>6. e.type = "down" => EndOfSessionPosted'
  BY <1>1, <1>2 DEF EndOfSessionPosted
<1>7. QED
  BY <1>3, <1>4, <1>5, <1>6

LEMMA SessionEndsStep == IInv /\ TypeOK' /\ SessionEnds => IInv'
<1> SUFFICES ASSUME IInv, TypeOK', SessionEnds PROVE IInv'
  OBVIOUS
<1>1. /\ wire' = <<>> /\ stored' = stored /\ flight' = flight
      /\ promised' = [k \in Keys |-> IF k \in SavedKeys /\ promised[k] <= stored[k]
                                     THEN promised[k] ELSE stored[k]]
      /\ seq' = seq /\ cache' = cache /\ posted' = Append(posted, [type |-> "down"])
  BY DEF SessionEnds, hubVars
<1>2. \A l : Settled(l)'
  BY <1>1 DEF Settled
<1>3. \A k \in Keys : Settled(k) => promised'[k] = promised[k]
  BY <1>1 DEF IInv, PromiseKept, Meets
<1>4. /\ OpenReplyIsFresh'
      /\ EndOfSessionPosted'
      /\ \A i \in 1 .. Len(posted') :
           posted'[i].type \in {"patch", "error"} => posted'[i].id \in 1 .. seq'
  BY <1>1, <1>2, <1>3, PostStep, PostedTypes
<1>5. IdsGiven' /\ ReadsHaveKeys' /\ OpenReadIsLast'
  BY <1>1, <1>4 DEF IdsGiven, ReadsHaveKeys, OpenReadIsLast
<1>6. PromiseKept'
  <2>1. \A k \in Keys : Meets(k, stored[k])'
    BY <1>1 DEF IInv, TypeOK, Meets
  <2>2. QED
    BY <1>1, <2>1 DEF PromiseKept
<1>7. CacheSettled'
  BY <1>1, <1>2, <1>3 DEF IInv, CacheSettled, Meets
<1>8. FlightIdsDiffer'
  BY <1>1 DEF IInv, FlightIdsDiffer
<1>9. DownIsEmpty'
  BY <1>1, <1>4 DEF DownIsEmpty
<1>10. QED
  BY <1>4, <1>5, <1>6, <1>7, <1>8, <1>9 DEF IInv

\* The lines that are left once the Captain has taken the first.
LEMMA TailOfWire ==
  ASSUME TypeOK, wire # <<>>, wire' = Tail(wire)
  PROVE  /\ Len(wire) \in Nat /\ 1 \in 1 .. Len(wire) /\ Head(wire) = wire[1]
         /\ Len(wire') = Len(wire) - 1
         /\ \A i \in 1 .. Len(wire') : i + 1 \in 1 .. Len(wire) /\ wire'[i] = wire[i + 1]
         /\ \A l : Settled(l)' /\ ~WritesTo(wire[1], l) => Settled(l)
         /\ \A l : Settled(l) => Settled(l)'
<1>1. /\ Len(wire) \in Nat /\ 1 \in 1 .. Len(wire) /\ Head(wire) = wire[1]
      /\ Len(wire') = Len(wire) - 1
      /\ \A i \in 1 .. Len(wire') : i + 1 \in 1 .. Len(wire) /\ wire'[i] = wire[i + 1]
  BY TailFacts DEF TypeOK
<1>2. ASSUME NEW l, Settled(l)', ~WritesTo(wire[1], l), NEW i \in 1 .. Len(wire)
      PROVE  ~WritesTo(wire[i], l)
  <2>1. CASE i = 1
    BY <1>2, <2>1
  <2>2. CASE i # 1
    <3>1. i - 1 \in 1 .. Len(wire') /\ wire'[i - 1] = wire[i]
      BY <1>1, <2>2
    <3>2. QED
      BY <1>2, <3>1 DEF Settled, WritesTo
  <2>3. QED
    BY <2>1, <2>2
<1>3. \A l : Settled(l) => Settled(l)'
  BY <1>1 DEF Settled, WritesTo
<1>4. QED
  BY <1>1, <1>2, <1>3 DEF Settled

\* Taking the first line leaves in order what is said of the others.
LEMMA TailOrder ==
  ASSUME IInv, wire # <<>>, wire' = Tail(wire), UNCHANGED <<flight, seq>>
  PROVE  /\ ReadsHaveKeys'
         /\ OpenReadIsLast'
         /\ \A i \in 1 .. Len(wire') : wire'[i].type = "read" => wire'[i].id \in 1 .. seq'
<1>1. /\ Len(wire) \in Nat
      /\ Len(wire') = Len(wire) - 1
      /\ \A i \in 1 .. Len(wire') : i + 1 \in 1 .. Len(wire) /\ wire'[i] = wire[i + 1]
  BY TailOfWire DEF IInv
<1>2. ReadsHaveKeys'
  BY <1>1 DEF IInv, ReadsHaveKeys
<1>3. OpenReadIsLast'
  <2>1. SUFFICES ASSUME NEW i \in 1 .. Len(wire'), NEW j \in 1 .. Len(wire'), NEW k \in Keys,
                        wire'[i].type = "read", wire'[i].id = flight'[k].id,
                        Keepable(k)', i < j
                 PROVE  ~WritesTo(wire'[j], k)
    BY DEF OpenReadIsLast, WritesTo
  <2>2. /\ i + 1 \in 1 .. Len(wire) /\ j + 1 \in 1 .. Len(wire) /\ i + 1 < j + 1
        /\ wire'[i] = wire[i + 1] /\ wire'[j] = wire[j + 1]
    BY <1>1, <2>1
  <2>3. QED
    BY <2>1, <2>2 DEF IInv, OpenReadIsLast, Keepable
<1>4. \A i \in 1 .. Len(wire') : wire'[i].type = "read" => wire'[i].id \in 1 .. seq'
  BY <1>1 DEF IInv, IdsGiven
<1>5. QED
  BY <1>2, <1>3, <1>4

\* Nor does it change which is the last change under way.
LEMMA TailPromise ==
  ASSUME IInv, wire # <<>>, wire' = Tail(wire), UNCHANGED promised
  PROVE  \A l \in Keys : \A i \in 1 .. Len(wire') :
           WritesTo(wire'[i], l) /\ (\A j \in i + 1 .. Len(wire') : ~WritesTo(wire'[j], l))
             => wire'[i].n = promised'[l]
<1>1. /\ Len(wire) \in Nat
      /\ Len(wire') = Len(wire) - 1
      /\ \A i \in 1 .. Len(wire') : i + 1 \in 1 .. Len(wire) /\ wire'[i] = wire[i + 1]
  BY TailOfWire DEF IInv
<1>2. SUFFICES ASSUME NEW l \in Keys, NEW i \in 1 .. Len(wire'),
                      WritesTo(wire'[i], l),
                      \A j \in i + 1 .. Len(wire') : ~WritesTo(wire'[j], l)
               PROVE  wire'[i].n = promised'[l]
  OBVIOUS
<1>3. \A j \in (i + 1) + 1 .. Len(wire) :
        j - 1 \in i + 1 .. Len(wire') /\ wire'[j - 1] = wire[j]
  BY <1>1
<1>4. i + 1 \in 1 .. Len(wire) /\ wire'[i] = wire[i + 1]
  BY <1>1
<1>5. QED
  BY <1>2, <1>3, <1>4 DEF IInv, PromiseKept

LEMMA ExecuteReadStep == IInv /\ TypeOK' /\ ExecuteRead => IInv'
<1> SUFFICES ASSUME IInv, TypeOK', ExecuteRead PROVE IInv'
  OBVIOUS
<1>1. /\ wire # <<>> /\ wire' = Tail(wire) /\ wire[1].type = "read"
      /\ promised' = promised /\ stored' = stored /\ flight' = flight
      /\ seq' = seq /\ cache' = cache /\ link' = link
      /\ wire[1].id \in 1 .. seq /\ wire[1].key \in Keys
  BY TailOfWire, HeadFacts DEF ExecuteRead, hubVars, IInv, IdsGiven
<1> DEFINE v == stored[wire[1].key]
           good == [type |-> "patch", id |-> wire[1].id, val |-> v]
           bad == [type |-> "error", id |-> wire[1].id]
<1>2. posted' = Append(posted, good) \/ posted' = Append(posted, bad)
  BY <1>1, TailOfWire DEF ExecuteRead, IInv
<1>3. v \in Nat /\ wire[1].id \in Nat
  BY <1>1, RequestsAssumption DEF IInv, TypeOK
<1>4. good \in Replies \cup Notices /\ bad \in Replies \cup Notices
  BY <1>3, PostedTypes
<1>5. \A l : Settled(l)' <=> Settled(l)
  BY <1>1, TailOfWire DEF IInv, WritesTo
<1>6. ASSUME NEW k \in Keys, wire[1].id = flight[k].id, Keepable(k)
      PROVE  Settled(k)' /\ Meets(k, v)
  <2>1. wire[1].key = k /\ 1 \in 1 .. Len(wire) /\ Len(wire) \in Nat
    BY <1>1, <1>6, TailOfWire DEF IInv, ReadsHaveKeys
  <2>2. \A j \in 1 .. Len(wire) : j = 1 \/ 1 < j
    BY <2>1
  <2>3. Settled(k)
    BY <1>1, <1>6, <2>1, <2>2 DEF IInv, OpenReadIsLast, Settled, WritesTo
  <2>4. QED
    BY <1>1, <1>5, <2>1, <2>3 DEF IInv, PromiseKept, Meets
<1>7. /\ OpenReplyIsFresh'
      /\ EndOfSessionPosted => EndOfSessionPosted'
      /\ \A i \in 1 .. Len(posted') :
           posted'[i].type \in {"patch", "error"} => posted'[i].id \in 1 .. seq'
  <2>1. good.type = "patch" /\ good.id = wire[1].id /\ good.val = v
        /\ bad.type = "error" /\ bad.id = wire[1].id
    OBVIOUS
  <2>2. \A k \in Keys : wire[1].id = flight[k].id /\ Keepable(k)
                        => /\ Settled(k)' /\ good.val >= promised'[k]
                           /\ k \notin SavedKeys => good.val = promised'[k]
    BY <1>1, <1>6, <2>1 DEF Meets
  <2> HIDE DEF good, bad, v
  <2>3. QED
    BY <1>1, <1>2, <1>4, <1>5, <2>1, <2>2, PostStep
<1>8. ReadsHaveKeys' /\ OpenReadIsLast' /\ IdsGiven'
  BY <1>1, <1>7, TailOrder DEF IdsGiven
<1>9. PromiseKept'
  BY <1>1, <1>5, TailPromise DEF IInv, PromiseKept, WritesTo, Meets
<1>10. CacheSettled'
  BY <1>1, <1>5 DEF IInv, CacheSettled, Meets
<1>11. FlightIdsDiffer'
  BY <1>1 DEF IInv, FlightIdsDiffer
<1>12. DownIsEmpty'
  BY <1>1 DEF IInv, DownIsEmpty, connected
<1>13. QED
  BY <1>7, <1>8, <1>9, <1>10, <1>11, <1>12 DEF IInv

LEMMA ExecuteWriteStep == IInv /\ TypeOK' /\ ExecuteWrite => IInv'
<1> SUFFICES ASSUME IInv, TypeOK', ExecuteWrite PROVE IInv'
  OBVIOUS
<1>1. /\ wire # <<>> /\ wire' = Tail(wire) /\ wire[1].type = "write"
      /\ stored' = [k \in Keys |-> IF k \in wire[1].keys THEN wire[1].n ELSE stored[k]]
      /\ promised' = promised /\ flight' = flight /\ posted' = posted
      /\ seq' = seq /\ cache' = cache /\ link' = link
  BY TailOfWire DEF ExecuteWrite, hubVars, IInv
<1>2. \A l : Settled(l) => Settled(l)'
  BY <1>1, TailOfWire DEF IInv
<1>3. ASSUME NEW l \in Keys, Settled(l)'
      PROVE  Meets(l, stored[l])'
  <2>1. CASE l \in wire[1].keys
    <3>1. /\ 1 \in 1 .. Len(wire) /\ Len(wire) \in Nat /\ Len(wire') = Len(wire) - 1
          /\ \A i \in 1 .. Len(wire') : wire'[i] = wire[i + 1]
      BY <1>1, TailOfWire DEF IInv
    <3>2. \A j \in 1 + 1 .. Len(wire) : j - 1 \in 1 .. Len(wire') /\ wire'[j - 1] = wire[j]
      BY <3>1
    <3>3. \A j \in 1 + 1 .. Len(wire) : ~WritesTo(wire[j], l)
      BY <1>3, <3>2 DEF Settled, WritesTo
    <3>4. wire[1].n = promised[l]
      BY <1>1, <2>1, <3>1, <3>3 DEF IInv, PromiseKept, WritesTo
    <3>5. QED
      BY <1>1, <2>1, <3>4 DEF IInv, TypeOK, Meets
  <2>2. CASE l \notin wire[1].keys
    <3>1. Settled(l)
      BY <1>1, <1>3, <2>2, TailOfWire DEF IInv, WritesTo
    <3>2. QED
      BY <1>1, <2>2, <3>1 DEF IInv, PromiseKept, Meets
  <2>3. QED
    BY <2>1, <2>2
<1>4. PromiseKept'
  BY <1>1, <1>3, TailPromise DEF PromiseKept, WritesTo
<1>5. ReadsHaveKeys' /\ OpenReadIsLast' /\ IdsGiven'
  BY <1>1, TailOrder DEF IInv, IdsGiven
<1>6. CacheSettled'
  BY <1>1, <1>2 DEF IInv, CacheSettled, Meets
<1>7. OpenReplyIsFresh'
  BY <1>1, <1>2 DEF IInv, OpenReplyIsFresh, Keepable, Meets
<1>8. FlightIdsDiffer'
  BY <1>1 DEF IInv, FlightIdsDiffer
<1>9. DownIsEmpty'
  BY <1>1 DEF IInv, DownIsEmpty, connected
<1>10. QED
  BY <1>4, <1>5, <1>6, <1>7, <1>8, <1>9 DEF IInv

LEMMA PedalStep ==
  ASSUME IInv, TypeOK', NEW l \in Locations, PedalSwitches(l)
  PROVE  IInv'
<1>1. /\ posted' = Append(posted, [type |-> "switched", loc |-> l]) /\ connected
      /\ wire' = wire /\ promised' = promised /\ stored' = stored /\ flight' = flight
      /\ seq' = seq /\ cache' = cache /\ link' = link
  BY DEF PedalSwitches, captainVars, hubVars
<1>2. \A x : Settled(x)' <=> Settled(x)
  BY <1>1 DEF Settled, WritesTo
<1>3. /\ OpenReplyIsFresh'
      /\ \A i \in 1 .. Len(posted') :
           posted'[i].type \in {"patch", "error"} => posted'[i].id \in 1 .. seq'
  BY <1>1, <1>2, PostStep, PostedTypes
<1>4. IdsGiven' /\ ReadsHaveKeys' /\ OpenReadIsLast' /\ FlightIdsDiffer'
  BY <1>1, <1>3
  DEF IInv, IdsGiven, ReadsHaveKeys, OpenReadIsLast, FlightIdsDiffer, Keepable, WritesTo
<1>5. PromiseKept' /\ CacheSettled'
  BY <1>1, <1>2 DEF IInv, PromiseKept, CacheSettled, WritesTo, Meets
<1>6. DownIsEmpty'
  BY <1>1 DEF DownIsEmpty, connected
<1>7. QED
  BY <1>3, <1>4, <1>5, <1>6 DEF IInv

LEMMA EditedStep ==
  ASSUME IInv, TypeOK', NEW k \in Keys, EditedElsewhere(k)
  PROVE  IInv'
<1>1. /\ ~connected /\ posted = <<>> /\ posted' = posted
      /\ promised' = [promised EXCEPT ![k] = writes + 1]
      /\ stored' = [stored EXCEPT ![k] = writes + 1]
      /\ wire' = wire /\ flight' = flight /\ seq' = seq /\ cache' = cache /\ link' = link
  BY DEF EditedElsewhere, hubVars
<1>2. wire = <<>> /\ Idle
  BY <1>1 DEF IInv, DownIsEmpty, EndOfSessionPosted
<1>3. PromiseKept'
  <2>1. \A x : Settled(x)
    BY <1>2 DEF Settled
  <2>2. \A x \in Keys : Meets(x, stored[x])'
    BY <1>1, <2>1 DEF IInv, TypeOK, PromiseKept, Meets
  <2>3. QED
    BY <1>1, <1>2, <2>2 DEF PromiseKept
<1>4. IdsGiven' /\ ReadsHaveKeys' /\ OpenReadIsLast' /\ OpenReplyIsFresh'
  BY <1>1, <1>2 DEF IdsGiven, ReadsHaveKeys, OpenReadIsLast, OpenReplyIsFresh
<1>5. FlightIdsDiffer' /\ CacheSettled' /\ DownIsEmpty'
  BY <1>1, <1>2 DEF FlightIdsDiffer, CacheSettled, DownIsEmpty, Idle, connected
<1>6. QED
  BY <1>3, <1>4, <1>5 DEF IInv

\* A save only makes what is stored newer.
LEMMA SavesStep ==
  ASSUME IInv, Numbered, TypeOK', NEW k \in Keys, SavesDraft(k)
  PROVE  IInv'
<1>1. /\ k \in SavedKeys /\ stored' = [stored EXCEPT ![k] = writes + 1]
      /\ promised' = promised /\ posted' = posted /\ wire' = wire /\ flight' = flight
      /\ seq' = seq /\ cache' = cache /\ link' = link
  BY DEF SavesDraft, hubVars
<1>2. \A x : Settled(x)' <=> Settled(x)
  BY <1>1 DEF Settled, WritesTo
<1>3. \A x, v : Meets(x, v)' <=> Meets(x, v)
  BY <1>1 DEF Meets
<1>4. PromiseKept'
  <2>1. \A x \in Keys : Settled(x) => Meets(x, stored[x])'
    <3>1. \A x \in Keys : x # k => stored'[x] = stored[x]
      BY <1>1 DEF IInv, TypeOK
    <3>2. Meets(k, stored[k])'
      BY <1>1 DEF IInv, TypeOK, Meets, Numbered
    <3>3. QED
      BY <1>1, <3>1, <3>2 DEF IInv, PromiseKept, Meets
  <2>2. QED
    BY <1>1, <1>2, <2>1 DEF IInv, PromiseKept, WritesTo
<1>5. IdsGiven' /\ ReadsHaveKeys' /\ OpenReadIsLast' /\ FlightIdsDiffer'
  BY <1>1
  DEF IInv, IdsGiven, ReadsHaveKeys, OpenReadIsLast, FlightIdsDiffer, Keepable, WritesTo
<1>6. CacheSettled' /\ OpenReplyIsFresh'
  BY <1>1, <1>2 DEF IInv, CacheSettled, OpenReplyIsFresh, Keepable, Meets
<1>7. DownIsEmpty'
  BY <1>1 DEF IInv, DownIsEmpty, EndOfSessionPosted, Idle, connected
<1>8. QED
  BY <1>4, <1>5, <1>6, <1>7 DEF IInv

LEMMA SeeDownStep == IInv /\ TypeOK' /\ SeeDown => IInv'
<1> SUFFICES ASSUME IInv, TypeOK', SeeDown PROVE IInv'
  OBVIOUS
<1>1. /\ posted # <<>> /\ posted' = Tail(posted) /\ wire' = wire /\ promised' = promised
      /\ stored' = stored /\ seq' = seq /\ link' = link
      /\ \A k \in Keys : flight'[k].id = 0 /\ cache'[k] = None
  BY DEF SeeDown, NextIs, captainVars, NoFlight, Out
<1>2. /\ Len(posted) \in Nat
      /\ Len(posted') = Len(posted) - 1
      /\ \A i \in 1 .. Len(posted') : i + 1 \in 1 .. Len(posted) /\ posted'[i] = posted[i + 1]
  BY <1>1, TailFacts DEF IInv, TypeOK
<1>3. IdsGiven'
  BY <1>1, <1>2 DEF IInv, IdsGiven
<1>4. 0 \notin 1 .. seq
  OBVIOUS
<1>5. ReadsHaveKeys' /\ OpenReadIsLast' /\ OpenReplyIsFresh'
  BY <1>1, <1>3, <1>4 DEF IdsGiven, ReadsHaveKeys, OpenReadIsLast, OpenReplyIsFresh
<1>6. \A l : Settled(l)' <=> Settled(l)
  BY <1>1 DEF Settled, WritesTo
<1>7. PromiseKept'
  BY <1>1, <1>6 DEF IInv, PromiseKept, WritesTo, Meets
<1>8. FlightIdsDiffer' /\ CacheSettled'
  BY <1>1 DEF FlightIdsDiffer, CacheSettled
<1>9. DownIsEmpty'
  BY <1>1 DEF IInv, DownIsEmpty, Idle, connected
<1>10. QED
  BY <1>3, <1>5, <1>7, <1>8, <1>9 DEF IInv

LEMMA InitInv == Init => IInv
<1> SUFFICES ASSUME Init PROVE IInv
  OBVIOUS
<1>1. TypeOK
  BY InitType
<1>2. wire = <<>> /\ posted = <<>> /\ promised = stored /\ stored \in [Keys -> Nat]
      /\ \A k \in Keys : cache[k] = None /\ flight[k].id = 0
  BY DEF Init, NoFlight, Out
<1>3. QED
  BY <1>1, <1>2
  DEF IInv, Meets, IdsGiven, FlightIdsDiffer, ReadsHaveKeys, PromiseKept, CacheSettled,
      OpenReadIsLast, OpenReplyIsFresh, DownIsEmpty, Idle

LEMMA NextInv == IInv /\ Numbered /\ [Next]_vars => IInv'
<1> SUFFICES ASSUME IInv, Numbered, [Next]_vars PROVE IInv'
  OBVIOUS
<1>1. TypeOK' /\ TypeOK
  BY NextType DEF IInv
<1>2. seq \in Nat /\ posted \in Seq(Replies \cup Notices) /\ flight \in [Keys -> Flights]
      /\ cache \in [Keys -> {None} \cup [kind : {"patch"}, val : Nat]]
  BY <1>1 DEF TypeOK
<1>3. UNCHANGED flight => FewerFlights
  BY DEF FewerFlights
<1>4. UNCHANGED posted => PostedShrinks
  BY DEF PostedShrinks
<1>5. ASSUME NEW r \in Requests, NEW k \in Keys, AnswerAtOnce(r, k)
      PROVE  IInv'
  BY <1>1, <1>2, <1>3, <1>4, <1>5, QuietStepSameCache
  DEF AnswerAtOnce, captainVars, hubVars
<1>6. ASSUME NEW r \in Requests, NEW k \in Keys, JoinFlight(r, k)
      PROVE  IInv'
  <2>1. \A f \in Flights : /\ [f EXCEPT !.next = @ \cup {r}].id = f.id
                           /\ [f EXCEPT !.next = @ \cup {r}].gate = f.gate
                           /\ [f EXCEPT !.waiters = @ \cup {r}].id = f.id
                           /\ [f EXCEPT !.waiters = @ \cup {r}].gate = f.gate
    BY DEF Flights
  <2>2. FewerFlights
    BY <1>2, <1>6, <2>1 DEF FewerFlights, JoinFlight
  <2>3. QED
    BY <1>1, <1>2, <1>4, <1>6, <2>2, QuietStepSameCache DEF JoinFlight, captainVars
<1>7. ASSUME NEW r \in Requests, NEW k \in Keys, StartFlight(r, k)
      PROVE  IInv'
  BY <1>1, <1>4, <1>7, KeptCache, ReadStep DEF StartFlight, NextSeq, LinkAccepts
<1>8. ASSUME NEW r \in Requests, NEW k \in Keys, RefusedFlight(r, k)
      PROVE  IInv'
  <2>1. seq' >= seq
    BY <1>2, <1>8 DEF RefusedFlight, NextSeq
  <2>2. QED
    BY <1>1, <1>3, <1>4, <1>8, <2>1, QuietStepSameCache DEF RefusedFlight, captainVars
<1>9. ASSUME NEW S \in SUBSET Locations, NEW K \in SUBSET Keys, Write(S, K)
      PROVE  IInv'
  BY <1>1, <1>9, WriteStep
<1>10. ASSUME NEW S \in SUBSET Locations, RefusedWrite(S)
       PROVE  IInv'
  <2>1. /\ UNCHANGED <<wire, stored, promised, link, posted, seq>>
        /\ flight' = Sealed(flight, S)
        /\ cache' = [k \in Keys |-> IF LocOf[k] \in S THEN None ELSE cache[k]]
    BY <1>10 DEF RefusedWrite, Forget
  <2>2. FewerFlights
    BY <1>1, <2>1, SealingIsQuiet
  <2>3. CacheGrowsFresh
    BY <2>1 DEF CacheGrowsFresh, IInv, CacheSettled
  <2>4. QED
    BY <1>1, <1>2, <1>4, <2>1, <2>2, <2>3, QuietStep
<1>11. ASSUME NEW S, SwitchPatch(S)
       PROVE  IInv'
  BY <1>1, <1>2, <1>4, <1>11, SealingIsQuiet, QuietStepSameCache
  DEF SwitchPatch, captainVars
<1>12. ASSUME NEW s \in Subs, CloseSub(s)
       PROVE  IInv'
  <2>1. FewerFlights
    <3>1. \A f \in Flights :
            LET g == [f EXCEPT !.waiters = {r \in @ : Owner[r] # s},
                               !.next = {r \in @ : Owner[r] # s}]
            IN  g.id = f.id /\ g.gate = f.gate
      BY DEF Flights
    <3>2. QED
      BY <1>2, <1>12, <3>1 DEF FewerFlights, CloseSub
  <2>2. UNCHANGED <<wire, stored, promised, link, posted, cache, seq>>
    BY <1>12 DEF CloseSub, captainVars
  <2>3. QED
    BY <1>1, <1>2, <1>4, <2>1, <2>2, QuietStepSameCache
<1>13. ASSUME NEW k \in Keys, Timeout(k)
       PROVE  IInv'
  BY <1>1, <1>4, <1>13, KeptCache, FinishStep DEF Timeout
<1>14. CASE DropReply
  BY <1>1, <1>2, <1>3, <1>14, QuietStepSameCache
  DEF DropReply, NextIs, PostedShrinks, captainVars
<1>15. CASE TakePatch
  <2>1. /\ posted # <<>> /\ Head(posted).type = "patch" /\ posted' = Tail(posted)
        /\ UNCHANGED <<stored, promised, link>>
    BY <1>15 DEF TakePatch, NextIs
  <2>2. PICK k \in Keys :
          /\ flight[k].id = Head(posted).id
          /\ cache' = IF Keepable(k)
                      THEN [cache EXCEPT ![k] = Patch(Head(posted).val)]
                      ELSE cache
          /\ Finish(k, Patch(Head(posted).val), {Head(posted).id})
    BY <1>15 DEF TakePatch, FlightOf
  <2>3. PostedShrinks
    BY <2>1 DEF PostedShrinks
  <2>4. /\ Head(posted) = posted[1] /\ 1 \in 1 .. Len(posted)
        /\ posted[1].id # 0 /\ Head(posted).val \in Nat
    BY <1>1, <1>2, <2>1, TailFacts, HeadFacts DEF IInv, IdsGiven
  <2>5. Keepable(k) => Settled(k) /\ Meets(k, Head(posted).val)
    BY <2>1, <2>2, <2>4 DEF IInv, OpenReplyIsFresh
  <2>6. CacheGrowsFresh
    BY <1>2, <2>2, <2>4, <2>5, OutcomeTypes DEF CacheGrowsFresh, IInv, CacheSettled
  <2>7. QED
    BY <1>1, <2>1, <2>2, <2>3, <2>4, <2>6, FinishStep DEF InFlight
<1>16. CASE TakeError
  <2>1. /\ posted # <<>> /\ Head(posted).type = "error" /\ posted' = Tail(posted)
        /\ UNCHANGED <<stored, promised, link, cache>>
    BY <1>16 DEF TakeError, NextIs
  <2>2. PICK k \in Keys :
          /\ flight[k].id = Head(posted).id
          /\ Finish(k, Failed, {Head(posted).id})
    BY <1>16 DEF TakeError, FlightOf
  <2>3. PostedShrinks
    BY <2>1 DEF PostedShrinks
  <2>4. flight[k].id # 0
    BY <1>1, <1>2, <2>1, <2>2, TailFacts DEF IInv, IdsGiven
  <2>5. QED
    BY <1>1, <2>1, <2>2, <2>3, <2>4, KeptCache, FinishStep DEF InFlight
<1>17. CASE SeePatchSwitched
  BY <1>1, <1>2, <1>17, SealingIsQuiet, QuietStepSameCache
  DEF SeePatchSwitched, NextIs, PostedShrinks, captainVars
<1>18. CASE SeeDown
  BY <1>1, <1>18, SeeDownStep
<1>19. CASE SessionStarts
  <2>1. /\ UNCHANGED <<wire, stored, promised, posted, flight, cache, seq>> /\ connected'
    BY <1>19 DEF SessionStarts, hubVars, connected
  <2>2. \A l : Settled(l)' <=> Settled(l)
    BY <2>1 DEF Settled, WritesTo
  <2>3. IdsGiven' /\ ReadsHaveKeys' /\ OpenReadIsLast' /\ FlightIdsDiffer'
    BY <2>1
    DEF IInv, IdsGiven, ReadsHaveKeys, OpenReadIsLast, FlightIdsDiffer, Keepable, WritesTo
  <2>4. PromiseKept' /\ CacheSettled' /\ OpenReplyIsFresh' /\ DownIsEmpty'
    BY <2>1, <2>2
    DEF IInv, PromiseKept, CacheSettled, OpenReplyIsFresh, DownIsEmpty, Keepable, WritesTo,
        Meets
  <2>5. QED
    BY <1>1, <2>3, <2>4 DEF IInv
<1>20. CASE SessionEnds
  BY <1>1, <1>20, SessionEndsStep
<1>21. CASE ExecuteRead
  BY <1>1, <1>21, ExecuteReadStep
<1>22. CASE ExecuteWrite
  BY <1>1, <1>22, ExecuteWriteStep
<1>23. ASSUME NEW l \in Locations, PedalSwitches(l)
       PROVE  IInv'
  BY <1>1, <1>23, PedalStep
<1>24. ASSUME NEW k \in Keys, EditedElsewhere(k)
       PROVE  IInv'
  BY <1>1, <1>24, EditedStep
<1>28. ASSUME NEW k \in Keys, SavesDraft(k)
       PROVE  IInv'
  BY <1>1, <1>28, SavesStep
<1>25. CASE UNCHANGED vars
  BY <1>1, <1>2, <1>3, <1>4, <1>25, QuietStepSameCache
  DEF vars, captainVars, hubVars
<1>26. \A S \in Selections : S \in SUBSET Locations
  BY DEF Selections
<1>27. QED
  BY <1>5, <1>6, <1>7, <1>8, <1>9, <1>10, <1>11, <1>12, <1>13, <1>14, <1>15, <1>16,
     <1>17, <1>18, <1>19, <1>20, <1>21, <1>22, <1>23, <1>24, <1>25, <1>26, <1>28
  DEF Next, ClientStep, Dispatch, CaptainStep

\* The reads and replies under way always agree with what was promised.
THEOREM Inductive == Spec => []IInv
BY InitInv, NextInv, AlwaysNumbered, PTL DEF Spec

\* No patch the hub keeps is older than a change it has passed on, whatever the
\* number of clients, keys, changes and sessions, and however late the loop runs.
THEOREM CacheNeverStale == Spec => []CacheFresh
<1>1. IInv => CacheFresh
  BY DEF IInv, CacheSettled, CacheFresh, Meets
<1>2. QED
  BY <1>1, Inductive, PTL

\* Once nothing is on its way, what the hub keeps for the active profile is exactly
\* what the Captain would answer, drafts included: only a named key can be behind.
THEOREM ActiveProfileExact == Spec => []ActiveCacheCurrent
<1>1. IInv => ActiveCacheCurrent
  BY DEF IInv, CacheSettled, PromiseKept, ActiveCacheCurrent, CurrentFor, Quiet,
         Meets, Settled
<1>2. QED
  BY <1>1, Inductive, PTL
=============================================================================
