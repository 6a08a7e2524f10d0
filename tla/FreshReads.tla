----------------------------- MODULE FreshReads -----------------------------
(***************************************************************************)
(* What a client of the hub may count on when it asks for a patch, with no *)
(* cache, no single flight, no queue and no session: the request is        *)
(* answered at most once, either with an error or with contents never      *)
(* older than what had been promised for its key when it was made.         *)
(***************************************************************************)
EXTENDS Naturals

CONSTANTS Requests, Keys

VARIABLES promised, writes, asked, answer

vars == <<promised, writes, asked, answer>>

None     == [kind |-> "none"]
NotAsked == [kind |-> "no"]

Init ==
  /\ promised = [k \in Keys |-> 0]
  /\ writes = 0
  /\ asked = [r \in Requests |-> NotAsked]
  /\ answer = [r \in Requests |-> None]

\* A change is numbered, and promised for the keys K; K is empty when the change
\* is refused, and when it only saves what is there.
Change ==
  /\ writes' = writes + 1
  /\ \E K \in SUBSET Keys :
       promised' = [k \in Keys |-> IF k \in K THEN writes' ELSE promised[k]]
  /\ UNCHANGED <<asked, answer>>

\* The end of a session takes back what the Captain had not yet executed.
TakeBack ==
  /\ promised' \in [Keys -> 0 .. writes]
  /\ \A k \in Keys : promised'[k] <= promised[k]
  /\ UNCHANGED <<writes, asked, answer>>

FreshFor(a, v) == v \in a.promised .. writes

\* At most one request is made in a step, and any requests made and not yet
\* answered are answered.
AskOrAnswer ==
  /\ UNCHANGED <<promised, writes>>
  /\ \/ UNCHANGED asked
     \/ \E r \in Requests, k \in Keys :
          /\ asked[r] = NotAsked
          /\ asked' = [asked EXCEPT ![r] = [kind |-> "asked", key |-> k,
                                            promised |-> promised[k]]]
  /\ \A r \in Requests :
       \/ answer'[r] = answer[r]
       \/ /\ answer[r] = None
          /\ asked'[r] # NotAsked
          /\ \/ answer'[r].kind = "error"
             \/ /\ answer'[r].kind = "patch"
                /\ FreshFor(asked'[r], answer'[r].val)

Next == Change \/ TakeBack \/ AskOrAnswer

Spec == Init /\ [][Next]_vars
=============================================================================
