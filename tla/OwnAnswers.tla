----------------------------- MODULE OwnAnswers -----------------------------
(***************************************************************************)
(* What a client of the hub may count on when it makes a request, with no  *)
(* other client, no private ids, no shared snapshots and no sessions: it   *)
(* is answered at most once, with an error, with the reply to that very    *)
(* request, or, when it asks for the context, with one that shows every    *)
(* change passed on before.                                                *)
(***************************************************************************)
CONSTANTS Requests, KindOf, Changes

VARIABLES passed, call, due, said

vars == <<passed, call, due, said>>

Init ==
  /\ passed = {}
  /\ call \in [Requests -> {"new", "done"}]
  /\ due = [r \in Requests |-> {}]
  /\ said = {}

\* A session that ends takes back what the Captain has not done, from what was
\* passed on and from what is due to those who wait.
TakeBack ==
  /\ passed' \subseteq passed
  /\ due' = [r \in Requests |-> due[r] \cap passed']
  /\ said' = {}
  /\ UNCHANGED call

Allowed(r, outcome) ==
  \/ outcome.kind = "error"
  \/ /\ outcome.kind = "own"
     /\ KindOf[r] # "context"
     /\ outcome.of = r
  \/ /\ outcome.kind = "context"
     /\ KindOf[r] = "context"
     /\ due[r] \subseteq outcome.val

\* Each request is made, is answered, or both, once; a change may be passed on with
\* it, and is not due to it.
Move ==
  /\ passed \subseteq passed' /\ passed' \subseteq Changes
  /\ \A r \in Requests :
       \/ UNCHANGED <<call[r], due[r]>> /\ \A a \in said' : a.req # r
       \/ /\ call[r] = "new" /\ call'[r] = "waiting"
          /\ due'[r] = passed
          /\ \A a \in said' : a.req # r
       \/ /\ call[r] # "done" /\ call'[r] = "done"
          /\ due'[r] = {}
          /\ \E a \in said' : /\ {b \in said' : b.req = r} = {a}
                              /\ Allowed(r, a.outcome)

Next == TakeBack \/ Move

Spec == Init /\ [][Next]_vars
=============================================================================
