---------------------------- MODULE SessionLines ----------------------------
(***************************************************************************)
(* What a user of the link may count on for the lines it is told are       *)
(* accepted: within one session the Captain gets them in that order, each  *)
(* once and whole, up to some point; none is ever carried into another     *)
(* session.                                                                *)
(***************************************************************************)
EXTENDS Naturals, Sequences

CONSTANT Lines

VARIABLES up, accepted, got

vars == <<up, accepted, got>>

Init == up = FALSE /\ accepted = <<>> /\ got = <<>>

Starts == ~up /\ up' = TRUE /\ accepted = <<>> /\ got = <<>> /\ UNCHANGED <<accepted, got>>

Accept(l) == up /\ accepted' = Append(accepted, l) /\ UNCHANGED <<up, got>>

Deliver ==
  /\ Len(got) < Len(accepted)
  /\ got' = Append(got, accepted[Len(got) + 1])
  /\ UNCHANGED <<up, accepted>>

Ends == up /\ up' = FALSE /\ UNCHANGED <<accepted, got>>

Closes == ~up /\ accepted' = <<>> /\ got' = <<>> /\ UNCHANGED up

Next == Starts \/ (\E l \in Lines : Accept(l)) \/ Deliver \/ Ends \/ Closes

Spec == Init /\ [][Next]_vars
=============================================================================
