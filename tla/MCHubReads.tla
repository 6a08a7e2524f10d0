----------------------------- MODULE MCHubReads -----------------------------
(***************************************************************************)
(* HubReads for TLC, and what is checked of it.                            *)
(***************************************************************************)
EXTENDS HubReads

CONSTANTS s1, s2, r1, r2, r3, active, named, here

MCOwner == [r \in Requests |-> IF r = r3 THEN s2 ELSE s1]
MCLocOf == [k \in Keys |-> here]
=============================================================================
