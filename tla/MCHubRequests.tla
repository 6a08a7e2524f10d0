---------------------------- MODULE MCHubRequests ----------------------------
(***************************************************************************)
(* HubRequests for TLC, and what is checked of it.                         *)
(***************************************************************************)
EXTENDS HubRequests

CONSTANTS s1, s2, ctx1, ctx2, ctx3, open1, read2, com2, c1

MCOwner == [r \in Requests |-> IF r \in {ctx1, ctx3, open1} THEN s1 ELSE s2]
MCKindOf == [r \in Requests |-> CASE r \in {ctx1, ctx2, ctx3} -> "context"
                                  [] r = open1 -> "open"
                                  [] r = read2 -> "read"
                                  [] r = com2  -> "command"]
=============================================================================
