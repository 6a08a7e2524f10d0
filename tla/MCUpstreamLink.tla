--------------------------- MODULE MCUpstreamLink ---------------------------
(***************************************************************************)
(* UpstreamLink for TLC, and what is checked of it.                        *)
(***************************************************************************)
EXTENDS UpstreamLink

CONSTANTS e1, data, console, emulator

MCPortKind == [p \in Ports |-> CASE p = data     -> "data"
                                [] p = console  -> "console"
                                [] p = emulator -> "tcp"]
MCMaySend == [p \in Ports |-> IF p = data THEN Events ELSE {}]
MCCandidates == [t \in {"none", "given"} |-> IF t = "given" THEN {<<emulator>>}
                                             ELSE {<<console, data>>, <<>>}]
=============================================================================
