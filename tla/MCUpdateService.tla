--------------------------- MODULE MCUpdateService ---------------------------
(* Two jobs, so that a job meets what the one before it left. *)
EXTENDS UpdateService

CONSTANTS j1, j2

MCJobs == {j1, j2}
=============================================================================
