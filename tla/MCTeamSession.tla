--------------------------- MODULE MCTeamSession ---------------------------
(* TeamSession on a small instance.                                        *)
EXTENDS TeamSession

=============================================================================
