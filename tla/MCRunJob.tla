------------------------------ MODULE MCRunJob ------------------------------
(* Three helpers for one result path, one after another.                   *)
EXTENDS RunJob
=============================================================================
