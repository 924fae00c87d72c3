-------------------------- MODULE MCCycleSelection --------------------------
(* Three forecast hours, two cycles and two downloads at a time.           *)
EXTENDS CycleSelection
=============================================================================
