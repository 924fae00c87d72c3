-------------------------- MODULE MCEnvironmentJob --------------------------
(* Requests and byte counts for the runs of EnvironmentJob.                *)
EXTENDS EnvironmentJob, TLC

CONSTANTS c1, c2, fine, coarse

Request(weather, waves, current, spacing, parallel) ==
  [weather |-> weather, waves |-> waves, current |-> current,
   spacing |-> spacing, parallel |-> parallel]

(* The coupled pair at two spacings, and independent streams on threads.   *)
MCRequests == {Request("gfs", "gfs_wave", "none", fine, TRUE),
               Request("gfs", "gfs_wave", "marine_ie", coarse, FALSE),
               Request("ukmo_ukv", "gfs_wave", "none", fine, FALSE),
               Request("ukmo_ukv", "gfs_wave", "marine_ie", coarse, TRUE)}

(* The same weather, waves on the requested grid, at two spacings.         *)
MCWaveRequests == {Request("ukmo_ukv", "copernicus", "none", s, FALSE) : s \in {fine, coarse}}

(* The coupled pair alone, at two spacings.                                *)
MCCoupledRequests == {Request("gfs", "gfs_wave", "none", s, FALSE) : s \in {fine, coarse}}

(* Streams of different cycles differ in size, as compressed fields do.    *)
MCScans == c1 :> 1 @@ c2 :> 2 @@ None :> 0
=============================================================================
