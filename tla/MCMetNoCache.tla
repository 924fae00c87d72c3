--------------------------- MODULE MCMetNoCache ---------------------------
(* Two helpers and three calls; the second run lacks an hour that one      *)
(* request needs.                                                          *)
EXTENDS MetNoCache, TLC

Ask(preset, hours, step) ==
  [preset |-> preset, hours |-> hours, step |-> step,
   overwrite |-> TRUE, dry_run |-> FALSE, cached |-> TRUE]

MCRequests ==
  {Ask("minimal", 2, 1), Ask("all", 1, 1),
   [Ask("marine", 2, 2) EXCEPT !.dry_run = TRUE, !.overwrite = FALSE]}

MCLeads == <<0 .. 3, {0, 1, 3}>>
(* One entry for each forecast that is ever cached.                        *)
Fingerprints ==
  {CacheFingerprint(run, r) : run \in 1 .. 2, r \in {q \in MCRequests : q.cached /\ ~q.dry_run}}
  \ {CacheFingerprint(2, Ask("minimal", 2, 1))}
MCHashOf == LET names == SetToSeq(Fingerprints)
            IN  [f \in Fingerprints |-> CHOOSE i \in DOMAIN names : names[i] = f]
Symmetry == Permutations(Processes)
===========================================================================
