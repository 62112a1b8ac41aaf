------------------------ MODULE MCComputeDomainManager ------------------------
(* One ComputeDomain: handlers of distinct domains share nothing but the   *)
(* stale-label sweep, so one domain exercises the whole protocol.  Two     *)
(* transient API errors let a failed item be retried behind a newer one.   *)
EXTENDS ComputeDomainManager, TLC

CONSTANTS cd1, cd2

MCCDs == {cd1}

(* Two ComputeDomains, for the stale-label sweep one of them starts while *)
(* the other is being labelled.                                            *)
MCCDs2 == {cd1, cd2}
Symmetry == Permutations(MCCDs2)
=============================================================================
