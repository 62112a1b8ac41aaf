------------------------- MODULE MCConfigResolution -------------------------
(* Two request names: enough for an explicit config naming one request and *)
(* a wildcard governing the other, and for two results sharing a config.   *)
EXTENDS ConfigResolution
CONSTANTS r1, r2
MCRequests == {r1, r2}
=============================================================================
