---------------------------- MODULE MCProbeCache ----------------------------
(* Small instances of ProbeCache: callers and engines are model values.    *)
EXTENDS ProbeCache

CONSTANTS e1, c1, c2

OneEngine == {e1}
TwoCallers == {c1, c2}
=============================================================================
