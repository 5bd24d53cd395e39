------------------------------ MODULE MC_Stress ------------------------------
(* Two Gaussian callers, the default stress-* flags, eight draws (room    *)
(* for two polar pairs of each caller and a spare taken across callers). *)
EXTENDS Stress

CONSTANTS market, stress

MC_Callers == {market, stress}
MC_MaxDraws == 8
=============================================================================
