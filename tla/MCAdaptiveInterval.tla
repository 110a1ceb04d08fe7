------------------------- MODULE MCAdaptiveInterval -------------------------
(* Small instances of AdaptiveInterval.                                    *)
EXTENDS AdaptiveInterval

CONSTANTS i1, i2, i3

MCItem == {i1, i2, i3}
MCDated == {i1, i2}
=============================================================================
