--------------------------- MODULE MCOverlayControl ---------------------------
(* Values of the constants of OverlayControl for TLC.                        *)
EXTENDS OverlayControl, TLC
PanelSymmetry == Permutations(Pages) \cup Permutations(ElementKeys)
                 \cup Permutations(OverrideKeys)
=============================================================================
