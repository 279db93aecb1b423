--------------------------- MODULE MCMediaReceiver ---------------------------
(* MediaReceiver on small instances: see the cfg files of its runs.        *)
EXTENDS MediaReceiver, TLC

(* LOADs are interchangeable; used by safety runs only.                    *)
Symmetry == Permutations(Loads)
=============================================================================
