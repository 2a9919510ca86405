---------------------------- MODULE MCMakingWaves ----------------------------
(* Instances of MakingWaves for TLC.                                        *)
EXTENDS MakingWaves
==============================================================================
