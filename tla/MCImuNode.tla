----------------------------- MODULE MCImuNode -----------------------------
(* Instances of ImuNode for TLC.                                           *)
EXTENDS ImuNode
============================================================================
