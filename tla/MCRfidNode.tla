---------------------------- MODULE MCRfidNode ----------------------------
(* Instances of RfidNode for TLC.                                          *)
EXTENDS RfidNode
===========================================================================
