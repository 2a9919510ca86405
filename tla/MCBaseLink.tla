---------------------------- MODULE MCBaseLink ----------------------------
(* Instances of BaseLink for TLC.                                          *)
EXTENDS BaseLink
===========================================================================
