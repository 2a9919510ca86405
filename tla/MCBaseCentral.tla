-------------------------- MODULE MCBaseCentral --------------------------
(* Instances of BaseCentral for TLC: peripherals with their names.        *)
EXTENDS BaseCentral, TLC

CONSTANTS imu, rfid, imu2

MCNodeName == [p \in Peers |-> IF p = rfid THEN "MAKING-WAVES-RFID" ELSE "IMU"]

\* Connection objects are interchangeable, and so are nodes of one name.
Symmetry == Permutations(Conns) \cup Permutations({imu, imu2})
===========================================================================
