----------------------------- MODULE MCDrivers -----------------------------
(* An instance of Drivers for TLC: the DriverDriver, the driver of the star *)
(* and a third one, as a Nexus or Fold star has them; the second may fail   *)
(* at every place where a driver can.                                      *)
EXTENDS Drivers

CONSTANTS dd, sd, bd

MCFactories == <<dd, sd, bd>>
MCMayFail == {sd}
=============================================================================
