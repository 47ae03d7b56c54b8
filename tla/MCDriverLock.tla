----------------------------- MODULE MCDriverLock -----------------------------
(* The instances of DriverLock that TLC checks; no symmetry, for one of its
   properties is liveness. *)
EXTENDS DriverLock
================================================================================
