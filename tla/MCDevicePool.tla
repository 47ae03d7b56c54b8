------------------------------ MODULE MCDevicePool ------------------------------
(* The instances of DevicePool that TLC checks. *)
EXTENDS DevicePool
================================================================================
