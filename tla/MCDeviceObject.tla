-------------------------- MODULE MCDeviceObject ----------------------------
(* Model values for DeviceObject: two requests, two ids, two registrations. *)
EXTENDS DeviceObject, TLC

CONSTANTS r1, r2, i1, i2, u1, u2
=============================================================================
