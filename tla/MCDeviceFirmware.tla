-------------------------- MODULE MCDeviceFirmware --------------------------
(* Bounded instance of DeviceFirmware for TLC.                             *)
EXTENDS DeviceFirmware
=============================================================================
