--------------------------- MODULE MCDeviceHealth ---------------------------
(* DeviceHealth on small instances; the .cfg files give the constants.       *)
EXTENDS DeviceHealth
=============================================================================
