-------------------------- MODULE MCDeviceCommands --------------------------
(* A small instance of DeviceCommands: see DeviceCommands.cfg.              *)
EXTENDS DeviceCommands
=============================================================================
