---------------------------- MODULE MCShellView ----------------------------
(* ShellView for TLC: an entry like Sensors, with fields to update and a    *)
(* rescan, one like Network Interfaces, which reloads, one like Operating   *)
(* System, with a field to update and a scan that lets events pass, and one *)
(* like USB Devices, which reloads by such a scan where lsusb makes it.     *)
EXTENDS ShellView
CONSTANTS sensors, interfaces, os, usb
FieldsOf == [e \in Entries |-> IF e \in {sensors, os} THEN 1 ELSE 0]
=============================================================================
