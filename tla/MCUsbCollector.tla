---------------------------- MODULE MCUsbCollector ----------------------------
(***************************************************************************)
(* A small instance of UsbCollector for TLC: two sticks of one model and a *)
(* hub without a serial.                                                   *)
(***************************************************************************)
EXTENDS UsbCollector

CONSTANTS stick, twin, hub, s1, s2, p1, p2

MCSerial == stick :> s1 @@ twin :> s2 @@ hub :> NoSerial
MCPid == stick :> p1 @@ twin :> p1 @@ hub :> p2

\* A record could tell of the section before or behind its own.
TwoSections == Len(log) <= 2
=============================================================================
