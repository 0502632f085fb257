--------------------------- MODULE MCDeviceLayer ---------------------------
(* Of the rings of ScannerHandle::spawn the one that is read in order:     *)
(* where only the newest frame matters, nothing old stays for long.        *)
EXTENDS DeviceLayer

CONSTANTS c1, c2, t1, t2

MCRings == {"audio"}
MCLatest == {}
=============================================================================
