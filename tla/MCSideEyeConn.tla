--------------------------- MODULE MCSideEyeConn ---------------------------
(* Small instances of SideEyeConn: one caller, or two at the same time.       *)
EXTENDS SideEyeConn
=============================================================================
