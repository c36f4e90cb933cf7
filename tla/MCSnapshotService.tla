------------------------- MODULE MCSnapshotService -------------------------
(* Small instances of SnapshotService.                                      *)
EXTENDS SnapshotService
=============================================================================
