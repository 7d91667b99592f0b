--------------------------- MODULE MCUploadSource ---------------------------
(* Small instances of UploadSource for TLC.                                *)
EXTENDS UploadSource, TLC
=============================================================================
