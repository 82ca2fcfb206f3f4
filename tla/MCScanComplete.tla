--------------------------- MODULE MCScanComplete ---------------------------
(* Small instances of ScanComplete for TLC.                                *)
EXTENDS ScanComplete

CONSTANT KnownResults
Scans == Submissions \X KnownResults

AnySetup == [dispatch : BOOLEAN, config : BOOLEAN, listed : BOOLEAN, rapid : BOOLEAN]

=============================================================================
