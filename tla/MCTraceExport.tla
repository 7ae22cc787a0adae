--------------------------- MODULE MCTraceExport ---------------------------
(* TraceExport at the sizes of the .cfg files beside it.                   *)
EXTENDS TraceExport
=============================================================================
