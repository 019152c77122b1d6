--------------------------- MODULE MCScanMetrics ---------------------------
(* Small instances of MarcScan, with its metrics read, for TLC. *)
EXTENDS MCMarcScan, ScanMetrics

\* More records than threads, of both encodings, and a malformed one.
ProfiledGlobs == {<<File(<<Utf8(1), Marc8(1), Malformed>>), File(<<UpperA(1)>>)>>}

AllGlobs == FaultGlobs \cup ProfiledGlobs
=============================================================================
