------------------------------ MODULE MCZ3950 ------------------------------
(* Small sessions for TLC. *)
EXTENDS Z3950

\* No records wanted, fewer than the result set has, more than it has.
FewRecords == {-1, 2, MaxHits + 1}
AllServers == {"conforming", "faulty"}
=============================================================================
