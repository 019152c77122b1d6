--------------------------- MODULE MCRecordStream ---------------------------
(* Every file of up to MaxLen octets, for TLC. *)
EXTENDS RecordStream

CONSTANT MaxLen

AllContents ==
  UNION {[1..n -> {RT, "blank", "other"}] : n \in 0..MaxLen}
=============================================================================
