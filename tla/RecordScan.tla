----------------------------- MODULE RecordScan -----------------------------
(***************************************************************************)
(* What read_marc, read_marc_subfields and read_marc_raw promise, without  *)
(* threads, locks or batches: the rows of the glob are delivered, some at  *)
(* a time and in any order, each exactly once; a scan that ends without an *)
(* error has delivered all of them; a scan that meets an input it may not  *)
(* skip does not end without an error.                                     *)
(***************************************************************************)
EXTENDS Naturals, FiniteSets

VARIABLES
  owed,        \* the rows the glob stands for, fixed when the scan starts
  mustFail,    \* some input can neither be read nor skipped
  delivered,   \* the distinct rows handed to the engine
  emitted,     \* how many rows were handed to the engine, repeats included
  status       \* "running", "failed" or "complete"

vars == <<owed, mustFail, delivered, emitted, status>>

Init ==
  /\ IsFiniteSet(owed)
  /\ mustFail \in BOOLEAN
  /\ delivered = {}
  /\ emitted = 0
  /\ status = "running"

Deliver ==
  /\ status # "complete"
  /\ delivered' \subseteq owed
  /\ delivered \subseteq delivered'
  /\ delivered' # delivered
  /\ emitted' = emitted + Cardinality(delivered' \ delivered)
  /\ UNCHANGED <<owed, mustFail, status>>

Fail ==
  /\ status = "running"
  /\ mustFail
  /\ status' = "failed"
  /\ UNCHANGED <<owed, mustFail, delivered, emitted>>

Complete ==
  /\ status = "running"
  /\ ~mustFail
  /\ delivered = owed
  /\ status' = "complete"
  /\ UNCHANGED <<owed, mustFail, delivered, emitted>>

Next == Deliver \/ Fail \/ Complete

Spec == Init /\ [][Next]_vars
=============================================================================
