----------------------------- MODULE MCMarcCopy -----------------------------
(* Small COPYs for TLC. *)
EXTENDS MarcCopy, TLC

CONSTANTS t1, t2, t3

ThreeThreads == {t1, t2, t3}
AllFormats == {"marcxml", "marc"}

Good == [ok |-> TRUE]
Bad == [ok |-> FALSE]

\* Chunks of two rows and of one, none at all, a rejected record in the
\* middle of a thread's chunks and behind a good one in its own chunk.
ThreeWorks ==
  { (t1 :> <<<<Good, Good>>, <<Good>>>>) @@ (t2 :> <<<<Good, Good>>>>) @@ (t3 :> <<>>),
    (t1 :> <<<<Good>>, <<Good, Bad>>>>) @@ (t2 :> <<<<Good>>, <<Good>>>>) @@ (t3 :> <<<<Good>>>>),
    (t1 :> <<>>) @@ (t2 :> <<>>) @@ (t3 :> <<>>) }
=============================================================================
