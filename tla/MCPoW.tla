-------------------------------- MODULE MCPoW --------------------------------
(***************************************************************************)
(* Constants of the model-checking run of PoW: hashes of 7 digits, on both *)
(* sides of every threshold.                                               *)
(***************************************************************************)
EXTENDS PoW

HashOf(zeros, digit) ==
  [i \in 1..7 |-> IF i <= zeros THEN 0 ELSE IF i = zeros + 1 THEN digit ELSE 15]

SampleHashes ==
  {HashOf(3, 1), HashOf(6, 12), HashOf(7, 0)}
    \cup {HashOf(z, d) : z \in 4..5, d \in {11, 12}}

SampleRewards == 1..3
=============================================================================
