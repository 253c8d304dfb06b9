-------------------------------- MODULE Das --------------------------------
(***************************************************************************)
(* The data-availability confidence of crates/listener/src/lib.rs, in      *)
(* exact rational arithmetic: a confidence is a pair <<num, den>>.         *)
(***************************************************************************)
EXTENDS Integers, Functions

\* m * (m - 1) * ... * (m - n + 1), the product the loop over k builds up.
falling(m) ==
    LET product[n \in Nat] == IF n = 0 THEN 1 ELSE product[n - 1] * (m - (n - 1))
    IN  product

\* Mutant: the early return is one shred too eager.
Mutant_EagerCertainty(n, threshold, total) ==
    IF n >= threshold - 1
    THEN <<1, 1>>
    ELSE <<falling(total)[n] - falling(threshold - 1)[n], falling(total)[n]>>

(***************************************************************************)
(* das_confidence: n distinct shreds were drawn out of `total', of which a *)
(* withholding leader published threshold - 1.                             *)
(***************************************************************************)
DasConfidence(n, threshold, total) ==
    IF n >= threshold
    THEN <<1, 1>>
    ELSE <<falling(total)[n] - falling(threshold - 1)[n], falling(total)[n]>>

\* The slot-level aggregate 1 - PROD (1 - c) over a family of confidences.
SlotDasConfidence(confs) ==
    LET undetect == FoldFunction(LAMBDA c, acc : (c[2] - c[1]) * acc, 1, confs)
        den      == FoldFunction(LAMBDA c, acc : c[2] * acc, 1, confs)
    IN  <<den - undetect, den>>

=============================================================================
