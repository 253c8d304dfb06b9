---------------------------- MODULE DasSampling ----------------------------
(***************************************************************************)
(* What das_confidence and the slot-level aggregate mean.  A withholding   *)
(* leader published one shred less than reconstruction needs, of each FEC  *)
(* set; a listener draws distinct shreds of every set at random and        *)
(* notices if it draws one that was not published.  The confidences are    *)
(* checked against counting the possible draws.                            *)
(***************************************************************************)
EXTENDS Das, FiniteSets, FiniteSetsExt

CONSTANTS
    FecSets,        \* the sets of the slot that are sampled
    Threshold,      \* 32 in the code
    Total           \* 64 in the code

ASSUME FecSetsAssumption == IsFiniteSet(FecSets)

ASSUME ThresholdAssumption == Threshold \in Nat \ {0} /\ Total \in Nat /\ Threshold <= Total

VARIABLE drawn          \* the shreds drawn of each set so far

Shreds    == 1 .. Total
Published == 1 .. Threshold - 1

SamplingInit == drawn = [f \in FecSets |-> {}]

Draw(f, i) ==
    /\ i \notin drawn[f]
    /\ drawn' = [drawn EXCEPT ![f] = @ \cup {i}]

SamplingNext == \E f \in FecSets : \E i \in Shreds : Draw(f, i)

SamplingSpec == SamplingInit /\ [][SamplingNext]_drawn

-----------------------------------------------------------------------------
confidence(f) == DasConfidence(Cardinality(drawn[f]), Threshold, Total)

\* The draws of as many shreds, and those among them that notice nothing.
draws(f)   == kSubset(Cardinality(drawn[f]), Shreds)
unnoticed(f) == {S \in draws(f) : S \subseteq Published}

(***************************************************************************)
(* The confidences are what they say: over any of the sets, the slot's     *)
(* confidence is the share of the joint draws that expose the leader in at *)
(* least one of them, "the probability that *some* FEC set caught the      *)
(* adversary".  Over one set that is das_confidence, from no shred at all  *)
(* to the certainty of the 32nd.                                           *)
(***************************************************************************)
ConfidenceIsExact ==
    \A F \in SUBSET FecSets :
        LET c     == SlotDasConfidence([f \in F |-> confidence(f)])
            all   == FoldFunction(LAMBDA n, acc : n * acc, 1, [f \in F |-> Cardinality(draws(f))])
            blind == FoldFunction(LAMBDA n, acc : n * acc, 1, [f \in F |-> Cardinality(unnoticed(f))])
        IN  c[1] * all = c[2] * (all - blind)

=============================================================================
