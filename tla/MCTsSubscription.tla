-------------------------- MODULE MCTsSubscription --------------------------
(* Instances of TsSubscription for TLC.                                    *)
EXTENDS TsSubscription, TLC

CONSTANTS s1, s2, k1, k2, r1, r2

OneStream == {s1}
TwoStreams == {s1, s2}
OneCall == {k1}
TwoCalls == {k1, k2}
OneRow == {r1}
TwoRows == {r1, r2}

(* The streams are interchangeable, and so are the calls; used by the      *)
(* safety run only.                                                        *)
Symmetry == Permutations(TwoStreams) \cup Permutations(TwoCalls)
=============================================================================
