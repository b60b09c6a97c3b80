-------------------------- MODULE MCPySubscription --------------------------
(* Instances of PySubscription for TLC.                                    *)
EXTENDS PySubscription, TLC

CONSTANTS s1, s2, k1, k2, r1, r2

OneStream == {s1}
TwoStreams == {s1, s2}
OneCall == {k1}
TwoCalls == {k1, k2}
OneRow == {r1}
TwoRows == {r1, r2}

(* All that the client tells apart from a bug: everything but a connection *)
(* reset and a frame that is not UTF-8.                                    *)
CleanFaults == {"eof", "malformed", "unexpected", "backpressure", "refused"}

(* The calls are interchangeable, and so are the streams; used by the      *)
(* safety run only.                                                        *)
Symmetry == Permutations(TwoCalls) \cup Permutations(TwoStreams)
=============================================================================
