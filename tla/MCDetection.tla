---------------------------- MODULE MCDetection -----------------------------
(***************************************************************************)
(* Two methods and four hours with the thresholds of DetectionConfig.  The *)
(* hours of one method take every combination of four shapes, the last one *)
(* of three, which give outages of one to four hours, gaps, and baselines  *)
(* of every kind.                                                          *)
(***************************************************************************)
EXTENDS Detection, TLC

\* min_absolute_rate = 0.30
Rate == <<3, 10>>

Of(failed, total) == [failed |-> failed, total |-> total]

\* A good hour; a thin one that fails often; one that is suspect but has too few
\* failures; an outage.
Shapes == {Of(0, 11), Of(2, 4), Of(2, 6), Of(3, 5)}

\* A good hour, an outage, or the hour whose rate an outage exceeds threefold.
LastShapes == {Of(0, 11), Of(1, 5), Of(3, 5)}

\* The other method has an outage of its own.
TwoMethods ==
  {[w \in Windows |-> IF w[1] = "upi" THEN c[w[2]] ELSE IF w[2] = 1 THEN Of(4, 9) ELSE Of(1, 9)] :
    c \in {d \in [Hours -> Shapes \cup LastShapes] :
             d[LastHour] \in LastShapes /\ \A h \in 0 .. LastHour - 1 : d[h] \in Shapes}}

\* Where f/t < (bf/bt) * 3.0 as floats although the fractions are equal: a rate of
\* 3/5 and a baseline of 1/5, and of 3/10 and 1/10.
Missed ==
  {<<3, 5, b, 5 * b>> : b \in 1 .. 20} \cup {<<6, 10, b, 5 * b>> : b \in 1 .. 20}
    \cup {<<3, 10, b, 10 * b>> : b \in 1 .. 20}
=============================================================================
