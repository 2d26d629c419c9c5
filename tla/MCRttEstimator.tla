--------------------------- MODULE MCRttEstimator ---------------------------
(* Values for checking RttEstimator. *)
EXTENDS RttEstimator

\* CPU times of a send and a receive, from a fast machine to a loaded one.
UsualSamples == {8, 20, 47, 150, 301}
UsualInitRTTs == {4, 35, 120}

\* The last two exceed what one timeout can express with MaxUsec = 5000.
TinySamples == {0, 3, 7, 40}
TinyInitRTTs == {0, 6, 30}
=============================================================================
