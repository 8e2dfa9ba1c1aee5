---------------------------- MODULE MCSweptMove ----------------------------
(***************************************************************************)
(* SweptMove for TLC: words of sixteen values, three fractions and steps   *)
(* of four, two and one.  One road is empty; one has a wall with a gap     *)
(* across it; one has a floor with a hole, and a block in the air above.   *)
(***************************************************************************)
EXTENDS SweptMove

MCBlock(laterals, across, heights) == laterals \X across \X heights

MCDrifts == {-1, 0, 4}
MCBounces == {-4, -1, 2}

MCRoads == {
    {},
    MCBlock({2}, Word \ {4, 5}, Word),
    MCBlock(0 .. 3, Word \ {7}, {1}) \cup MCBlock({1}, 3 .. 5, 3 .. 4)}
=============================================================================
