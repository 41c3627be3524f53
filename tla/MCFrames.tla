------------------------------ MODULE MCFrames ------------------------------
\* Frames for messages whose length takes one byte and two, and limits that lose
\* nothing to a cut, or what puts them over u32::MAX, or everything: u32::MAX,
\* 2^40 + 100 and u64::MAX.
EXTENDS Frames

MCProgram == {<<9>>, [i \in 1..250 |-> 7]}

MCLimit ==
    {<<255, 255, 255, 255, 0, 0, 0, 0>>, <<100, 0, 0, 0, 0, 1, 0, 0>>,
     <<255, 255, 255, 255, 255, 255, 255, 255>>}
=============================================================================
