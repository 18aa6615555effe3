---------------------------- MODULE MCHandoff ------------------------------
\* Handoff for TLC: movies of one to four frames.  One frame has no timed suffix,
\* two frames have no early bank return, three have one, and four reach a replay
\* with the physical banks exchanged (an odd number of exchanges per movie).
EXTENDS HandoffInv

MCFrameCounts == 1 .. 4
=============================================================================
