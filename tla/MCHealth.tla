------------------------------- MODULE MCHealth -------------------------------
\* Three polls at once and a probe that may outlast the life of its verdict.
EXTENDS Health, TLC

CONSTANTS p1, p2, p3

MCPolls == {p1, p2, p3}
PollSymmetry == Permutations(MCPolls)
=============================================================================
