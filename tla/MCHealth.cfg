SPECIFICATION Spec
CONSTANTS
  Polls <- MCPolls
  p1 = p1
  p2 = p2
  p3 = p3
  TTL = 2
  ProbeTimeout = 3
  CommandTimeout = 4
  KillGrace = 1
  WriteMargin = 1
SYMMETRY PollSymmetry
INVARIANTS VerdictIsEarned PollIsBounded TransitionsAddUp
