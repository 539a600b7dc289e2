----------------------------- MODULE MCScopeWalk -----------------------------
\* Three subnets, pages of one and two scopes, and a buffer that two scopes overflow.
EXTENDS ScopeWalk

MCAsked == {-3, -2, -1, 1}
=============================================================================
