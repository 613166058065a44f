------------------------------- MODULE MCTeam -------------------------------
(* Team with three people, two requests at a time, and room for a second   *)
(* business or a second location.                                          *)
EXTENDS Team, TLC

CONSTANTS u1, u2, u3, b1, b2, l1, l2, i1, i2, r1, r2

MCUser == {u1, u2, u3}
MCBusiness == {b1, b2}
MCLocation == {l1, l2}
MCInvitation == {i1, i2}
MCRequest == {r1, r2}

Names ==
  Permutations(MCUser) \cup Permutations(MCBusiness) \cup Permutations(MCLocation)
  \cup Permutations(MCInvitation) \cup Permutations(MCRequest)

\* Invitations to two people, or to two locations, have nothing to do with
\* each other: a state that has them is checked, but the instance goes on
\* only where the second invitation is the first one sent again.
SentAgain ==
  \A i, j \in DOMAIN invitations : invitations[i].email = invitations[j].email /\ invitations[i].at = invitations[j].at
=============================================================================
