----------------------------- MODULE MCLiveSession -----------------------------
(* Small instances of LiveSession.                                             *)
EXTENDS LiveSession, TLC

CONSTANTS m1, m2, s1, s2

MCOneClient == {m1}
MCTwoClients == {m1, m2}
MCOneSelection == {s1}
MCTwoSelections == {s1, s2}

\* So many packets that the numbers begin again, and two of a later subscription.
MCWrapping == <<6, 2>>
MCOnePacket == <<1, 1>>
MCNoPacket == <<0>>

\* Monitors differ in nothing but their names.
MCSymmetry == Permutations(MCTwoClients)
==============================================================================
