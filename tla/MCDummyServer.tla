---------------------------- MODULE MCDummyServer ----------------------------
(***************************************************************************)
(* The Dummy Server with small constants.                                  *)
(***************************************************************************)
EXTENDS DummyServer, TLC

CONSTANTS c1, c2, c3, alice, bob, pw

\* Two descriptors: the third connection always gets one that was used before.
MCFds == 4..5

\* Connections and accounts are interchangeable.
Symmetry == Permutations(Conns) \cup Permutations(UserNames \ {NoName})
=============================================================================
