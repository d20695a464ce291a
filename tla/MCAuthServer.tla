---------------------------- MODULE MCAuthServer ----------------------------
(***************************************************************************)
(* The Auth Server with small constants.  The bounds are the sets: one     *)
(* element of Conns per connection accepted in a behaviour, one of Keys    *)
(* per pairing token drawn, one of ReqIDs per notification request.        *)
(***************************************************************************)
EXTENDS AuthServer, TLC

CONSTANTS c1, c2, c3, k1, k2, r1, alice, bob, d1, d2, app1, app2, pw

\* Two descriptors: the third connection always gets one that was used before.
MCFds == 4..5

\* Connections, secrets, requests, accounts and applications are interchangeable (the empty
\* name is not an account like the others, and descriptors are ordered).
Symmetry ==
    Permutations(Conns) \cup Permutations(Keys) \cup Permutations(ReqIDs)
      \cup Permutations(UserNames \ {NoName}) \cup Permutations(DNames)
      \cup Permutations(AppIds)
=============================================================================
