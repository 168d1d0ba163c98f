------------------------------ MODULE MCSignIn -------------------------------
(* Instances of SignIn for TLC.                                            *)
EXTENDS SignIn, TLC

CONSTANTS u1, u2, e1, e2
MCHomeOf == (u1 :> e1) @@ (u2 :> e2)

\* A user and the address it starts with are exchanged together.
Symmetry == Permutations(Workers) \cup Permutations(Challenges) \cup Permutations(Invitations)
              \cup {(u1 :> u2) @@ (u2 :> u1) @@ (e1 :> e2) @@ (e2 :> e1)}
=============================================================================
