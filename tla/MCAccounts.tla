------------------------------ MODULE MCAccounts ------------------------------
(* Instances of Accounts for TLC.                                          *)
EXTENDS Accounts, TLC

CONSTANTS o, a, x, z, ko, ka, ko2, b1, n1, n2, n3, n4

Ask(action, by, key, on, delta) ==
  [action |-> action, by |-> by, key |-> key, on |-> on, delta |-> delta, name |-> Nobody]

\* The owner o, the administrator a, the user x, and z, who registers.
MCRequests ==
  {Ask(action, a, ka, x, 0) : action \in {"DISABLE_USER", "RESTORE_USER", "GRANT_ADMIN"}}
    \cup {Ask("DISABLE_USER", o, ko, a, 0), Ask("REVOKE_ADMIN", o, ko, a, 0)}
    \cup {Ask("GRANT_ADMIN", o, ko, x, 0)}
    \cup {Ask("QUOTA_ADJUST", a, ka, u, -1) : u \in {x, o}}
    \cup {Ask("QUOTA_ADJUST", o, ko, x, 1)}
    \cup {Ask("QUOTA_REVERSE", o, k, ka, 0) : k \in {ko, ko2}}
    \cup {Ask("CREATE_INVITATION_BATCH", a, ka, b1, 0),
          Ask("DISABLE_INVITATION_CODE", a, ka, b1, 0),
          Ask("DISABLE_INVITATION_BATCH", o, ko, b1, 0)}
    \cup {Ask("REVEAL_USER_EMAIL", a, ka, x, 0),
          Ask("REVEAL_INVITATION_BATCH_CODES", a, ka, b1, 0),
          Ask("LOOKUP_INVITATION_CODE", a, ka, b1, 0)}
    \cup {Ask("CLOSE", u, Nobody, Nobody, 0) : u \in {a, x}}
    \cup {Ask("REGISTER", z, Nobody, Nobody, 0)}
    \cup {[Ask("RENAME", x, Nobody, Nobody, 0) EXCEPT !.name = n] : n \in {n2, n4}}
    \cup {[Ask("RENAME", a, Nobody, Nobody, 0) EXCEPT !.name = n] : n \in {n4}}

Signed(name, role) ==
  [NoAccount EXCEPT !.status = "ACTIVE", !.name = name, !.role = role, !.session = TRUE]

\* The owner may not have been bootstrapped yet.
MCInit ==
  /\ \E role \in Roles :
       account = (o :> Signed(n1, role)) @@ (a :> Signed(n2, "ADMIN"))
                   @@ (x :> Signed(n3, "USER")) @@ (z :> NoAccount)
  /\ Init

MCSpec == MCInit /\ [][Next]_vars

Symmetry == Permutations(Workers)
=============================================================================
