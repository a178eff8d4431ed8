----------------------------- MODULE MCAccounts -----------------------------
(* Instances of ObservedAccounts for TLC.                                  *)
EXTENDS ObservedAccounts, TLC

CONSTANTS u, v, op, ro, p, q, r1, r2, r3, r4, r5, r6, r7, r8

Ask(kind, name, value) == [kind |-> kind, name |-> name, value |-> value]

\* Users come and go, get another role or only another password, while roles are
\* made, changed and removed, a hard-coded one among them.
Mixed ==
    r1 :> Ask("createUser", u, op) @@ r2 :> Ask("modifyUser", u, ro)
    @@ r3 :> Ask("removeUser", u, None) @@ r4 :> Ask("modifyUser", v, ro)
    @@ r5 :> Ask("modifyUser", v, None) @@ r6 :> Ask("createRole", op, {p, q})
    @@ r7 :> Ask("modifyRole", ro, {q}) @@ r8 :> Ask("removeRole", ro, None)

Hardcoded == ro :> {p}
OneUser == v :> op
=============================================================================
