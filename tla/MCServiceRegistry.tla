-------------------------- MODULE MCServiceRegistry --------------------------
(***************************************************************************)
(* Small instances of ServiceRegistry: one service, two wallets that want   *)
(* it, two catalogs that disagree about the same pack and a third that is   *)
(* not valid.  Requests for different services touch different rows.        *)
(***************************************************************************)
EXTENDS ServiceRegistry, TLC

CONSTANTS r1, r2, r3, s1, m1, m2, a, b, starter, b1, b2, bad

MCCatalog ==
    (b1 :> [i \in PackId |-> [uses |-> 1, validity |-> None]]) @@
    (b2 :> [i \in PackId |-> [uses |-> 2, validity |-> 1]]) @@
    (bad :> [i \in PackId |-> [uses |-> 3, validity |-> 1]])

MCIndex == (b1 :> "finance") @@ (b2 :> "content") @@ (bad :> "other") @@ (None :> "")

Says(allow, bundles) == [service |-> s1, allow |-> allow, bundles |-> bundles]
Orders(uses, validity, resources) ==
    [service |-> s1, pack |-> starter, uses |-> uses, validity |-> validity,
     resources |-> resources]

Bodies == {Says({a}, b1), Says({"*"}, b2), Says({b}, None), Says({a}, bad)}

MCChallenge ==
    {[nonce |-> 1, action |-> "register", wallet |-> m1, bound |-> Says({a}, b1)],
     [nonce |-> 2, action |-> "register", wallet |-> m2, bound |-> Says({"*"}, b2)],
     [nonce |-> 3, action |-> "update", wallet |-> m1, bound |-> Says({"*"}, b2)],
     [nonce |-> 4, action |-> "update", wallet |-> m1, bound |-> Says({b}, None)],
     [nonce |-> 5, action |-> "retire", wallet |-> m1, bound |-> [service |-> s1]],
     [nonce |-> 6, action |-> "issue", wallet |-> m1, bound |-> Orders(1, 1, {a})],
     [nonce |-> 7, action |-> "issue", wallet |-> m1, bound |-> Orders(2, 1, {b})],
     [nonce |-> 8, action |-> "issue", wallet |-> m2, bound |-> Orders(1, 1, {a})],
     [nonce |-> 9, action |-> "issue", wallet |-> m1, bound |-> Orders(1, 0, {a})],
     [nonce |-> 10, action |-> "issue", wallet |-> m1, bound |-> Orders(1, 1, {})],
     [nonce |-> 11, action |-> "issue", wallet |-> m1, bound |-> Orders(3, 1, {a})]}

\* Every challenge with every body, and two that are for another operation.
Ask(op, body, c) == [op |-> op, body |-> body, challenge |-> c]
MCJobs ==
    {Ask(c.action, body, c):
        body \in Bodies, c \in {d \in MCChallenge: d.action \in {"register", "update"}}}
    \cup {Ask(c.action, None, c):
        c \in {d \in MCChallenge: d.action \in {"retire", "issue"}}}
    \cup {Ask("update", c.bound, c): c \in {d \in MCChallenge: d.nonce = 1}}
    \cup {Ask("retire", None, c): c \in {d \in MCChallenge: d.nonce = 6}}

NothingRegistered == s1 :> None

\* A row that a registration without a catalog left, before the run.
OneRegistered ==
    s1 :> [merchant |-> m1, allow |-> {a, b}, bundles |-> None, index |-> "",
           active |-> TRUE]

MCRegistered == {NothingRegistered, OneRegistered}

Interchangeable == Permutations(Req)
=============================================================================
