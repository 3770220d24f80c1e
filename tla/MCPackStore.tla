---------------------------- MODULE MCPackStore -----------------------------
(***************************************************************************)
(* Small instances of PackStore for TLC: one pack that was activated before *)
(* the run (cookie c1), its payer alice, its merchant shop.  With one pack  *)
(* every request contends for the same rows, which is where the hazards     *)
(* are; packs share no row, so requests for different packs do not meet.    *)
(***************************************************************************)
EXTENDS PackStore, TLC

CONSTANTS
    r1, r2, r3, p1, p2, c1, a, b, k1, k2, k3, alice, shop,
    Uses,       \* the uses a pack was sold with
    Allowed,    \* the resources a pack is for
    Signed      \* which of the challenges below exist

\* p1's merchant may revoke it with 1; its payer may activate it with 2 and 3;
\* 4 is the payer's signature on a revocation, which is not hers to make.
AllChallenges ==
    {[nonce |-> 1, action |-> "revoke", wallet |-> shop, jti |-> p1],
     [nonce |-> 2, action |-> "session", wallet |-> alice, jti |-> p1],
     [nonce |-> 3, action |-> "session", wallet |-> alice, jti |-> p1],
     [nonce |-> 4, action |-> "revoke", wallet |-> alice, jti |-> p1]}

MCCookiePack == c1 :> p1
MCTotal == [p \in Pack |-> Uses]
MCExpiry == [p \in Pack |-> 1]
MCPayer == [p \in Pack |-> alice]
MCMerchant == [p \in Pack |-> shop]
MCScope == [p \in Pack |-> Allowed]
MCChallenge == {c \in AllChallenges: c.nonce \in Signed}

Interchangeable == Permutations(Req) \cup Permutations(Key)
=============================================================================
