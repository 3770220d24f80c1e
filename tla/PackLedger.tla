----------------------------- MODULE PackLedger -----------------------------
(***************************************************************************)
(* What pack-auth promises about a pack, as four atomic operations on three *)
(* pieces of state: who was charged for what, which packs are revoked, and  *)
(* which session (if any) may spend a pack.  There are no requests, no      *)
(* transactions, no locks and no failures here: PackStore, which has them,  *)
(* is shown to implement this specification.                                *)
(***************************************************************************)
EXTENDS Naturals, FiniteSets

CONSTANTS
    Pack,       \* the issued packs, named by their jti
    Key,        \* Idempotency-Key values
    Resource,   \* resources a use can be spent on
    Secret,     \* session cookies
    Total,      \* Total[p]: how many uses pack p was sold with
    None        \* the absence of a session

VARIABLES
    charges,    \* the uses charged: a set of Charge records
    revoked,    \* [Pack -> BOOLEAN]
    session     \* [Pack -> Secret \cup {None}]: the open session of a pack

ledgerVars == <<charges, revoked, session>>

Charge ==
    [jti: Pack, key: Key, resource: Resource, remaining: Nat]

ChargesOf(p) == {c \in charges: c.jti = p}

Init ==
    /\ charges = {}
    /\ revoked = [p \in Pack |-> FALSE]
    /\ session \in [Pack -> Secret \cup {None}]

\* One use of p is charged to key k: the pack is not revoked, somebody holds
\* its session, the key was never charged before, and a use is left.  The
\* receipt says how many uses are left after this one.
Spend(p, k, res) ==
    /\ ~revoked[p]
    /\ session[p] # None
    /\ \A c \in ChargesOf(p): c.key # k
    /\ Cardinality(ChargesOf(p)) < Total[p]
    /\ charges' = charges \cup
         {[jti |-> p, key |-> k, resource |-> res,
           remaining |-> Total[p] - Cardinality(ChargesOf(p)) - 1]}
    /\ UNCHANGED <<revoked, session>>

\* A merchant revokes a pack, once and for ever.
Revoke(p) ==
    /\ ~revoked[p]
    /\ revoked' = [revoked EXCEPT ![p] = TRUE]
    /\ UNCHANGED <<charges, session>>

\* The payer activates the pack: the new session replaces the old one.
Open(p, s) ==
    /\ session[p] # s
    /\ session' = [session EXCEPT ![p] = s]
    /\ UNCHANGED <<charges, revoked>>

\* The holder of the session logs out.
Close(p) ==
    /\ session[p] # None
    /\ session' = [session EXCEPT ![p] = None]
    /\ UNCHANGED <<charges, revoked>>

Next ==
    \E p \in Pack:
        \/ \E k \in Key, res \in Resource: Spend(p, k, res)
        \/ Revoke(p)
        \/ \E s \in Secret: Open(p, s)
        \/ Close(p)

Spec == Init /\ [][Next]_ledgerVars
=============================================================================
