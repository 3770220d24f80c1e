--------------------------- MODULE ChallengeStore ----------------------------
(***************************************************************************)
(* Challenges: handing one out under the per-wallet limit, presenting one,  *)
(* and sweeping away those that expired long ago.  A nonce is a row of      *)
(* pack_auth_nonces between its INSERT and the DELETE that accepts or       *)
(* sweeps it.  Each operation is one transaction: NOW() is read when it     *)
(* begins, the table when its statement runs, and the row appears when it   *)
(* commits, so that concurrent INSERTs do not count each other.             *)
(***************************************************************************)
EXTENDS Naturals, FiniteSets

CONSTANTS
    Req,        \* requests for a challenge; each names the nonce it draws
    Caller,     \* requests that present a challenge
    Wallet,
    Limit,      \* PACK_AUTH_MAX_NONCES_PER_WALLET, at least 1
    Ttl,        \* CHALLENGE_TTL_SECONDS
    Grace,      \* how long after its expiry a row may be swept
    SweepEvery, \* a sweep is started when expires_unix is a multiple of it
    Width,      \* bound on the requests for a challenge that run at once
    MaxTime,    \* bound on the clock
    None        \* the absence of a value

ASSUME RequestAssumption == Req \cap Caller = {} /\ None \notin Req \cup Wallet
ASSUME LimitAssumption ==
    /\ Limit \in Nat \ {0} /\ Width \in Nat \ {0} /\ SweepEvery \in Nat \ {0}
    /\ Ttl \in Nat \ {0} /\ Grace \in Nat /\ MaxTime \in Nat

VARIABLES
    now,      \* the clock of the service and of the database
    rows,     \* the nonces in pack_auth_nonces
    wallet,   \* wallet[r]: whom the challenge of r is for
    expires,  \* expires[r]: the expiry in the challenge of r
    txNow,    \* NOW() in a request's transaction
    counted,  \* counted[r]: the rows that r's INSERT counted
    target,   \* target[c]: the challenge that c presents
    sweeping, \* requests whose spawned cleanup has not run
    pc        \* where a request is

vars == <<now, rows, wallet, expires, txNow, counted, target, sweeping, pc>>

Labels ==
    {"idle", "begin", "insert", "commit", "inserted", "issued", "limited",
     "delete", "deleted", "accepted", "refused", "failed"}

InFlight == {r \in Req: pc[r] \in {"insert", "commit"}}

Init ==
    /\ now = 0
    /\ rows = {}
    /\ wallet = [r \in Req |-> None]
    /\ expires = [r \in Req |-> 0]
    /\ txNow = [r \in Req \cup Caller |-> 0]
    /\ counted = [r \in Req |-> 0]
    /\ target = [c \in Caller |-> None]
    /\ sweeping = {}
    /\ pc = [r \in Req \cup Caller |-> "idle"]

Step(r, from, to) == pc[r] = from /\ pc' = [pc EXCEPT ![r] = to]

\* The challenges of w whose rows a statement at the given time counts.
Pending(w, time) == {r \in rows: wallet[r] = w /\ expires[r] > time}

-----------------------------------------------------------------------------
\* Handing out.

\* Fault: the time to live is taken for milliseconds.
ExpiresAtMillis(time) == time + 1000 * Ttl

ExpiresAt(time) == time + Ttl

BuildChallenge(r) ==
    /\ Step(r, "idle", "begin")
    /\ \E w \in Wallet: wallet' = [wallet EXCEPT ![r] = w]
    /\ expires' = [expires EXCEPT ![r] = ExpiresAt(now)]
    /\ UNCHANGED <<now, rows, txNow, counted, target, sweeping>>

OpenInsert(r) ==
    /\ Cardinality(InFlight) < Width
    /\ Step(r, "begin", "insert")
    /\ txNow' = [txNow EXCEPT ![r] = now]
    /\ UNCHANGED <<now, rows, wallet, expires, counted, target, sweeping>>

\* The statement counts what has been committed, and nothing locks the count.
InsertNonce(r) ==
    /\ Step(r, "insert", "commit")
    /\ counted' =
         [counted EXCEPT ![r] = Cardinality(Pending(wallet[r], txNow[r]))]
    /\ UNCHANGED <<now, rows, wallet, expires, txNow, target, sweeping>>

\* Fault: one challenge too many.
BelowLimitOffByOne(r) == counted[r] <= Limit

BelowLimit(r) == counted[r] < Limit

CommitNonce(r) ==
    /\ IF BelowLimit(r)
       THEN Step(r, "commit", "inserted") /\ rows' = rows \cup {r}
       ELSE Step(r, "commit", "limited") /\ UNCHANGED rows
    /\ UNCHANGED <<now, wallet, expires, txNow, counted, target, sweeping>>

\* The client gets its challenge; now and then a sweep is left running.
ReturnChallenge(r) ==
    /\ Step(r, "inserted", "issued")
    /\ sweeping' =
         IF expires[r] % SweepEvery = 0 THEN sweeping \cup {r} ELSE sweeping
    /\ UNCHANGED <<now, rows, wallet, expires, txNow, counted, target>>

\* Fault: the sweep looks an hour ahead and not an hour back.
SweptAhead(r) == expires[r] < now + Grace

Swept(r) == expires[r] + Grace < now

\* A spawned task may outlive its request, and may never run.
CleanupExpiredNonces(r) ==
    /\ r \in sweeping
    /\ sweeping' = sweeping \ {r}
    /\ rows' = {q \in rows: ~Swept(q)}
    /\ UNCHANGED <<now, wallet, expires, txNow, counted, target, pc>>

-----------------------------------------------------------------------------
\* Presenting: c presents a challenge that somebody was given, which may be
\* one that was presented before.

VerifySubmission(c) ==
    /\ \E r \in Req:
         /\ pc[r] = "issued"
         /\ target' = [target EXCEPT ![c] = r]
         /\ IF now <= expires[r]
            THEN /\ Step(c, "idle", "delete")
                 /\ txNow' = [txNow EXCEPT ![c] = now]
            ELSE Step(c, "idle", "refused") /\ UNCHANGED txNow
    /\ UNCHANGED <<now, rows, wallet, expires, counted, sweeping>>

\* A message the service did not write, a wrong signature or a wrong action.
RefuseSubmission(c) ==
    /\ Step(c, "idle", "refused")
    /\ UNCHANGED <<now, rows, wallet, expires, txNow, counted, target, sweeping>>

\* Fault: the handler does not ask how many rows the DELETE removed.
DeletableOnTrust(c) == expires[target[c]] > txNow[c]

Deletable(c) == target[c] \in rows /\ expires[target[c]] > txNow[c]

ConsumeNonce(c) ==
    /\ pc[c] = "delete"
    /\ IF Deletable(c)
       THEN Step(c, "delete", "deleted") /\ rows' = rows \ {target[c]}
       ELSE Step(c, "delete", "refused") /\ UNCHANGED rows
    /\ UNCHANGED <<now, wallet, expires, txNow, counted, target, sweeping>>

Accept(c) ==
    /\ Step(c, "deleted", "accepted")
    /\ UNCHANGED <<now, rows, wallet, expires, txNow, counted, target, sweeping>>

-----------------------------------------------------------------------------
\* The connection fails, a wait times out or the function is stopped: the
\* client gets an error, whether the transaction committed or not.
GiveUp(r) ==
    /\ \E at \in {"begin", "insert", "commit", "inserted", "delete", "deleted"}:
         Step(r, at, "failed")
    /\ UNCHANGED <<now, rows, wallet, expires, txNow, counted, target, sweeping>>

Tick ==
    /\ now < MaxTime
    /\ now' = now + 1
    /\ UNCHANGED <<rows, wallet, expires, txNow, counted, target, sweeping, pc>>

\* The clients of a run are all answered.
Quiet ==
    /\ \A r \in Req \cup Caller:
         pc[r] \in {"issued", "limited", "accepted", "refused", "failed"}
    /\ UNCHANGED vars

Next ==
    \/ \E r \in Req:
         \/ BuildChallenge(r) \/ OpenInsert(r) \/ InsertNonce(r)
         \/ CommitNonce(r) \/ ReturnChallenge(r) \/ CleanupExpiredNonces(r)
    \/ \E c \in Caller:
         \/ VerifySubmission(c) \/ RefuseSubmission(c)
         \/ ConsumeNonce(c) \/ Accept(c)
    \/ \E r \in Req \cup Caller: GiveUp(r)
    \/ Tick
    \/ Quiet

Spec == Init /\ [][Next]_vars

-----------------------------------------------------------------------------
\* The types of the table and of what the requests remember.
TypeOK ==
    /\ now \in 0..MaxTime
    /\ rows \subseteq Req
    /\ wallet \in [Req -> Wallet \cup {None}]
    /\ expires \in [Req -> 0..(MaxTime + Ttl)]
    /\ txNow \in [Req \cup Caller -> 0..MaxTime]
    /\ counted \in [Req -> Nat]
    /\ target \in [Caller -> Req \cup {None}]
    /\ sweeping \subseteq Req
    /\ pc \in [Req \cup Caller -> Labels]

\* A challenge lets one request through, however many present it at once and
\* whether or not the first one got its answer.
AcceptedOnce ==
    \A c, d \in Caller:
        /\ pc[c] \in {"deleted", "accepted"} /\ pc[d] \in {"deleted", "accepted"}
        /\ target[c] = target[d]
        => c = d

\* A challenge that a client got is good until it expires or is presented:
\* neither other challenges nor a sweep take it away.
GoodUntilPresented ==
    \A r \in Req:
        /\ pc[r] = "issued" /\ expires[r] > now
        /\ \A c \in Caller: target[c] # r
        => r \in rows

\* What the limit is worth when requests overlap: a wallet never has more
\* challenges pending than the limit and the requests that ran beside the last
\* one.
PendingBounded ==
    \A w \in Wallet: Cardinality(Pending(w, now)) <= Limit + Width - 1

\* "too many pending challenges (max {max_nonces})", handle_challenge says
\* when it refuses: no wallet has more than the limit pending.
PendingWithinLimit ==
    \A w \in Wallet: Cardinality(Pending(w, now)) <= Limit
=============================================================================
