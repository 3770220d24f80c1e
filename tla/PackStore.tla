----------------------------- MODULE PackStore ------------------------------
(***************************************************************************)
(* The life of a sold pack: spending its uses, activating a session for it, *)
(* logging out and revoking it.  Requests run concurrently on independent   *)
(* serverless instances and meet only in PostgreSQL, under READ COMMITTED:  *)
(* a step below is one statement of one request, as the handlers of         *)
(* src/api/mod.rs and the transactions of src/db.rs order them.             *)
(*                                                                          *)
(* A transaction's writes are staged in the request's own variables and     *)
(* appear in the tables when the server commits; its row locks are held     *)
(* until it commits or aborts.  A request that stops waiting (WIRE_TIMEOUT, *)
(* or the platform's limit on a function's duration) leaves its transaction *)
(* behind: one whose COMMIT was sent may still commit.  Any other aborts    *)
(* when the server notices that the handler discarded its connection; only  *)
(* create_pack_session, when its BEGIN or the settings after it fail, lets  *)
(* its connection go back to the pool with what is open on it.              *)
(***************************************************************************)
EXTENDS Naturals, FiniteSets

CONSTANTS
    Req,        \* requests; each one also names the session secret and the
                \* consumption id it draws at random, which are never reused
    Cookie,     \* secrets of the sessions activated before the run
    CookiePack, \* CookiePack[c]: the pack session c was activated for
    Pack,       \* packs, named by their jti
    Key,        \* Idempotency-Key values
    Resource,   \* resources a use can be spent on
    Wallet,     \* buyers and merchants
    Challenge,  \* signed challenges issued before the run
    Total,      \* Total[p]: total_uses of the pack
    Expiry,     \* Expiry[p]: expires_at of the pack
    Payer,      \* Payer[p]: wallet that bought the pack
    Merchant,   \* Merchant[p]: wallet of the service that sold it
    Scope,      \* Scope[p]: resources of the pack, "*" for all of them
    SessionTtl,       \* session_ttl_seconds
    ChallengeExpiry,  \* expires_at of every challenge
    MaxTime,    \* bound on the clock
    Ops,        \* the operations the requests of a run may ask for
    Faults,     \* whether connections fail and handlers time out
    None        \* the absence of a value

Secret == Req \cup Cookie
Time == 0..MaxTime

ASSUME NameAssumption == Req \cap Cookie = {}
ASSUME CookieAssumption == CookiePack \in [Cookie -> Pack]
ASSUME OneCookieAssumption ==
    \A c, d \in Cookie: CookiePack[c] = CookiePack[d] => c = d
ASSUME PackAssumption ==
    /\ Total \in [Pack -> Nat \ {0}]
    /\ Expiry \in [Pack -> Nat]
    /\ Payer \in [Pack -> Wallet]
    /\ Merchant \in [Pack -> Wallet]
    /\ Scope \in [Pack -> SUBSET (Resource \cup {"*"})]
ASSUME TimeAssumption ==
    MaxTime \in Nat /\ SessionTtl \in Nat /\ ChallengeExpiry \in Nat
ASSUME ChallengeAssumption ==
    Challenge \subseteq
      [nonce: Nat, action: {"session", "revoke"}, wallet: Wallet, jti: Pack]
ASSUME ConfigAssumption ==
    /\ Ops \subseteq {"consume", "logout", "session", "revoke"}
    /\ Faults \in BOOLEAN

VARIABLES
    now,      \* the clock: NOW() of the server and Utc::now() of the handlers
    used,     \* packs.used_uses
    revoked,  \* packs.revoked_at IS NOT NULL
    uses,     \* the rows of pack_auth_consumptions
    sessions, \* the rows of pack_auth_sessions, by secret
    nonces,   \* the challenges whose row is in pack_auth_nonces
    held,     \* held[r]: the locks of r's transaction
    pc,       \* where the handler of r is
    job,      \* what r asks for
    jti,      \* the pack r found or named
    tx,       \* r's transaction, as the server sees it: "dropped" is open on a
              \* discarded connection, "left" on one that is in the pool
    txNow,    \* the NOW() of r's transaction: the time of its BEGIN
    expires,  \* the expiry r computed for the session it activates
    seen,     \* the pack row r read with its lock, while r decides
    old,      \* the session row r's DELETE removes
    row,      \* the consumption r answers with
    outcome,  \* what r's statements found
    reply     \* the answer the client got

tables == <<used, revoked, uses, sessions, nonces>>
scratch == <<job, jti, txNow, expires, seen, old, row>>
vars == <<now, tables, held, pc, tx, scratch, outcome, reply>>

-----------------------------------------------------------------------------
\* What the client sends: a cookie, an idempotency key and a resource; a
\* cookie; the pack's token and a signed challenge; a signed challenge.
ConsumeJob ==
    [op: {"consume"}, secret: Secret, key: Key, resource: Resource]
LogoutJob == [op: {"logout"}, secret: Secret]
SessionJob == [op: {"session"}, jti: Pack, challenge: Challenge]
RevokeJob == [op: {"revoke"}, challenge: Challenge]
Job == ConsumeJob \cup LogoutJob \cup SessionJob \cup RevokeJob

Use == [id: Req, jti: Pack, key: Key, resource: Resource, remaining: Nat]
Session == [jti: Pack, wallet: Wallet, expires: Nat, revoked: BOOLEAN]

Labels ==
    {"idle", "getPackForSession", "getPack", "consumeNonce", "begin",
     "lockPackSession", "lockPack", "findConsumption", "revokePackSession",
     "revokePack", "deleteSession", "lockOldSession", "insertSession",
     "checkForeignKey", "rollback", "commit", "awaitCommit", "done"}

Outcomes ==
    {"Consumed", "Replayed", "Conflict", "Revoked", "Expired", "Exhausted",
     "NotFound", "Done"}

Replies ==
    {"ok", "BadRequest", "Unauthorized", "Forbidden", "NotFound", "Conflict",
     "Exhausted", "Internal"}

ASSUME NoneAssumption ==
    /\ None \notin Secret \cup Pack \cup Job \cup Use \cup Session
    /\ None \notin Outcomes \cup Replies
    /\ None \notin [used: Nat, revoked: BOOLEAN]

\* Row locks, <<kind, row>>: FOR UPDATE, DELETE and UPDATE on a session; FOR
\* UPDATE, an UPDATE's lock and the foreign key's lock on a pack; and the entry
\* for a pack in the unique index on sessions.jti, which an INSERT or DELETE of
\* a session changes and no other INSERT gets past until that transaction ends.
Lock ==
    ({"session"} \X Secret) \cup
    ({"update", "noKeyUpdate", "keyShare", "slot"} \X Pack)

\* PostgreSQL's table of conflicting row locks, as far as it is used.
Conflict(l, m) ==
    /\ l[2] = m[2]
    /\ \/ l[1] = m[1] /\ l[1] # "keyShare"
       \/ {l[1], m[1]} \in {{"update", "noKeyUpdate"}, {"update", "keyShare"}}

Min2(a, b) == IF a <= b THEN a ELSE b

Init ==
    /\ now = 0
    /\ used = [p \in Pack |-> 0]
    /\ revoked = [p \in Pack |-> FALSE]
    /\ uses = {}
    /\ sessions = [s \in Secret |->
         IF s \in Cookie
         THEN [jti |-> CookiePack[s], wallet |-> Payer[CookiePack[s]],
               expires |-> Min2(SessionTtl, Expiry[CookiePack[s]]),
               revoked |-> FALSE]
         ELSE None]
    /\ nonces = Challenge
    /\ held = [r \in Req |-> {}]
    /\ pc = [r \in Req |-> "idle"]
    /\ job = [r \in Req |-> None]
    /\ jti = [r \in Req |-> None]
    /\ tx = [r \in Req |-> "none"]
    /\ txNow = [r \in Req |-> 0]
    /\ expires = [r \in Req |-> 0]
    /\ seen = [r \in Req |-> None]
    /\ old = [r \in Req |-> None]
    /\ row = [r \in Req |-> None]
    /\ outcome = [r \in Req |-> None]
    /\ reply = [r \in Req |-> None]

-----------------------------------------------------------------------------
At(r, label) == pc[r] = label
Goto(r, label) == pc' = [pc EXCEPT ![r] = label]

\* No other transaction holds a lock that conflicts with l.
Free(r, l) == \A q \in Req \ {r}: \A m \in held[q]: ~Conflict(l, m)

\* Fault: a statement does not wait for the lock it takes.
AcquireWithoutWaiting(r, l) == held' = [held EXCEPT ![r] = @ \cup {l}]

Acquire(r, l) ==
    /\ Free(r, l)
    /\ held' = [held EXCEPT ![r] = @ \cup {l}]

\* The next statement of r's transaction is up.
InTx(r, label) == At(r, label) /\ tx[r] = "open"

\* A handler answers outside a transaction, or after one is over.
Answer(r, answer) ==
    /\ Goto(r, "done")
    /\ reply' = [reply EXCEPT ![r] = answer]

Refuse(r, answer) ==
    /\ Answer(r, answer)
    /\ UNCHANGED <<now, tables, held, tx, scratch, outcome>>

\* A statement that settles what the transaction found; COMMIT is next.
Settle(r, result) ==
    /\ Goto(r, "commit")
    /\ outcome' = [outcome EXCEPT ![r] = result]

\* Cookies that clients hold: the sessions of before, and those whose
\* activation was answered.
Delivered ==
    Cookie \cup {q \in Req: reply[q] = "ok" /\ job[q].op = "session"}

\* A request arrives.
Start(r) ==
    /\ At(r, "idle")
    /\ \E j \in {j \in Job: j.op \in Ops}:
         /\ j.op \in {"consume", "logout"} => j.secret \in Delivered
         /\ job' = [job EXCEPT ![r] = j]
         /\ jti' = [jti EXCEPT ![r] =
              CASE j.op = "session" -> j.jti
                [] j.op = "revoke" -> j.challenge.jti
                [] OTHER -> None]
         /\ Goto(r, CASE j.op = "consume" -> "getPackForSession"
                      [] j.op = "logout" -> "begin"
                      [] j.op = "session" -> "getPack"
                      [] j.op = "revoke" -> "consumeNonce")
    /\ UNCHANGED <<now, tables, held, tx, txNow, expires, seen, old, row,
                   outcome, reply>>

\* Input that is malformed, has no cookie or token, or comes from another
\* origin is refused before the database is asked anything.
Reject(r) ==
    /\ At(r, "idle")
    /\ \E answer \in {"BadRequest", "Unauthorized", "Forbidden"}:
         Refuse(r, answer)

Usable(s, p, time) ==
    /\ sessions[s] # None
    /\ sessions[s].jti = p
    /\ ~sessions[s].revoked
    /\ sessions[s].expires > time

InScope(resource, p) == {"*", resource} \cap Scope[p] # {}

\* handle_consume reads the session and its pack before the transaction that
\* will charge it, on another connection.
GetPackForSession(r) ==
    /\ At(r, "getPackForSession")
    /\ LET s == job[r].secret IN
       IF \E p \in Pack: /\ Usable(s, p, now)
                         /\ sessions[s].wallet = Payer[p]
                         /\ InScope(job[r].resource, p)
       THEN /\ jti' = [jti EXCEPT ![r] = sessions[s].jti]
            /\ Goto(r, "begin")
            /\ UNCHANGED <<now, tables, held, tx, job, txNow, expires, seen,
                           old, row, outcome, reply>>
       ELSE Refuse(r, IF \E p \in Pack: /\ Usable(s, p, now)
                                        /\ sessions[s].wallet = Payer[p]
                      THEN "Forbidden" ELSE "Unauthorized")

\* handle_create_session looks at the pack of the token.
GetPack(r) ==
    /\ At(r, "getPack")
    /\ LET p == jti[r] IN
       IF \/ revoked[p]
          \/ Expiry[p] <= now
          \/ job[r].challenge.wallet # Payer[p]
       THEN Refuse(r, "Unauthorized")
       ELSE /\ Goto(r, "consumeNonce")
            /\ UNCHANGED <<now, tables, held, tx, scratch, outcome, reply>>

-----------------------------------------------------------------------------
\* Challenges.  r presents the one it was given: the action it was signed for
\* must be the handler's, and its nonce must still be in the table and live.
Challenged(r) == job[r].op \in {"session", "revoke"}

\* Fault: the handler does not look at what the DELETE removed.
AcceptsReplayed(r, c) == c.action = job[r].op /\ now < ChallengeExpiry

\* Fault: any challenge of the wallet will do.
AcceptsAnyAction(r, c) == c \in nonces /\ now < ChallengeExpiry

Accepts(r, c) ==
    /\ c.action = job[r].op
    /\ c \in nonces
    /\ now < ChallengeExpiry

\* The DELETE that accepts a nonce has committed before anything else is
\* looked at: a challenge bound to another pack is burned and refused.
ConsumeNonce(r) ==
    /\ At(r, "consumeNonce")
    /\ LET c == job[r].challenge IN
       IF ~Accepts(r, c)
       THEN Refuse(r, "Unauthorized")
       ELSE /\ nonces' = nonces \ {c}
            /\ IF c.jti = jti[r]
               THEN /\ Goto(r, "begin")
                    /\ expires' = [expires EXCEPT
                         ![r] = Min2(now + SessionTtl, Expiry[jti[r]])]
                    /\ UNCHANGED reply
               ELSE Answer(r, "Unauthorized") /\ UNCHANGED expires
            /\ UNCHANGED <<now, used, revoked, uses, sessions, held, tx, job,
                           jti, txNow, seen, old, row, outcome>>

\* The answer of the DELETE is lost on its way to the handler.
LoseNonce(r) ==
    /\ Faults
    /\ At(r, "consumeNonce")
    /\ Accepts(r, job[r].challenge)
    /\ nonces' = nonces \ {job[r].challenge}
    /\ Answer(r, "Internal")
    /\ UNCHANGED <<now, used, revoked, uses, sessions, held, tx, scratch,
                   outcome>>

-----------------------------------------------------------------------------
\* Transactions.  BEGIN fixes NOW() for every statement that follows.
FirstStatement(op) ==
    CASE op = "consume" -> "lockPackSession"
      [] op = "logout" -> "revokePackSession"
      [] op = "session" -> "deleteSession"
      [] op = "revoke" -> "revokePack"

\* BEGIN on a pooled connection with a transaction that was left open is only
\* a warning: the statements that follow run under the NOW() of that one.
BeginTimes == {now} \cup {txNow[q]: q \in {q \in Req: tx[q] = "left"}}

OpenTransaction(r) ==
    /\ At(r, "begin")
    /\ tx' = [tx EXCEPT ![r] = "open"]
    /\ \E t \in BeginTimes: txNow' = [txNow EXCEPT ![r] = t]
    /\ Goto(r, FirstStatement(job[r].op))
    /\ UNCHANGED <<now, tables, held, job, jti, expires, seen, old, row,
                   outcome, reply>>

\* BEGIN took effect but its answer was late, or a setting after it failed and
\* ROLLBACK did not get through.  Every call discards the connection but one:
\* create_pack_session returns by ?, and the pool takes the connection back.
LoseBegin(r) ==
    /\ Faults
    /\ At(r, "begin")
    /\ tx' = [tx EXCEPT ![r] =
         IF job[r].op = "session" THEN "left" ELSE "dropped"]
    /\ \E t \in BeginTimes: txNow' = [txNow EXCEPT ![r] = t]
    /\ Answer(r, "Internal")
    /\ UNCHANGED <<now, tables, held, job, jti, expires, seen, old, row,
                   outcome>>

\* SELECT ... FROM sessions ... FOR UPDATE: no usable row is NotFound, else the
\* statement waits for the row's lock, and looks at the row again.
LockPackSession(r) ==
    /\ InTx(r, "lockPackSession")
    /\ LET s == job[r].secret IN
       IF Usable(s, jti[r], txNow[r])
       THEN /\ Acquire(r, <<"session", s>>)
            /\ Goto(r, "lockPack")
            /\ UNCHANGED outcome
       ELSE Settle(r, "NotFound") /\ UNCHANGED held
    /\ UNCHANGED <<now, tables, tx, scratch, reply>>

\* Fault: the pack is read without FOR UPDATE.
LockPackUnlocked(r) ==
    /\ InTx(r, "lockPack")
    /\ seen' = [seen EXCEPT ![r] =
         [used |-> used[jti[r]], revoked |-> revoked[jti[r]]]]
    /\ Goto(r, "findConsumption")
    /\ UNCHANGED <<now, tables, held, tx, job, jti, txNow, expires, old, row,
                   outcome, reply>>

\* SELECT ... FROM packs ... FOR UPDATE.
LockPack(r) ==
    /\ InTx(r, "lockPack")
    /\ Acquire(r, <<"update", jti[r]>>)
    /\ seen' = [seen EXCEPT ![r] =
         [used |-> used[jti[r]], revoked |-> revoked[jti[r]]]]
    /\ Goto(r, "findConsumption")
    /\ UNCHANGED <<now, tables, tx, job, jti, txNow, expires, old, row,
                   outcome, reply>>

\* What a key that was never charged meets, in the order of the code.
FreshOutcome(r) ==
    CASE seen[r].revoked -> "Revoked"
      [] ~seen[r].revoked /\ Expiry[jti[r]] <= now -> "Expired"
      [] ~seen[r].revoked /\ Expiry[jti[r]] > now
           /\ seen[r].used >= Total[jti[r]] -> "Exhausted"
      [] OTHER -> "Consumed"

\* Fault: the resource is part of what identifies a retry.
EarlierForResource(r) ==
    {u \in uses: /\ u.jti = jti[r] /\ u.key = job[r].key
                 /\ u.resource = job[r].resource}

\* Fault: the pack is checked before the key is looked up.
EarlierOfUsablePack(r) ==
    {u \in uses: /\ u.jti = jti[r] /\ u.key = job[r].key
                 /\ FreshOutcome(r) = "Consumed"}

\* What earlier transactions recorded for r's key.
Earlier(r) == {u \in uses: u.jti = jti[r] /\ u.key = job[r].key}

\* Fault: the receipt subtracts the other way round.
NewUseBackwards(r) ==
    [id |-> r, jti |-> jti[r], key |-> job[r].key,
     resource |-> job[r].resource,
     remaining |-> seen[r].used - Total[jti[r]] - 1]

NewUse(r) ==
    [id |-> r, jti |-> jti[r], key |-> job[r].key,
     resource |-> job[r].resource,
     remaining |-> Total[jti[r]] - seen[r].used - 1]

\* The rest of consume_pack_in_open_tx, under the pack's lock: a known key is
\* replayed or in conflict, a fresh one is charged unless the pack is revoked,
\* expired or exhausted.  The consumption and the incremented counter are
\* staged, and the touch of last_used_at is to a row r has locked.
FindConsumption(r) ==
    /\ InTx(r, "findConsumption")
    /\ \/ \E u \in Earlier(r):
            IF u.resource = job[r].resource
            THEN Settle(r, "Replayed") /\ row' = [row EXCEPT ![r] = u]
            ELSE Settle(r, "Conflict") /\ UNCHANGED row
       \/ /\ Earlier(r) = {}
          /\ Settle(r, FreshOutcome(r))
          /\ row' = [row EXCEPT ![r] =
               IF FreshOutcome(r) = "Consumed" THEN NewUse(r) ELSE None]
    /\ seen' = [seen EXCEPT ![r] = None]
    /\ UNCHANGED <<now, tables, held, tx, job, jti, txNow, expires, old, reply>>

-----------------------------------------------------------------------------
\* UPDATE sessions SET revoked_at ... WHERE revoked_at IS NULL; no row is fine.
RevokePackSession(r) ==
    /\ InTx(r, "revokePackSession")
    /\ LET s == job[r].secret IN
       IF sessions[s] # None /\ ~sessions[s].revoked
       THEN Acquire(r, <<"session", s>>)
       ELSE UNCHANGED held
    /\ Settle(r, "Done")
    /\ UNCHANGED <<now, tables, tx, scratch, reply>>

\* UPDATE packs SET revoked_at ... by the service's merchant, once.
RevokePack(r) ==
    /\ InTx(r, "revokePack")
    /\ IF ~revoked[jti[r]] /\ job[r].challenge.wallet = Merchant[jti[r]]
       THEN /\ Acquire(r, <<"noKeyUpdate", jti[r]>>)
            /\ Settle(r, "Done")
       ELSE Settle(r, "NotFound") /\ UNCHANGED held
    /\ UNCHANGED <<now, tables, tx, scratch, reply>>

SessionsOf(p) == {s \in Secret: sessions[s] # None /\ sessions[s].jti = p}

\* Fault: only sessions that were not logged out are replaced.
DeleteLiveSession(r) ==
    /\ InTx(r, "deleteSession")
    /\ \/ \E s \in SessionsOf(jti[r]):
            /\ ~sessions[s].revoked
            /\ old' = [old EXCEPT ![r] = s]
            /\ Goto(r, "lockOldSession")
       \/ /\ \A s \in SessionsOf(jti[r]): sessions[s].revoked
          /\ Goto(r, "insertSession")
          /\ UNCHANGED old
    /\ UNCHANGED <<now, tables, held, tx, job, jti, txNow, expires, seen, row,
                   outcome, reply>>

\* Fault: an activation locks the pack first and its old session second.
DeleteSessionPackFirst(r) ==
    /\ InTx(r, "deleteSession")
    /\ Acquire(r, <<"update", jti[r]>>)
    /\ \/ \E s \in SessionsOf(jti[r]):
            /\ old' = [old EXCEPT ![r] = s]
            /\ Goto(r, "lockOldSession")
       \/ /\ SessionsOf(jti[r]) = {}
          /\ Goto(r, "insertSession")
          /\ UNCHANGED old
    /\ UNCHANGED <<now, tables, tx, job, jti, txNow, expires, seen, row,
                   outcome, reply>>

\* DELETE FROM sessions WHERE jti: the statement's snapshot fixes the row it
\* is after, then it waits for that row; a row that is gone is skipped.
DeleteSession(r) ==
    /\ InTx(r, "deleteSession")
    /\ \/ \E s \in SessionsOf(jti[r]):
            /\ old' = [old EXCEPT ![r] = s]
            /\ Goto(r, "lockOldSession")
       \/ /\ SessionsOf(jti[r]) = {}
          /\ Goto(r, "insertSession")
          /\ UNCHANGED old
    /\ UNCHANGED <<now, tables, held, tx, job, jti, txNow, expires, seen, row,
                   outcome, reply>>

LockOldSession(r) ==
    /\ InTx(r, "lockOldSession")
    /\ IF sessions[old[r]] # None
       THEN /\ Free(r, <<"session", old[r]>>)
            /\ held' = [held EXCEPT
                 ![r] = @ \cup {<<"session", old[r]>>, <<"slot", jti[r]>>}]
            /\ UNCHANGED old
       ELSE old' = [old EXCEPT ![r] = None] /\ UNCHANGED held
    /\ Goto(r, "insertSession")
    /\ UNCHANGED <<now, tables, tx, job, jti, txNow, expires, seen, row,
                   outcome, reply>>

\* Fault: sessions.jti is not UNIQUE.
InsertSessionUnchecked(r) ==
    /\ InTx(r, "insertSession")
    /\ Goto(r, "checkForeignKey")
    /\ UNCHANGED <<now, tables, held, tx, scratch, outcome, reply>>

\* INSERT INTO sessions: waits for whoever is changing the pack's entry of the
\* unique index; a row that is there to stay is a unique violation.
InsertSession(r) ==
    /\ InTx(r, "insertSession")
    /\ Free(r, <<"slot", jti[r]>>)
    /\ IF SessionsOf(jti[r]) \subseteq {old[r]}
       THEN /\ Acquire(r, <<"slot", jti[r]>>)
            /\ Goto(r, "checkForeignKey")
       ELSE Goto(r, "rollback") /\ UNCHANGED held
    /\ UNCHANGED <<now, tables, tx, scratch, outcome, reply>>

\* The foreign key's FOR KEY SHARE on the pack, at the end of the INSERT.
CheckForeignKey(r) ==
    /\ InTx(r, "checkForeignKey")
    /\ Acquire(r, <<"keyShare", jti[r]>>)
    /\ Settle(r, "Done")
    /\ UNCHANGED <<now, tables, tx, scratch, reply>>

-----------------------------------------------------------------------------
SendCommit(r) ==
    /\ InTx(r, "commit")
    /\ tx' = [tx EXCEPT ![r] = "committing"]
    /\ Goto(r, "awaitCommit")
    /\ UNCHANGED <<now, tables, held, scratch, outcome, reply>>

\* Fault: the counter moves for a use that is found recorded, too.
CommitAnyUse(r) ==
    /\ outcome[r] \in {"Consumed", "Replayed"}
    /\ uses' = uses \cup {row[r]}
    /\ used' = [used EXCEPT ![jti[r]] = @ + 1]
    /\ UNCHANGED <<revoked, sessions>>

\* What a transaction adds to the tables when the server commits it.
CommitUse(r) ==
    /\ outcome[r] = "Consumed"
    /\ uses' = uses \cup {row[r]}
    /\ used' = [used EXCEPT ![jti[r]] = @ + 1]
    /\ UNCHANGED <<revoked, sessions>>

CommitSession(r) ==
    /\ job[r].op = "session"
    /\ sessions' = [s \in Secret |->
         IF s = r
         THEN [jti |-> jti[r], wallet |-> job[r].challenge.wallet,
               expires |-> expires[r], revoked |-> FALSE]
         ELSE IF s = old[r] THEN None ELSE sessions[s]]
    /\ UNCHANGED <<used, revoked, uses>>

CommitLogout(r) ==
    /\ job[r].op = "logout"
    /\ sessions' = [s \in Secret |->
         IF <<"session", s>> \in held[r]
         THEN [sessions[s] EXCEPT !.revoked = TRUE] ELSE sessions[s]]
    /\ UNCHANGED <<used, revoked, uses>>

CommitRevoke(r) ==
    /\ job[r].op = "revoke" /\ outcome[r] = "Done"
    /\ revoked' = [revoked EXCEPT ![jti[r]] = TRUE]
    /\ UNCHANGED <<used, uses, sessions>>

CommitNothing(r) ==
    /\ job[r].op \in {"consume", "revoke"}
    /\ outcome[r] \notin {"Consumed", "Done"}
    /\ UNCHANGED <<used, revoked, uses, sessions>>

\* The server commits, and lets go of the locks; the handler may have given up.
DbCommit(r) ==
    /\ tx[r] = "committing"
    /\ tx' = [tx EXCEPT ![r] = "committed"]
    /\ held' = [held EXCEPT ![r] = {}]
    /\ \/ CommitUse(r)
       \/ CommitSession(r)
       \/ CommitLogout(r)
       \/ CommitRevoke(r)
       \/ CommitNothing(r)
    /\ UNCHANGED <<now, nonces, pc, scratch, outcome, reply>>

Abort(r) ==
    /\ tx' = [tx EXCEPT ![r] = "aborted"]
    /\ held' = [held EXCEPT ![r] = {}]
    /\ UNCHANGED <<now, tables, pc, scratch, outcome, reply>>

\* A statement runs into its timeout, or the connection is lost: the server
\* aborts, and whoever still waits hears of it.
DbAbort(r) ==
    /\ Faults
    /\ tx[r] \in {"open", "committing"}
    /\ Abort(r)

\* The server notices that the client has closed the connection.
NoticeDiscard(r) == tx[r] = "dropped" /\ Abort(r)

\* The handler rolls back after a statement's error and drops the connection.
Rollback(r) ==
    /\ InTx(r, "rollback")
    /\ tx' = [tx EXCEPT ![r] = "aborted"]
    /\ held' = [held EXCEPT ![r] = {}]
    /\ Answer(r, "Internal")
    /\ UNCHANGED <<now, tables, scratch, outcome>>

AnswerOf(r) ==
    CASE outcome[r] \in {"Consumed", "Replayed", "Done"} -> "ok"
      [] outcome[r] \in {"Conflict", "Exhausted"} -> outcome[r]
      [] outcome[r] \in {"Revoked", "Expired"} -> "Unauthorized"
      [] outcome[r] = "NotFound" ->
           IF job[r].op = "consume" THEN "Unauthorized" ELSE "NotFound"

\* Fault: the handler answers without waiting for COMMIT.
ReplyEarly(r) ==
    /\ At(r, "awaitCommit")
    /\ tx[r] \in {"committing", "committed"}
    /\ Refuse(r, AnswerOf(r))

\* COMMIT returned: the handler turns the outcome into its answer.
Reply(r) ==
    /\ At(r, "awaitCommit")
    /\ tx[r] = "committed"
    /\ Refuse(r, AnswerOf(r))

\* The server reported an error, or the connection closed.
Fail(r) ==
    /\ tx[r] = "aborted"
    /\ ~At(r, "done")
    /\ Refuse(r, "Internal")

\* Fault: a handler that stops waiting does not discard its connection.
GiveUpUndiscarded(r) ==
    /\ Faults
    /\ pc[r] \notin {"idle", "done"}
    /\ Refuse(r, "Internal")

\* A wait timed out, and the handler discards its connection, or the function
\* was stopped, and the socket closed with it.
GiveUp(r) ==
    /\ Faults
    /\ pc[r] \notin {"idle", "done"}
    /\ Answer(r, "Internal")
    /\ tx' = [tx EXCEPT ![r] = IF @ = "open" THEN "dropped" ELSE @]
    /\ UNCHANGED <<now, tables, held, scratch, outcome>>

-----------------------------------------------------------------------------
Handle(r) ==
    \/ GetPackForSession(r)
    \/ GetPack(r)
    \/ ConsumeNonce(r)
    \/ OpenTransaction(r)
    \/ LockPackSession(r)
    \/ LockPack(r)
    \/ FindConsumption(r)
    \/ RevokePackSession(r)
    \/ RevokePack(r)
    \/ DeleteSession(r)
    \/ LockOldSession(r)
    \/ InsertSession(r)
    \/ CheckForeignKey(r)
    \/ SendCommit(r)
    \/ Rollback(r)
    \/ Reply(r)
    \/ Fail(r)

\* What the server does of itself: a COMMIT it received, and a rollback for a
\* client that is gone.
Server(r) == DbCommit(r) \/ NoticeDiscard(r)

Faulty(r) == LoseNonce(r) \/ LoseBegin(r) \/ DbAbort(r) \/ GiveUp(r)

\* The transactions that someone still has to end.
Live(r) == tx[r] \in {"open", "dropped", "committing"}

Tick ==
    /\ now < MaxTime
    /\ now' = now + 1
    /\ UNCHANGED <<tables, held, pc, tx, scratch, outcome, reply>>

\* Every request is answered and every transaction is over.
Quiet ==
    /\ \A r \in Req: At(r, "done") /\ ~Live(r)
    /\ UNCHANGED vars

Next ==
    \/ \E r \in Req:
         Start(r) \/ Reject(r) \/ Handle(r) \/ Server(r) \/ Faulty(r)
    \/ Tick
    \/ Quiet

Spec == Init /\ [][Next]_vars

\* A handler that can go on does, and so does the server; nothing says that
\* requests arrive, that time passes or that anything fails: Faulty is not
\* fair, and no statement is rescued by its timeout.
Fairness ==
    \A r \in Req: WF_vars(Handle(r)) /\ WF_vars(Server(r))

FairSpec == Spec /\ Fairness

-----------------------------------------------------------------------------
\* The types of the tables and of what each request remembers.
TypeOK ==
    /\ now \in Time
    /\ used \in [Pack -> Nat]
    /\ revoked \in [Pack -> BOOLEAN]
    /\ uses \subseteq Use
    /\ sessions \in [Secret -> Session \cup {None}]
    /\ nonces \subseteq Challenge
    /\ held \in [Req -> SUBSET Lock]
    /\ pc \in [Req -> Labels]
    /\ job \in [Req -> Job \cup {None}]
    /\ jti \in [Req -> Pack \cup {None}]
    /\ tx \in [Req -> {"none", "open", "dropped", "left", "committing",
                     "committed", "aborted"}]
    /\ txNow \in [Req -> Time]
    /\ expires \in [Req -> Nat]
    /\ seen \in [Req -> [used: Nat, revoked: BOOLEAN] \cup {None}]
    /\ old \in [Req -> Secret \cup {None}]
    /\ row \in [Req -> Use \cup {None}]
    /\ outcome \in [Req -> Outcomes \cup {None}]
    /\ reply \in [Req -> Replies \cup {None}]

UsesOf(p) == {u \in uses: u.jti = p}

\* The counter of a pack and its consumption rows never disagree, however
\* many requests spend it at once and whichever of them fail: as many rows as
\* used_uses says, no more than were bought, and each row's receipt
\* (remaining_after) is one step further down from total_uses.
LedgerAgreement ==
    \A p \in Pack:
        /\ used[p] = Cardinality(UsesOf(p))
        /\ used[p] <= Total[p]
        /\ {u.remaining: u \in UsesOf(p)} = (Total[p] - used[p])..(Total[p] - 1)

\* "Idempotency keys that prevent retries from charging twice" (README): one
\* key of a pack is charged once, even when a retry runs beside the original,
\* or after an original whose answer was lost.
OneChargePerKey ==
    \A u, v \in uses: u.jti = v.jti /\ u.key = v.key => u = v

\* What a consume answered is what happened: success means that the very row
\* it reported is recorded, for its key and resource; a refusal means that
\* this request recorded nothing, and never will.  Only Internal says neither.
AnswersAreTrue ==
    \A r \in Req: reply[r] # None /\ job[r] # None =>
        /\ reply[r] = "ok" /\ job[r].op = "consume" =>
             /\ row[r] \in uses
             /\ row[r].key = job[r].key
             /\ row[r].resource = job[r].resource
        /\ reply[r] \notin {"ok", "Internal"} =>
             /\ \A u \in uses: u.id # r
             /\ outcome[r] # "Consumed"

\* A client told that its pack is revoked, expired or used up was not charged
\* for that key, by this request or by any earlier or concurrent try of it:
\* consume_pack_in_open_tx looks for the key before it looks at the pack.
RefusedKeyNeverCharged ==
    \A r \in Req:
        reply[r] # None /\ outcome[r] \in {"Revoked", "Expired", "Exhausted"}
        => \A u \in uses: ~(u.jti = jti[r] /\ u.key = job[r].key)

\* No use of a pack is recorded after its revocation committed, even by a
\* request that read the pack before.
NoUseAfterRevocation ==
    [][\A p \in Pack: revoked[p] => used'[p] = used[p]]_vars

\* A use is recorded only while the session that asked for it is in place: it
\* was not logged out, nor replaced by another activation of the pack, since
\* the handler's first look at it.
UseNeedsLiveSession ==
    [][\A r \in Req: row[r] \in uses' \ uses /\ row[r].id = r =>
         LET s == sessions[job[r].secret] IN
         s # None /\ s.jti = jti[r] /\ ~s.revoked]_vars

\* At most one session row per pack, although two activations of it may run
\* at once and each deletes before it inserts.
OneSessionPerPack == \A p \in Pack: Cardinality(SessionsOf(p)) <= 1

\* A session exists only for a pack's payer, on the strength of a challenge
\* signed for activation and bound to that very pack.
ActivationIsSigned ==
    \A r \in Req: sessions[r] # None =>
        /\ sessions[r].wallet = Payer[sessions[r].jti]
        /\ job[r].challenge.action = "session"
        /\ job[r].challenge.wallet = sessions[r].wallet
        /\ job[r].challenge.jti = sessions[r].jti

\* A challenge starts at most one transaction, however often it is presented
\* and whatever became of the first try.
ChallengeUsedOnce ==
    \A r, q \in Req:
        /\ tx[r] # "none" /\ tx[q] # "none" /\ Challenged(r) /\ Challenged(q)
        /\ job[r].challenge = job[q].challenge
        => r = q

\* While nothing fails, the only request that is answered Internal is an
\* activation that lost to another activation of the same pack.
OnlyRacesFail ==
    ~Faults => \A r \in Req: reply[r] = "Internal" =>
        \E q \in Req \ {r}:
            /\ job[r].op = "session" /\ job[q] # None /\ job[q].op = "session"
            /\ jti[r] = jti[q] /\ tx[q] = "committed"

\* Every request that arrived is answered: transactions of different
\* operations never wait for each other in a circle.
EveryRequestAnswered == \A r \in Req: ~At(r, "idle") ~> At(r, "done")

\* A transaction that took a lock, or may, ends and gives its locks back, also
\* when the handler that began it is gone: nothing but the discard of the
\* connection ends it then, since no statement runs that could time out.  The
\* one transaction that stays is what create_pack_session left in the pool.
TransactionsEnd ==
    \A r \in Req: Live(r) ~> tx[r] \in {"committed", "aborted"} /\ held[r] = {}

-----------------------------------------------------------------------------
\* The tables, without the names of requests: what PackLedger talks about.
Charges ==
    {[jti |-> u.jti, key |-> u.key, resource |-> u.resource,
      remaining |-> u.remaining]: u \in uses}

OpenSession ==
    [p \in Pack |->
        IF \E s \in SessionsOf(p): ~sessions[s].revoked
        THEN CHOOSE s \in SessionsOf(p): ~sessions[s].revoked
        ELSE None]

Ledger == INSTANCE PackLedger WITH charges <- Charges, session <- OpenSession

\* Requests, transactions and failures together behave as the ledger's four
\* atomic operations: each commit is one of them, and nothing else is.
LedgerSpec == Ledger!Spec
=============================================================================
