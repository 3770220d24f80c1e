# Verification of pack-auth

TLA+ models of pack-auth (the service under `src/`), TLC configurations that
check them on small instances, and TLAPS proofs for every instance. The source
of every definition is in `PROJECT.json` under `map`; the hazards of the code,
each at its line and with the properties that watch it, are under `hazards`.

## 1. The system

pack-auth is an HTTP service that runs as serverless functions, each request
on an instance of its own or beside others, for at most 30 s
(`src/vercel.json`). Instances share nothing but a PostgreSQL database, which
they use under READ COMMITTED through `src/src/db.rs`. Every database call is
one transaction: BEGIN, the statements, COMMIT; only `create_pack_session` and
`consume_pack_with_session` have more than one statement. A wait longer than
WIRE_TIMEOUT ends in an error, and nearly everywhere in a connection that is
discarded (not at db.rs:272 and db.rs:143, see ConnPool).

| Component | State | Operations | What makes it correct |
|---|---|---|---|
| Challenges | `pack_auth_nonces` | hand out, accept, sweep | accepted once; good until then; few at a time |
| Registry | `pack_auth_services` | register, update, retire | one owner; retirement final; index follows catalog; everything signed |
| Issuance | `pack_auth_packs` | issue | on terms in force; one pack per order |
| Sessions | `pack_auth_sessions` | activate, log out | one per pack; for the payer only, on a signature |
| Spending | `pack_auth_consumptions`, `used_uses` | consume | balance and ledger agree; a key is charged once; no use after revocation or logout |
| Revocation | `packs.revoked_at` | revoke, feed | final; the feed delivers it |
| Connections | pool of 5 per instance, its wires | get, run, return, discard, ping | what a pooled connection carries harms no other call |
| Lists: marketplace, packs | none; a client's cursor | page | a walk loses and repeats only what it must |
| Tokens and keys | `pack_auth_signing_keys`, environment | sign, verify, publish | tokens outlive the key's use; key sets verify them |
| Challenge messages | none | ask, write, read, use | what was asked is what is signed and used |
| Introspection, service info, health | none | read | what one statement read |

They interact through the database only. A challenge is burned in a
transaction of its own before a signed operation begins; the consume handler
looks at the session in one transaction and charges in the next; issuance
reads the service in one and inserts in the next; the spawned sweep outlives
its request. What is hard is therefore the interleaving of statements of
concurrent transactions, values read before a transaction and used in it, lost
answers (most of all that of COMMIT), and timestamps taken when a transaction
begins but visible when it commits.

## 2. Modules

    PackLedger        what a pack promises: four atomic operations
      ^ refined by
    PackStore         consume, activate, log out, revoke, by statement
      PackStoreProofs     its inductive invariant; what follows about the tables
                          and about waiting
      PackStoreAnswers    what follows for clients, and that it implements PackLedger
    ChallengeStore    handing out, presenting and sweeping challenges
    ServiceRegistry   register, update, retire, issue
    RevocationFeed    the feed and a client that follows it
    Listing           paging through the marketplace or a merchant's packs
    Credentials       signing keys and challenge messages, while instances change
    ConnPool          the connections that all of the above run on
    <module>Proofs    theorems about the module
    MC<module>        small instances for TLC

**PackStore.** A request `r` has a program counter `pc[r]`; the labels are the
places between two awaits in the handler. Its transaction is `tx[r]`, with the
locks it holds in `held[r]`; what it writes appears in `used`, `uses`,
`sessions`, `revoked` at `DbCommit(r)`, a step of the server. The locks are
those the statements take: FOR UPDATE, an UPDATE's and a DELETE's row lock,
the foreign key's FOR KEY SHARE, and an entry of the unique index on
`sessions.jti`, which makes an INSERT wait for a transaction that changes it.
A statement that waits re-reads its row when it gets the lock, as READ
COMMITTED does; an activation's DELETE is after the row its snapshot found
(`old[r]`), which may be gone when its turn comes. Challenges are a fixed set
here, whose issuing is in ChallengeStore.

The failures (`Faulty`) are `LoseNonce`, `LoseBegin`, `DbAbort` (a statement's
timeout, a lost connection) and `GiveUp`: the handler may stop waiting anywhere.
What becomes of its transaction is the code's doing. One whose COMMIT was sent
may still commit. One that is open is `dropped`, since `finish` discards the
connection, or the socket closes with the function; the server notices that and
aborts (`NoticeDiscard`). A BEGIN that took effect but whose answer or settings
failed is `dropped` as well, or `left` when the call is `create_pack_session`,
which leaves by `?` (db.rs:272): the transaction is then in the pool, holds no
row, and the next call on its connection runs in it, under its NOW()
(`BeginTimes`). `Live` are the transactions that somebody still has to end.

Modelling decisions a reader should know:
- A request's random draws (session secret, consumption id, jti) are its own
  name: they never collide.
- In PackStore and ChallengeStore the service's clock and the database's are
  one: a time is compared with one expiry, and which clock it is of makes no
  difference to the properties there. In RevocationFeed, where times of both are
  compared with each other, they are two. `now` moves at any time, so `txNow`
  (NOW(), of BEGIN) is stale whenever a statement waited for a lock.
- A service_id is folded into the wallet of its merchant, who never changes
  (`OwnerIsForever` in ServiceRegistry).
- A `dropped` transaction does not take another lock in the model; in the code
  the statement that it was in may, before the server notices. That lock is
  released by the same abort (ConnPool has the statement on the wire).
- A `left` transaction gives its time to any number of later ones and is never
  over in PackStore: more than the code can do, where one call ends it. ConnPool
  follows it to its end.
- `last_used_at` is written under a lock that is already held and never read.
- Both the session's lock and the pack's serialise consumes of one pack, since
  a pack has one session; a model that drops only one of them for consume
  against consume would show nothing. Revocation meets only the pack's lock,
  which is what `LockPackUnlocked` exercises.

**ChallengeStore.** A request for a challenge names the nonce it draws. Counting
(`InsertNonce`) and the row's appearance (`CommitNonce`) are two steps, because
the count is of the statement's snapshot. The clock is in ticks: `Ttl` is 600 s,
`Grace` the hour a row is kept after its expiry.

**ServiceRegistry.** Each database call is one single-statement transaction, so
one step; `Start` validates the body, `ConsumeNonce` burns the challenge and
compares the body with what was signed, `GetService` reads and checks, and the
write follows. `inForce[r]` is a history variable: the versions of the service
since r's challenge was burned.

**RevocationFeed.** `begun[p]` is NOW() of an open transaction that revokes p.
A request of the client is three steps: ask, query, answer. There are two
clocks: `now` is the database's, which stamps revocations; the start of the
window (api/mod.rs:551) and the cursor of an empty answer (db.rs:537) are what
the instance that answers reads from its own, which is up to `Skew` ahead or
behind, anew at each reading (`InstanceTimes`). With an instance ahead, a
revocation may begin, run and commit when no request is under way and still be
behind the cursor. The history variables say which revocations overlapped a
request (`raced`), began at or behind the client's cursor (`behind`), or were
older than the window (`aged`). BeginRevoke is the BEGIN that fixes the
transaction's NOW(); on a connection that an activation left with a transaction
open it is that earlier one.

**ConnPool.** One instance: requests that make database calls one after the
other, connections with the messages on their wires, and a server that takes
the messages of a connection in order. It models what the other modules leave
out: `RecyclingMethod::Fast` hands a connection on as it is. A call that stops
waiting leaves its message on the wire; `discard` takes the connection out of
the pool, but `create_pack_session` leaves by `?` when its BEGIN times out
(db.rs:272), and so does `ping` (db.rs:143), and then it goes back. The next call's BEGIN
is then a warning, and its statements run in the earlier transaction, under its
NOW(). `OnlyLostBeginsLeak` says that this is the one case, `OwnCommitsOnly`
and `IdleHoldsNothing` that it does no more harm than that. PackStore has the
consequence, a `txNow` older than the call's own BEGIN. `SETTINGS` stands for SET LOCAL and DEALLOCATE
ALL, `STATEMENT` for all statements of a call, `lock` for one row they fight
for.

**Listing.** Both lists in one module: they differ in their key (`Precedes`)
and cursor (`Below`). A writer takes the time it will write (`BeginWrite`) and
commits later, so that `updated_at` can go back. `List` is a request and its
answer; a lost answer changes nothing. Among rows of one time PostgreSQL may
return any order where ORDER BY does not decide, which is the case for packs.

**Credentials.** The environment of each instance is `config[i]`: the MAC's
secret, kid, key and issuer. The operator rolls other configurations out
instance by instance, and back. The code does not say in which order the key
table and the instances are changed; the rule assumed (`Deploy`) is that two
kids are in the table before instances run with both. Nothing else is assumed
of the operator: a configuration may have a new key under the old kid, and
`Publish` may give the kid's row another key; it may have another issuer.
Verifying a token (`Verifies`) takes its key, its issuer and its expiry; the
expiry is left open, as any token may have expired by the clock of the instance.
Signatures and MACs are perfect: one verifies with its own key only.
`TokensStayGood` is about tokens that have not expired, at an instance with
their issuer, whose kid stands (`KidStands`: where the instance looks for the
kid it finds the token's key); `verdict` and `document` record with each answer
what it owed. A key set is the set of its keys, each labelled with its origin
(the instance's own, or a row), so that a kid listed twice is two of them; their
order means nothing to a client.

A text of a challenge is what a client sends, and the code does not refuse line
breaks in it: it is a first line, perhaps with a carriage return, and the lines
that follow (`Text`). `push_fields` writes it as it came (`Written`), and the
message is read back by lines (`TakeFields`): the last line that begins with a
field's name counts, a text without line breaks comes back whole, one with
several lines comes back as its last one of that name and may bring fields of
other names, and a line that begins with none has the whole message refused
(`Submit`). `ChallengeCarriesRequest` therefore speaks of texts of one line
each; of others the code promises only that they are in the message that the
wallet signs. Lines that are all of one field or another are told apart by the
name they begin with; the six lines before the fields (domain, wallet, times,
nonce, action) and the MAC's line come from the service itself and are not in
the model, and neither is a text that imitates the MAC's line: the MAC is looked
for from the end of the message, where the service put it.

Operators whose comment begins with "Fault:" are mistakes the code does not
make; no specification uses them. `PROJECT.json` pairs each with a property
that has to notice it ("mutants").

## 3. What the runs check

| Run | Shows |
|---|---|
| store_spend | counter, rows and receipts agree; a key is charged once; answers are true; a refused key was never charged; a committed revocation is final |
| store_session | one session per pack, signed by its payer; challenges start one transaction; a use needs its session |
| store_all | no deadlock, every request is answered, only lost activation races fail; PackLedger is implemented |
| store_faults | a transaction that holds a lock, or may take one, ends, because its handler finishes it or discards its connection; that create_pack_session leaves one in the pool is ConnPool's |
| challenge_use | a challenge is accepted once and good until then; the limit plus the overlap bounds the pending |
| challenge_race | finding: the limit itself does not |
| registry_all | owner, retirement, index, signed content; packs on terms in force, one per order |
| feed_all | with clocks a tick apart, only revocations that overlapped a request, began behind the cursor, were tied or aged are missed; `complete` is right; the feed moves on |
| feed_misses | finding: a client can miss a revocation |
| pool_all | only the transaction of an unanswered activation leaks; a call's writes are committed by its own COMMIT; an idle connection holds no row; everyone is answered |
| listing_all | a walk lists what nobody touched, and repeats only what an overtaken update moved down |
| credentials_all | tokens of the service are recognised through every rollout, but expired ones, those of another issuer and those whose kid was given away; key sets verify them; challenges of one-line texts carry what was asked |

**Bounds.** Packs share no row with each other, nor services, so one pack or
one service puts all requests into contention. Three requests are what the
races need: two that race and a third that observes, retries or revokes; the
pack has two uses, so that the third consume finds it used up. One tick of the
clock is enough to expire sessions, challenges and packs in PackStore, since
each comparison is with one expiry. ChallengeStore needs three requests for the
limit to be exceeded by one of two that overlap (`Width`), and a clock long
enough for a sweep to come round. RevocationFeed has answers of one revocation,
so that three revocations need several and ties are cut; a window of two ticks
and a skew of one, so that a clock can be wrong by less than the window, and two
times of the database (the clock starts at `Window + Skew`, only so that no time
is negative): before and after a cursor. ConnPool has two
pooled connections for three requests, so that one waits for the pool, and one
fault, after which a connection more than the pool holds can be made: a second
fault would hit calls that are alike. Listing has pages of one row, three rows
and two writers, so that one can overtake the other between pages. Credentials
has two instances, which is a rollout half way, and four configurations: the
first, one with another kid, key and secret, one with another key under the
first kid, and one with another issuer. Its texts are one-line ones, and for
service_id, which every action has, one each with a carriage return and with a
second line that is empty, of another field, of the same field and of none. The
constraint `Apart` leaves out states that hold a key set and a verdict at once,
or a challenge beside tokens or a key set: no step reads the one and the other,
so nothing that the properties speak of is lost. Symmetry is used for
requests, keys and packs in runs without liveness.

**Fairness.** `FairSpec` of PackStore: a handler whose next step is possible
takes it, and so does the server (`DbCommit`, `NoticeDiscard`); both run on
their own. Nothing is assumed of clients, of the clock or of failures: `Faulty`
is not fair, so no statement is rescued by its timeout, and in store_faults a
transaction whose handler is gone ends only because its connection was
discarded. A step that waits for a lock is not enabled meanwhile; weak fairness
suffices because each request runs once and a transaction that holds a lock
ends, so the lock is in the end free for good. Starvation by an endless stream
of other requests is not claimed to be impossible.
`FairSpec` of RevocationFeed assumes a client that keeps asking and is answered
again and again (strong fairness, because any single answer may be lost); that
is an assumption about the client, without which nothing about it follows.
`FairSpec` of ConnPool is that of PackStore: handlers go on and the server
answers; no timeout is assumed to fire, and none is needed. In listing_all the
walk simply ends, so deadlock is not checked there.

**Findings.** (1) The limit on pending challenges is a count without a lock:
`PendingBounded` is what it guarantees. (2) The revocation feed can lose
revocations that overlap a request, or that follow an empty answer of an
instance whose clock is ahead; `OnlyRacesAreMissed` says which. A client that
asks again from a little before its cursor gets them.

## 4. What is proved

`PackStoreProofs` proves `Spec => []SafeInv` for every set of requests, packs,
keys, any prices and clocks, from the assumptions on the constants at the head
of PackStore. `SafeInv` is inductive where the properties are not:
- where a handler is says what it works on, and what state its transaction is
  in (`JobOfLabel`, `Progress`);
- no two transactions hold conflicting locks, and a locked session is there
  (`LocksExclude`, `LockedRowsExist`);
- a lock protects what a handler remembers until its transaction ends
  (`Protected`): what it read of the pack is still so, the row it staged fits
  the counter and its key is fresh, its session is in place;
- an activation that has inserted owns its pack's index entry, and `old` is the
  only session of the pack (`Replacing`, `OneSession`).

The proof has a lemma per action, under it a step per conjunct the action can
disturb. From the invariant the same module concludes:

| Theorem | States |
|---|---|
| `TypeCorrect` | `[]TypeOK` |
| `LedgerAgrees` | `[]LedgerAgreement`, from `LedgerHolds`, which adds `IsFiniteSet(uses)`: a commit that charges adds one row, one to the counter and the next receipt |
| `ChargedOnce` | `[]OneChargePerKey` |
| `SingleSession` | `[]OneSessionPerPack` |
| `RevocationIsFinal` | `NoUseAfterRevocation` |
| `ChargedToLiveSession` | `UseNeedsLiveSession` |
| `NobodyWaitsInCircle` | `[]NoCircle`: among any requests one waits for none of the others |
| `NoStandstill` | `[]SomethingMoves`: while anything is unfinished, some handler or the server can take its next step |

The last two rest on `LocksInOrder`: a transaction asks for a session's row only
while it holds nothing, for an index entry while it holds sessions and that
entry, and for a pack while it holds no pack. Who is waited for therefore waits,
if at all, for a lock of a later rank (`WaitsRise`), and there are three ranks;
two activations that both hold an index entry never wait for the same one,
because `LocksExclude`. `Wants` leaves out that a statement whose row is gone
asks for no lock, so `NoCircle` is a little stronger than what it says.

`PackStoreAnswers` goes on with invariants about each request `r`, on top of
`SafeInv`:

| Theorem | States | Rests on |
|---|---|---|
| `ChallengesStartOnce` | `[]ChallengeUsedOnce` | `BurnedAlone`: an accepted challenge has no row left, and one holder |
| `ActivationsAreSigned` | `[]ActivationIsSigned` | `Authorised`: what was checked before the transaction still holds in it |
| `AnswersTellTheTruth` | `[]AnswersAreTrue` | `Truthful`: a use named r is recorded exactly by r's commit, and answers follow the outcome |
| `RefusalsAreFree` | `[]RefusedKeyNeverCharged` | `RefusedForGood`: the pack is `Hopeless` and stays so, and nobody holds its lock to charge it |
| `FailuresAreRaces` | `[]OnlyRacesFail` | `OnlyLosersFail`: what an INSERT runs into is not a session of before the run |
| `ImplementsLedger` | `LedgerSpec` | `LedgerStep`: each commit is one operation of PackLedger; its count of charges is `used_uses` (`LedgerCounts`), its session the open one (`LedgerSessions`) |

The initial states map to PackLedger's, and every step to one of its steps or a
stutter; the map is the INSTANCE at the end of PackStore.

The other modules have an inductive invariant of their own, in the module of
their proofs:

| Module | Theorem | States | Rests on |
|---|---|---|---|
| ServiceRegistryProofs | `TypeCorrect` | `[]TypeOK` | `RegistryInv` |
| | `OwnersStay`, `RetiredStay` | `OwnerIsForever`, `RetiredIsFinal` | the WHERE clauses and the primary key: `ServiceStep` |
| | `IndexFollowsCatalog` | `[]IndexMatchesCatalog` | the same |
| | `ContentIsSigned` | `[]MerchantSignedContent` | `AllSigned`: only burned challenges put words into a row |
| | `TermsWereInForce` | `[]IssuedOnTermsInForce` | `Tracked`: the row in the table is in force; `Checked`: what a handler read was, and still counts |
| | `OrdersAreFilledOnce` | `[]OnePackPerOrder` | `BurnedOnce` |
| ChallengeStoreProofs | `TypeCorrect` | `[]TypeOK` | `UseInv` |
| | `ChallengesAreSpent` | `[]AcceptedOnce` | `Presented`: who has deleted a row has the only deletion |
| | `ChallengesStayGood` | `[]GoodUntilPresented` | `GoodFromTheStart` |
| | `OverlapBoundsPending` | `[]PendingBounded` | `RoomForDecided`: rows and decided INSERTs are counted together |
| RevocationFeedProofs | `TypeCorrect` | `[]TypeOK` | `FeedInv` |
| | `RestIsDelivered` | `[]OnlyRacesAreMissed`, for any `Skew` | `CrossedIsExcused`: an open revocation stamped no later than the cursor overlapped a request or began behind the cursor; `AskedForTheRest`, `FetchedTheFirst`: at each step of a request, what it will not bring is excused |
| | `CompleteIsTrue` | `[]CompleteMeansAll` | the same |
| ListingProofs | `TypeCorrect` | `[]TypeOK` | |
| | `NothingUntouchedIsSkipped` | `[]UntouchedRowsListed` | `RestInv`: an untouched row that was not listed is below the cursor |
| | `NoRepeats` | `[]OnlySunkRowsRepeat` | `WalkInv`: a listed row that did not sink is not below it |
| CredentialsProofs | `TypesAreRight` | `[]TypeOK`, with one key for a kid in every key set | `KidsAreUnique` in the table |
| | `TokensAreRecognised` | `[]TokensStayGood` | `KidsAreKnown`: a kid in use at one of two instances, or in a token, is in use everywhere or in the table |
| | `KeySetsVerifyEveryToken` | `[]WholeKeySetsVerifyAll` | `KeySetInv`: also `DocumentInv`, a whole key set has the key of every token issued before it whose kid stands |
| | `RequestsAreCarried` | `[]ChallengeCarriesRequest` | `ChallengeInv`; `PushedOnce`: an action's message has a place for each field its handler asks for and the service_id, one for each, and no other; `LinesAreTaken`: of one-line texts, what was written is what is taken |
| ConnPoolProofs | `PoolIsInvariant` | `[]PoolInv` | see below |
| | `TypesAreRight` | `[]TypeOK` | `ClientInv`, `CountInv` |
| | `OnlyLostLeak` | `[]OnlyLostBeginsLeak` | `History`, with `Begun` for each user of a connection |
| | `OwnCommits` | `[]OwnCommitsOnly` | `WireInv`: a COMMIT on a wire is for the writes of its own call |
| | `IdleIsHarmless` | `[]IdleHoldsNothing` | `Harmless` |
| | `NoStandstill` | `[]SomethingMoves`: while a request is unanswered, a handler can act on an answer, the pool can hand out a connection, or the server can answer | `LineInv`, `Awaited`, `CountInv` |

`PoolInv` has five parts. `ClientInv`: who uses which connection, who waits in
the line, and that a call not yet made has sent nothing (`PastCalls`); so a
message on a wire tells which call it is of. `CountInv`: every connection that is
spoilt was paid for by a fault, so that of `MaxSize + MaxFaults` connections one
can always be made (`OneCanBeMade`). `ServerInv` is the heart: what may be on a
wire, for each place a handler can wait at. While it waits for BEGIN, the
connection may still carry the BEGIN of an activation that gave up, and maybe its
transaction, but nothing that writes or holds a row (`Harmless`); once BEGIN is
answered all of that is behind, and the transaction is the call's own or one of
those (`Begun`); a statement or a COMMIT is alone on its wire. This is why
`OwnCommitsOnly` cannot be proved by itself: it needs to know that a call which
failed after it wrote sends ROLLBACK and waits, or discards the connection.
`LineInv` and `Awaited` (what a handler waits to have answered is on its wire)
are for `NoStandstill` alone.

Each holds for every value of the constants that meets the assumptions at the
head of its module; those assumptions say what the constants are (a catalog is
a function, a limit is positive) and, in ServiceRegistry, that a row of before
the run has the index of its catalog. Credentials assumes nothing of kids, keys
and issuers; its rule for the operator is the guard of `Deploy`.

In ConnPool they say that there are names for as many connections as a
run can use up (`Conn` is finite and has `MaxSize + MaxFaults` members or more),
which PostgreSQL's limit on connections would bound in the end, and that the
names of requests, connections and states differ.

Every invariant and action property that the passing runs check is a theorem,
and so is the refinement of PackLedger. Only model-checked are the four
liveness properties (`EveryRequestAnswered` of PackStore and of ConnPool,
`TransactionsEnd`, `FeedCatchesUp`), since liveness under fairness is out of the
prover's reach. The two theorems `NoStandstill` are their safety half: the system
never comes to rest with a request unanswered. ENABLED is out of reach too, so
`SomethingMoves` spells out the guards of the steps that it says are possible.

## 5. What is not modelled

- Cryptography: a signature, MAC or token is valid or is not.
- Routing, CORS and origins, cookie syntax, errors' wording, configuration and
  its parsing: stateless, and in the models only as the refusals they lead to.
- Texts and prices in catalogs and the syntax of identifiers: validated where
  they come in and never read again by the code.
- Introspection, service info and the marketplace's detail page: each shows what
  one statement read and keeps nothing, so no step of another request can come
  between.
- Running the migrations, which an operator does by hand; the keys, unique
  constraints and foreign keys they create are part of the actions that meet
  them.
- Whether a pack that is issued was paid for: payments are outside the code, and
  so is telling a pack issued twice for one payment from two packs
  (api/mod.rs:316). `OnePackPerOrder` is about one signed order.

## 6. Plan

1. Abstract specifications of ChallengeStore (a nonce is handed out, accepted
   once or expires) and of ConnPool (calls are transactions of their own), and
   that the detailed ones implement them.
2. What stops the feed from finishing: a bound on the answers between two
   revocations, as the safety half of `FeedCatchesUp`.
