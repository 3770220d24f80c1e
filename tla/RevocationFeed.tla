--------------------------- MODULE RevocationFeed ----------------------------
(***************************************************************************)
(* One service's revocation feed and a client that follows it: each answer  *)
(* carries the packs revoked after the cursor the client sent, oldest       *)
(* first, and the cursor for the next request.  A revocation is stamped     *)
(* with the time its transaction began and is visible when it has           *)
(* committed; the feed reads the table in one statement and, when that      *)
(* found nothing, its own clock in a later step.  Revocations are stamped   *)
(* by the database's clock, the window and an empty answer's cursor by that *)
(* of the instance that answers, which is Skew ahead or behind at most.     *)
(***************************************************************************)
EXTENDS Naturals, FiniteSets, FiniteSetsExt

CONSTANTS
    Pack,    \* the packs of the service, by jti
    Limit,   \* how many revocations an answer carries (500)
    Window,  \* revocation_window_days, in ticks
    Skew,    \* how far an instance's clock is from the database's
    MaxTime, \* bound on the clock
    None     \* the absence of a value

\* The clock starts late enough for no time to be negative.
Time == 0..MaxTime

ASSUME FeedAssumption ==
    /\ Limit \in Nat \ {0} /\ Window \in Nat \ {0}
    /\ Skew \in Nat
    /\ MaxTime \in Nat /\ MaxTime >= Window + Skew
    /\ None \notin 0..(MaxTime + Skew)

VARIABLES
    now,       \* the clock of the database
    begun,     \* begun[p]: NOW() in the open transaction that revokes p
    revokedAt, \* packs.revoked_at
    pc,        \* where the request of the client is
    since,     \* what the request asks for
    fetched,   \* the rows the query returned
    cursor,    \* the client's cursor, None before its first answer
    complete,  \* whether the client's last request was answered as complete
    got,       \* what the client has been told of
    matched,   \* history: the rows that matched the last query
    raced,     \* history: packs whose revocation overlapped a request
    behind,    \* history: packs whose revocation began behind the cursor
    aged       \* history: packs a request could not ask for any more

feed == <<pc, since, fetched, cursor, complete, got, matched, aged>>
vars == <<now, begun, revokedAt, feed, raced, behind>>

Init ==
    /\ now = Window + Skew
    /\ begun = [p \in Pack |-> None]
    /\ revokedAt = [p \in Pack |-> None]
    /\ pc = "idle"
    /\ since = 0
    /\ fetched = {}
    /\ cursor = None
    /\ complete = FALSE
    /\ got = {}
    /\ matched = {}
    /\ raced = {}
    /\ behind = {}
    /\ aged = {}

Revoked == {p \in Pack: revokedAt[p] # None}
Open == {p \in Pack: begun[p] # None}

-----------------------------------------------------------------------------
\* A merchant revokes a pack.  The client's cursor may have come from an instance
\* whose clock was ahead.
BeginRevoke(p) ==
    /\ p \notin Revoked \cup Open
    /\ begun' = [begun EXCEPT ![p] = now]
    /\ raced' = IF pc # "idle" THEN raced \cup {p} ELSE raced
    /\ behind' = IF cursor # None /\ now <= cursor THEN behind \cup {p} ELSE behind
    /\ UNCHANGED <<now, revokedAt, feed>>

CommitRevoke(p) ==
    /\ p \in Open
    /\ revokedAt' = [revokedAt EXCEPT ![p] = begun[p]]
    /\ begun' = [begun EXCEPT ![p] = None]
    /\ UNCHANGED <<now, feed, raced, behind>>

\* A revocation that fails may be tried again, with another challenge.
AbortRevoke(p) ==
    /\ p \in Open
    /\ begun' = [begun EXCEPT ![p] = None]
    /\ raced' = raced \ {p}
    /\ behind' = behind \ {p}
    /\ UNCHANGED <<now, revokedAt, feed>>

-----------------------------------------------------------------------------
\* What an instance may read from its own clock.
InstanceTimes == (now - Skew)..(now + Skew)

WindowStart(time) == time - Window

\* The client asks with its cursor, or without one; the service raises what is
\* older than the window.
Ask ==
    /\ pc = "idle"
    /\ pc' = "query"
    /\ complete' = FALSE
    /\ raced' = raced \cup Open
    /\ \E time \in InstanceTimes:
         /\ since' = IF cursor = None THEN WindowStart(time)
                     ELSE Max({cursor, WindowStart(time)})
         /\ aged' = aged \cup {p \in Revoked: revokedAt[p] <= WindowStart(time)}
    /\ UNCHANGED <<now, begun, revokedAt, fetched, cursor, got, matched, behind>>

\* Fault: revocations at the cursor are sent again.
AtOrAfter(time) == {p \in Revoked: revokedAt[p] >= time}

After(time) == {p \in Revoked: revokedAt[p] > time}

\* Fault: the newest revocations come first.
NewestFirst(rows, n) ==
    {s \in SUBSET rows:
        /\ Cardinality(s) = Min({n, Cardinality(rows)})
        /\ \A p \in s, q \in rows \ s: revokedAt[p] >= revokedAt[q]}

\* The first n of the rows by revoked_at; rows of one time come in any order.
First(rows, n) ==
    {s \in SUBSET rows:
        /\ Cardinality(s) = Min({n, Cardinality(rows)})
        /\ \A p \in s, q \in rows \ s: revokedAt[p] <= revokedAt[q]}

\* Fault: not one row more than the answer carries.
ExactLimit == Limit

\* Fault: the query has no LIMIT.
NoLimit == Cardinality(Pack)

QueryLimit == Limit + 1

ListRevocations ==
    /\ pc = "query"
    /\ pc' = "answer"
    /\ matched' = After(since)
    /\ fetched' \in First(After(since), QueryLimit)
    /\ UNCHANGED <<now, begun, revokedAt, since, cursor, complete, got, raced, behind,
                   aged>>

\* The cursor is the last row's time, which the database gave it, or the
\* instance's own clock when there is no row.
AnswerRevocations ==
    /\ pc = "answer"
    /\ pc' = "idle"
    /\ \E batch \in First(fetched, Limit), time \in InstanceTimes:
         /\ got' = got \cup batch
         /\ cursor' = IF batch = {} THEN time
                      ELSE Max({revokedAt[p]: p \in batch})
    /\ complete' = (Cardinality(fetched) <= Limit)
    /\ UNCHANGED <<now, begun, revokedAt, since, fetched, matched, raced, behind,
                   aged>>

\* The answer is lost, or there is none: the client will ask again.
LoseAnswer ==
    /\ pc # "idle"
    /\ pc' = "idle"
    /\ UNCHANGED <<now, begun, revokedAt, since, fetched, cursor, complete, got,
                   matched, raced, behind, aged>>

Tick ==
    /\ now < MaxTime
    /\ now' = now + 1
    /\ UNCHANGED <<begun, revokedAt, feed, raced, behind>>

Next ==
    \/ \E p \in Pack: BeginRevoke(p) \/ CommitRevoke(p) \/ AbortRevoke(p)
    \/ Ask \/ ListRevocations \/ AnswerRevocations \/ LoseAnswer
    \/ Tick

Spec == Init /\ [][Next]_vars

\* A client that keeps asking and, however many answers are lost, is answered
\* again and again.  Nothing says that a merchant revokes, that a transaction
\* commits or that time passes.
FairSpec ==
    /\ Spec
    /\ WF_vars(Ask) /\ SF_vars(ListRevocations) /\ SF_vars(AnswerRevocations)

-----------------------------------------------------------------------------
\* The types; no cursor is further ahead of the database's clock than an
\* instance's is, and no query is for more rows than tell whether there are more.
TypeOK ==
    /\ now \in Time
    /\ begun \in [Pack -> Time \cup {None}]
    /\ revokedAt \in [Pack -> Time \cup {None}]
    /\ pc \in {"idle", "query", "answer"}
    /\ since \in 0..(now + Skew)
    /\ fetched \subseteq Revoked /\ Cardinality(fetched) <= Limit + 1
    /\ cursor \in (0..(now + Skew)) \cup {None}
    /\ complete \in BOOLEAN
    /\ got \subseteq Revoked
    /\ matched \subseteq Revoked
    /\ raced \subseteq Pack /\ behind \subseteq Pack /\ aged \subseteq Revoked

\* The revocations the client will never hear of: its cursor is past them.
Missed ==
    {p \in Revoked \ got: cursor # None /\ revokedAt[p] <= cursor}

\* They share their time with one that was delivered: the limit cut between.
Tied == {p \in Revoked: \E q \in got: revokedAt[q] = revokedAt[p]}

\* Which revocations the feed can lose: one whose transaction overlapped a
\* request of the client; one that began no later, by the database's clock, than
\* the cursor the client had from an instance whose clock was ahead (or read the
\* same); one cut off at the limit from another of the same time; and one older
\* than the window, by the clock of the instance, when the client asked.  Every
\* other is delivered, whatever requests and answers are lost.
OnlyRacesAreMissed == Missed \subseteq raced \cup behind \cup Tied \cup aged

\* "complete": the client has everything that had been revoked when the
\* service looked, as far back as the request asked.
CompleteMeansAll == complete => matched \subseteq got

\* A client that keeps asking gets past every revocation: the feed may send some
\* again, from an instance whose clock is behind, but is never stuck at them.
FeedCatchesUp ==
    \A p \in Pack: p \in Revoked ~> p \in got \cup Missed \cup aged

\* "Incremental revocation feed": a client that follows the cursor from answer
\* to answer, within the window, is told of every revocation.
NothingMissed == Missed \subseteq aged
=============================================================================
