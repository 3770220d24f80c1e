-------------------------- MODULE PackStoreProofs ---------------------------
(***************************************************************************)
(* Theorems about PackStore for every set of requests, packs, sessions and  *)
(* keys, with or without failures.                                          *)
(***************************************************************************)
EXTENDS PackStore, FiniteSetTheorems, TLAPS

\* Where the handler is says what it is working on.
JobOfLabel(r) ==
    /\ pc[r] \in {"getPackForSession", "lockPackSession", "lockPack",
                  "findConsumption"} => job[r] \in ConsumeJob
    /\ pc[r] = "revokePackSession" => job[r] \in LogoutJob
    /\ pc[r] \in {"getPack", "deleteSession", "lockOldSession",
                  "insertSession", "checkForeignKey", "rollback"}
         => job[r] \in SessionJob
    /\ pc[r] = "revokePack" => job[r] \in RevokeJob
    /\ pc[r] = "consumeNonce" => job[r] \in SessionJob \cup RevokeJob
    /\ pc[r] \in {"begin", "commit", "awaitCommit"} \/ tx[r] # "none"
         => job[r] \in Job
    /\ job[r] \in SessionJob \cup RevokeJob => jti[r] \in Pack
    /\ job[r] \in ConsumeJob /\ (pc[r] = "begin" \/ tx[r] # "none")
         => jti[r] \in Pack

\* The handler's place, its transaction and what it found go together.
Progress(r) ==
    /\ pc[r] \in {"idle", "getPackForSession", "getPack", "consumeNonce",
                  "begin"} => tx[r] = "none"
    /\ pc[r] \in {"lockPackSession", "lockPack", "findConsumption",
                  "revokePackSession", "revokePack", "deleteSession",
                  "lockOldSession", "insertSession", "checkForeignKey",
                  "rollback", "commit"} => tx[r] \in {"open", "aborted"}
    /\ tx[r] = "committing" => pc[r] \in {"awaitCommit", "done"}
    /\ tx[r] = "open" => pc[r] # "done"
    /\ tx[r] \in {"dropped", "left"} => pc[r] = "done"
    /\ outcome[r] # None => pc[r] \in {"commit", "awaitCommit", "done"}
    /\ pc[r] \in {"commit", "awaitCommit"} => outcome[r] # None
    /\ outcome[r] = "Consumed" => job[r] \in ConsumeJob
    /\ outcome[r] = "Done" => job[r] \notin ConsumeJob
    /\ tx[r] \in {"none", "left"} => held[r] = {}
    /\ pc[r] = "idle" => job[r] = None

\* No two transactions hold locks that conflict.
LocksExclude ==
    \A r, q \in Req: r # q =>
        \A l \in held[r], m \in held[q]: ~Conflict(l, m)

\* r's DELETE is done, and its COMMIT can still come.
HasDeleted(r) ==
    \/ tx[r] = "committing"
    \/ tx[r] = "open" /\ pc[r] \in {"insertSession", "checkForeignKey", "commit"}

\* Which lock protects what the handler remembers.
Protected(r) ==
    /\ Live(r) /\ pc[r] = "findConsumption" =>
         /\ <<"update", jti[r]>> \in held[r]
         /\ seen[r] = [used |-> used[jti[r]], revoked |-> revoked[jti[r]]]
    /\ Live(r) /\ (pc[r] \in {"lockPack", "findConsumption"}
                   \/ outcome[r] = "Consumed") =>
         LET s == job[r].secret IN
         /\ <<"session", s>> \in held[r]
         /\ sessions[s] # None
         /\ sessions[s].jti = jti[r]
         /\ ~sessions[s].revoked
    /\ Live(r) /\ outcome[r] = "Consumed" =>
         /\ <<"update", jti[r]>> \in held[r]
         /\ row[r] = [id |-> r, jti |-> jti[r], key |-> job[r].key,
                      resource |-> job[r].resource,
                      remaining |-> Total[jti[r]] - used[jti[r]] - 1]
         /\ used[jti[r]] < Total[jti[r]]
         /\ ~revoked[jti[r]]
         /\ \A u \in uses: ~(u.jti = jti[r] /\ u.key = job[r].key)
    /\ Live(r) /\ job[r] \in RevokeJob /\ outcome[r] = "Done" =>
         <<"noKeyUpdate", jti[r]>> \in held[r] /\ ~revoked[jti[r]]
    /\ pc[r] = "lockOldSession" => old[r] \in Secret
    /\ HasDeleted(r) /\ old[r] # None => <<"session", old[r]>> \in held[r]
    /\ old[r] # None => job[r] \in SessionJob
    /\ sessions[r] # None => tx[r] = "committed"

\* An activation owns the pack's index entry from its first change to its end,
\* and then the only session of the pack is the one it deletes.
HasInserted(r) ==
    /\ job[r] \in SessionJob
    /\ \/ tx[r] = "committing"
       \/ tx[r] = "open" /\ pc[r] \in {"checkForeignKey", "commit"}

Replacing(r) ==
    /\ HasInserted(r) => <<"slot", jti[r]>> \in held[r]
    /\ \A p \in Pack: <<"slot", p>> \in held[r] =>
         /\ p = jti[r] /\ pc[r] \notin {"deleteSession", "lockOldSession"}
         /\ \A s \in SessionsOf(p): s = old[r] /\ <<"session", s>> \in held[r]
    /\ old[r] # None /\ sessions[old[r]] # None
         => sessions[old[r]].jti = jti[r]
    /\ old[r] \in Req => tx[old[r]] = "committed"
    /\ old[r] # None =>
         pc[r] \in {"lockOldSession", "insertSession", "checkForeignKey",
                   "rollback", "commit", "awaitCommit", "done"}

OneSession ==
    \A s, t \in Secret:
        /\ sessions[s] # None /\ sessions[t] # None
        /\ sessions[s].jti = sessions[t].jti
        => s = t

\* A locked session row is there.
LockedRowsExist ==
    \A r \in Req, s \in Secret: <<"session", s>> \in held[r] => sessions[s] # None

SafeInv ==
    /\ TypeOK
    /\ LocksExclude
    /\ LockedRowsExist
    /\ OneSession
    /\ \A r \in Req:
         JobOfLabel(r) /\ Progress(r) /\ Protected(r) /\ Replacing(r)

-----------------------------------------------------------------------------
USE NoneAssumption, NameAssumption, CookieAssumption, PackAssumption,
    TimeAssumption, ChallengeAssumption, ConfigAssumption

\* Before the first request.
LEMMA InitInv == Init => SafeInv
<1> SUFFICES ASSUME Init PROVE SafeInv
  OBVIOUS
<1>1. TypeOK
  BY DEF Init, TypeOK, Min2, Session, Secret, Time, Labels
<1>2. LocksExclude /\ LockedRowsExist
  BY DEF Init, LocksExclude, LockedRowsExist
<1>3. OneSession
  BY OneCookieAssumption DEF Init, OneSession, Secret
<1>4. ASSUME NEW r \in Req
      PROVE JobOfLabel(r) /\ Progress(r) /\ Protected(r) /\ Replacing(r)
  <2>1. /\ pc[r] = "idle" /\ tx[r] = "none" /\ job[r] = None
        /\ old[r] = None /\ outcome[r] = None /\ held[r] = {}
        /\ sessions[r] = None
    BY DEF Init, Secret
  <2>2. None \notin Job /\ None \notin {"Consumed", "Done"}
    BY DEF Outcomes
  <2> QED
    BY <2>1, <2>2
    DEF JobOfLabel, Progress, Protected, HasDeleted, Live, Job, Replacing,
        HasInserted, Secret
<1> QED
  BY <1>1, <1>2, <1>3, <1>4 DEF SafeInv

\* What a client asks for is told by its op.
LEMMA JobFields ==
    ASSUME NEW j \in Job
    PROVE  /\ j # None
           /\ j.op \in {"consume", "logout", "session", "revoke"}
           /\ j \in ConsumeJob <=> j.op = "consume"
           /\ j \in LogoutJob <=> j.op = "logout"
           /\ j \in SessionJob <=> j.op = "session"
           /\ j \in RevokeJob <=> j.op = "revoke"
           /\ j \in ConsumeJob =>
                j.secret \in Secret /\ j.key \in Key /\ j.resource \in Resource
           /\ j \in LogoutJob => j.secret \in Secret
           /\ j \in SessionJob => j.jti \in Pack /\ j.challenge \in Challenge
           /\ j \in RevokeJob => j.challenge \in Challenge
           /\ j \in SessionJob \cup RevokeJob =>
                j.challenge.jti \in Pack /\ j.challenge.wallet \in Wallet
BY DEF Job, ConsumeJob, LogoutJob, SessionJob, RevokeJob

\* Nothing of any other request changes, and no committed row.
OnlyOwn(r) ==
    /\ UNCHANGED <<used, revoked, uses, sessions>>
    /\ \A q \in Req \ {r}:
         /\ pc'[q] = pc[q] /\ job'[q] = job[q] /\ jti'[q] = jti[q]
         /\ tx'[q] = tx[q] /\ held'[q] = held[q] /\ seen'[q] = seen[q]
         /\ old'[q] = old[q] /\ row'[q] = row[q] /\ outcome'[q] = outcome[q]
    /\ tx[r] = "committed" => tx'[r] = "committed"

\* Such a step need only be looked at where it changes something.
LEMMA OwnStep ==
    ASSUME SafeInv, NEW r \in Req, OnlyOwn(r), TypeOK', LocksExclude',
           LockedRowsExist', JobOfLabel(r)', Progress(r)', Protected(r)',
           Replacing(r)'
    PROVE  SafeInv'
<1>1. ASSUME NEW q \in Req, q # r
      PROVE JobOfLabel(q)' /\ Progress(q)' /\ Protected(q)' /\ Replacing(q)'
  <2>1. JobOfLabel(q) /\ Progress(q) /\ Protected(q) /\ Replacing(q)
    BY DEF SafeInv
  <2>2. JobOfLabel(q)' /\ Progress(q)' /\ Protected(q)'
    BY <1>1, <2>1
    DEF OnlyOwn, JobOfLabel, Progress, Protected, HasDeleted, Live
  <2>3. Replacing(q)'
    BY <1>1, <2>1 DEF OnlyOwn, Replacing, HasInserted, SessionsOf
  <2> QED
    BY <2>2, <2>3
<1>2. OneSession'
  BY DEF SafeInv, OneSession, OnlyOwn
<1> QED
  BY <1>1, <1>2 DEF SafeInv

\* When no lock is added, the locks still exclude each other.
LEMMA NoNewLock ==
    ASSUME SafeInv, NEW r \in Req, UNCHANGED sessions,
           \/ UNCHANGED held \/ held' = [held EXCEPT ![r] = {}]
    PROVE  LocksExclude' /\ LockedRowsExist'
BY DEF SafeInv, TypeOK, LocksExclude, LockedRowsExist

\* What the lock table says, for the locks that matter below.
LEMMA Conflicts ==
    ASSUME NEW a, NEW b
    PROVE  /\ Conflict(<<"session", a>>, <<"session", a>>)
           /\ Conflict(<<"slot", a>>, <<"slot", a>>)
           /\ Conflict(<<"update", a>>, <<"update", a>>)
           /\ Conflict(<<"update", a>>, <<"noKeyUpdate", a>>)
           /\ Conflict(<<"noKeyUpdate", a>>, <<"update", a>>)
           /\ Conflict(<<"noKeyUpdate", a>>, <<"noKeyUpdate", a>>)
BY DEF Conflict

\* Who waits for whom is symmetric.
LEMMA ConflictSymmetric ==
    ASSUME NEW l, NEW m, Conflict(l, m)
    PROVE  Conflict(m, l)
<1>1. {l[1], m[1]} = {m[1], l[1]}
  OBVIOUS
<1> QED
  BY <1>1 DEF Conflict

\* Locks that were waited for exclude the locks they conflict with.
LEMMA TakeLocks ==
    ASSUME SafeInv, NEW r \in Req, NEW l \in Lock, NEW m \in Lock,
           Free(r, l), Free(r, m), UNCHANGED sessions,
           held' = [held EXCEPT ![r] = @ \cup {l, m}],
           \A s \in Secret: <<"session", s>> \in {l, m} => sessions[s] # None
    PROVE  LocksExclude' /\ LockedRowsExist'
<1>1. held \in [Req -> SUBSET Lock] /\ LocksExclude /\ LockedRowsExist
  BY DEF SafeInv, TypeOK
<1>2. /\ held'[r] = held[r] \cup {l, m}
      /\ \A q \in Req \ {r}: held'[q] = held[q]
  BY <1>1
<1>3. LocksExclude'
  <2> SUFFICES ASSUME NEW q1 \in Req, NEW q2 \in Req, q1 # q2,
                      NEW l1 \in held'[q1], NEW l2 \in held'[q2]
               PROVE  ~Conflict(l1, l2)
    BY DEF LocksExclude
  <2>1. CASE l1 \in held[q1] /\ l2 \in held[q2]
    BY <1>1, <2>1 DEF LocksExclude
  <2>2. CASE l1 \notin held[q1]
    <3>1. q1 = r /\ l1 \in {l, m} /\ l2 \in held[q2]
      BY <1>2, <2>2
    <3> QED
      BY <3>1 DEF Free
  <2>3. CASE l2 \notin held[q2]
    <3>1. q2 = r /\ l2 \in {l, m} /\ l1 \in held[q1]
      BY <1>2, <2>3
    <3> QED
      BY <3>1, ConflictSymmetric DEF Free
  <2> QED
    BY <2>1, <2>2, <2>3
<1>4. LockedRowsExist'
  BY <1>1, <1>2 DEF LockedRowsExist
<1> QED
  BY <1>3, <1>4

\* The same, for one lock.
LEMMA TakeLock ==
    ASSUME SafeInv, NEW r \in Req, NEW l \in Lock, Free(r, l),
           UNCHANGED sessions, held' = [held EXCEPT ![r] = @ \cup {l}],
           \A s \in Secret: l = <<"session", s>> => sessions[s] # None
    PROVE  LocksExclude' /\ LockedRowsExist'
<1>1. {l, l} = {l}
  OBVIOUS
<1> QED
  BY <1>1, TakeLocks

\* A handler that answers touches nothing but its own place and answer.
LEMMA RefuseInv ==
    ASSUME SafeInv, NEW r \in Req, NEW a \in Replies, Refuse(r, a),
           tx[r] # "open"
    PROVE  SafeInv'
<1> USE DEF Refuse, Answer, Goto, tables, scratch
<1>1. /\ TypeOK /\ JobOfLabel(r) /\ Progress(r) /\ Protected(r)
      /\ Replacing(r)
  BY DEF SafeInv
<1>2. OnlyOwn(r)
  BY <1>1 DEF OnlyOwn, TypeOK
<1>3. TypeOK'
  BY <1>1 DEF TypeOK, Labels
<1>4. LocksExclude' /\ LockedRowsExist'
  BY NoNewLock
<1>5. JobOfLabel(r)' /\ Progress(r)' /\ Protected(r)'
  BY <1>1, JobFields
  DEF JobOfLabel, Progress, Protected, HasDeleted, Live, TypeOK
<1>6. Replacing(r)'
  BY <1>1
  DEF Replacing, HasInserted, SessionsOf, TypeOK, Progress, Protected
<1> QED
  BY <1>2, <1>3, <1>4, <1>5, <1>6, OwnStep

\* A request arrives.
LEMMA StartInv ==
    ASSUME SafeInv, NEW r \in Req, Start(r)
    PROVE  SafeInv'
<1> USE DEF At, Goto, tables
<1>1. /\ TypeOK /\ JobOfLabel(r) /\ Progress(r) /\ Protected(r)
      /\ Replacing(r)
      /\ At(r, "idle")
      /\ UNCHANGED <<now, tables, held, tx, txNow, expires, seen, old, row,
                     outcome, reply>>
  BY DEF SafeInv, Start
<1>2. PICK j \in Job: Start(r)!2!(j)
  BY DEF Start
<1> DEFINE p == CASE j.op = "session" -> j.jti
                  [] j.op = "revoke" -> j.challenge.jti
                  [] OTHER -> None
           l == CASE j.op = "consume" -> "getPackForSession"
                  [] j.op = "logout" -> "begin"
                  [] j.op = "session" -> "getPack"
                  [] j.op = "revoke" -> "consumeNonce"
<1>3. /\ job' = [job EXCEPT ![r] = j]
      /\ jti' = [jti EXCEPT ![r] = p]
      /\ pc' = [pc EXCEPT ![r] = l]
  BY <1>2
<1>4. /\ p \in Pack \cup {None} /\ l \in Labels
      /\ j \in SessionJob \cup RevokeJob => p \in Pack
      /\ l = "getPackForSession" => j \in ConsumeJob
      /\ l = "getPack" => j \in SessionJob
      /\ l = "consumeNonce" => j \in SessionJob \cup RevokeJob
      /\ l = "begin" => j \notin ConsumeJob
      /\ l \in {"getPackForSession", "getPack", "consumeNonce", "begin"}
  BY JobFields DEF Labels
<1> HIDE DEF p, l
<1>5. OnlyOwn(r)
  BY <1>1, <1>3 DEF OnlyOwn, TypeOK
<1>6. TypeOK'
  BY <1>1, <1>3, <1>4 DEF TypeOK
<1>7. LocksExclude' /\ LockedRowsExist'
  BY <1>1, NoNewLock
<1>8. JobOfLabel(r)' /\ Progress(r)' /\ Protected(r)'
  <2>1. tx'[r] = "none" /\ outcome'[r] = None /\ old'[r] = None
    BY <1>1 DEF Progress, Protected, Job
  <2> QED
    BY <1>1, <1>3, <1>4, <2>1
    DEF JobOfLabel, Progress, Protected, HasDeleted, Live, TypeOK, Outcomes
<1>9. Replacing(r)'
  <2>1. tx'[r] = "none" /\ old'[r] = None /\ held'[r] = {}
    BY <1>1 DEF Progress, Protected, Job
  <2> QED
    BY <2>1 DEF Replacing, HasInserted, Secret
<1> QED
  BY <1>5, <1>6, <1>7, <1>8, <1>9, OwnStep

\* NOW() is a time of the clock.
LEMMA BeginTimesAreTimes ==
    ASSUME TypeOK
    PROVE  BeginTimes \subseteq Time
BY DEF TypeOK, BeginTimes

\* BEGIN.
LEMMA OpenTransactionInv ==
    ASSUME SafeInv, NEW r \in Req, OpenTransaction(r)
    PROVE  SafeInv'
<1> USE DEF OpenTransaction, FirstStatement, At, Goto, tables
<1>1. /\ TypeOK /\ JobOfLabel(r) /\ Progress(r) /\ Protected(r)
      /\ Replacing(r)
  BY DEF SafeInv
<1>2. job[r] \in Job /\ job[r].op \in {"consume", "logout", "session", "revoke"}
  BY <1>1, JobFields DEF JobOfLabel
<1>3. OnlyOwn(r)
  BY <1>1, <1>2 DEF OnlyOwn, TypeOK, Progress
<1>4. TypeOK'
  BY <1>1, <1>2, BeginTimesAreTimes DEF TypeOK, Labels
<1>5. LocksExclude' /\ LockedRowsExist'
  BY NoNewLock
<1>6. JobOfLabel(r)' /\ Progress(r)' /\ Protected(r)'
  BY <1>1, <1>2, JobFields
  DEF JobOfLabel, Progress, Protected, HasDeleted, Live, TypeOK, Outcomes, Job
<1>7. Replacing(r)'
  BY <1>1, <1>2
  DEF Replacing, HasInserted, SessionsOf, TypeOK, Progress, Protected
<1> QED
  BY <1>3, <1>4, <1>5, <1>6, <1>7, OwnStep

\* A statement that finds nothing to lock settles the transaction.
LEMMA SettleInv ==
    ASSUME SafeInv, NEW r \in Req, NEW result \in Outcomes \ {"Consumed"},
           tx[r] = "open", Settle(r, result),
           pc[r] \in {"lockPackSession", "revokePackSession", "revokePack"},
           result = "Done" => job[r] \in LogoutJob,
           UNCHANGED <<now, tables, held, tx, scratch, reply>>
    PROVE  SafeInv'
<1>1. /\ TypeOK /\ JobOfLabel(r) /\ Progress(r) /\ Protected(r)
      /\ Replacing(r)
  BY DEF SafeInv
<1>2. /\ job[r] \in Job /\ job[r] \notin SessionJob /\ old[r] = None
      /\ result = "Done" => job[r] \notin ConsumeJob \cup RevokeJob
  BY <1>1, JobFields DEF JobOfLabel, Job, Protected
<1>3. OnlyOwn(r)
  BY <1>1 DEF OnlyOwn, TypeOK, Settle, Goto, tables, scratch
<1>4. TypeOK'
  BY <1>1 DEF TypeOK, Labels, Settle, Goto, tables, scratch
<1>5. LocksExclude' /\ LockedRowsExist'
  BY NoNewLock DEF tables
<1>6. JobOfLabel(r)' /\ Progress(r)'
  BY <1>1, <1>2
  DEF JobOfLabel, Progress, TypeOK, Settle, Goto, tables, scratch, Outcomes
<1>7. Protected(r)'
  BY <1>1, <1>2
  DEF Protected, HasDeleted, Live, TypeOK, Settle, Goto, tables, scratch
<1>8. Replacing(r)'
  BY <1>1, <1>2
  DEF Replacing, HasInserted, SessionsOf, TypeOK, Settle, Goto, tables, scratch,
      Secret
<1> QED
  BY <1>3, <1>4, <1>5, <1>6, <1>7, <1>8, OwnStep

\* A statement that locks its row and settles the transaction.
LEMMA LockAndSettleInv ==
    ASSUME SafeInv, NEW r \in Req, NEW l \in Lock,
           tx[r] = "open", Acquire(r, l), Settle(r, "Done"),
           pc[r] \in {"revokePackSession", "revokePack", "checkForeignKey"},
           l[1] \notin {"slot"},
           \A s \in Secret: l = <<"session", s>> => sessions[s] # None,
           job[r] \in RevokeJob =>
             l = <<"noKeyUpdate", jti[r]>> /\ ~revoked[jti[r]],
           UNCHANGED <<now, tables, tx, scratch, reply>>
    PROVE  SafeInv'
<1>1. /\ TypeOK /\ JobOfLabel(r) /\ Progress(r) /\ Protected(r)
      /\ Replacing(r)
  BY DEF SafeInv
<1>2. /\ job[r] \in Job /\ job[r] \notin ConsumeJob
      /\ job[r] \in SessionJob => pc[r] = "checkForeignKey"
  BY <1>1, JobFields DEF JobOfLabel, Job
<1>3. /\ held'[r] = held[r] \cup {l}
      /\ \A p \in Pack: <<"slot", p>> \in held'[r] => <<"slot", p>> \in held[r]
  BY <1>1 DEF TypeOK, Acquire
<1>4. OnlyOwn(r)
  BY <1>1 DEF OnlyOwn, TypeOK, Settle, Goto, Acquire, tables, scratch
<1>5. TypeOK'
  BY <1>1 DEF TypeOK, Labels, Outcomes, Settle, Goto, Acquire, tables, scratch
<1>6. LocksExclude' /\ LockedRowsExist'
  BY TakeLock DEF Acquire, tables
<1>7. JobOfLabel(r)' /\ Progress(r)'
  BY <1>1, <1>2
  DEF JobOfLabel, Progress, TypeOK, Settle, Goto, tables, scratch, Outcomes
<1>8. Protected(r)'
  BY <1>1, <1>2, <1>3
  DEF Protected, HasDeleted, Live, TypeOK, Settle, Goto, tables, scratch
<1>9. Replacing(r)'
  BY <1>1, <1>2, <1>3
  DEF Replacing, HasInserted, SessionsOf, TypeOK, Settle, Goto, tables, scratch
<1> QED
  BY <1>4, <1>5, <1>6, <1>7, <1>8, <1>9, OwnStep

\* The session's row is locked, or is not there.
LEMMA LockPackSessionInv ==
    ASSUME SafeInv, NEW r \in Req, LockPackSession(r)
    PROVE  SafeInv'
<1> DEFINE s == job[r].secret
<1>1. /\ TypeOK /\ JobOfLabel(r) /\ Progress(r) /\ Protected(r)
      /\ Replacing(r)
  BY DEF SafeInv
<1>2. /\ pc[r] = "lockPackSession" /\ tx[r] = "open"
      /\ UNCHANGED <<now, tables, tx, scratch, reply>>
      /\ \/ /\ Usable(s, jti[r], txNow[r]) /\ Acquire(r, <<"session", s>>)
            /\ Goto(r, "lockPack") /\ UNCHANGED outcome
         \/ Settle(r, "NotFound") /\ UNCHANGED held
  BY DEF LockPackSession, InTx, At
<1>3. /\ job[r] \in Job /\ job[r] \in ConsumeJob /\ s \in Secret
      /\ jti[r] \in Pack /\ job[r] \notin SessionJob /\ job[r] \notin RevokeJob
      /\ <<"session", s>> \in Lock /\ old[r] = None /\ outcome[r] = None
  BY <1>1, <1>2, JobFields DEF JobOfLabel, Job, Lock, Protected, Progress
<1> HIDE DEF s
<1>4. CASE /\ Usable(s, jti[r], txNow[r]) /\ Acquire(r, <<"session", s>>)
           /\ Goto(r, "lockPack") /\ UNCHANGED outcome
  <2>1. OnlyOwn(r)
    BY <1>1, <1>2, <1>4 DEF OnlyOwn, TypeOK, Acquire, Goto, tables, scratch
  <2>2. TypeOK'
    BY <1>1, <1>2, <1>3, <1>4
    DEF TypeOK, Labels, Acquire, Goto, tables, scratch
  <2>3. LocksExclude' /\ LockedRowsExist'
    BY <1>2, <1>3, <1>4, TakeLock DEF Acquire, Usable, tables
  <2>4. JobOfLabel(r)' /\ Progress(r)'
    BY <1>1, <1>2, <1>3, <1>4
    DEF JobOfLabel, Progress, TypeOK, Goto, tables, scratch
  <2>5. Protected(r)'
    BY <1>1, <1>2, <1>3, <1>4
    DEF Protected, HasDeleted, Live, TypeOK, Acquire, Goto, Usable, tables,
        scratch, Outcomes, s
  <2>6. Replacing(r)'
    BY <1>1, <1>2, <1>3, <1>4
    DEF Replacing, HasInserted, SessionsOf, TypeOK, Acquire, Goto, tables,
        scratch, Secret
  <2> QED
    BY <2>1, <2>2, <2>3, <2>4, <2>5, <2>6, OwnStep
<1>5. CASE Settle(r, "NotFound") /\ UNCHANGED held
  BY <1>2, <1>5, SettleInv DEF Outcomes
<1> QED
  BY <1>2, <1>4, <1>5

\* The pack's row is locked and read.
LEMMA LockPackInv ==
    ASSUME SafeInv, NEW r \in Req, LockPack(r)
    PROVE  SafeInv'
<1>1. /\ TypeOK /\ JobOfLabel(r) /\ Progress(r) /\ Protected(r)
      /\ Replacing(r)
  BY DEF SafeInv
<1>2. /\ pc[r] = "lockPack" /\ tx[r] = "open"
      /\ Acquire(r, <<"update", jti[r]>>) /\ Goto(r, "findConsumption")
      /\ seen' = [seen EXCEPT ![r] =
           [used |-> used[jti[r]], revoked |-> revoked[jti[r]]]]
      /\ UNCHANGED <<now, tables, tx, job, jti, txNow, expires, old, row,
                     outcome, reply>>
  BY DEF LockPack, InTx, At
<1>3. /\ job[r] \in Job /\ job[r] \in ConsumeJob /\ jti[r] \in Pack
      /\ job[r] \notin SessionJob /\ job[r] \notin RevokeJob
      /\ <<"update", jti[r]>> \in Lock /\ old[r] = None /\ outcome[r] = None
  BY <1>1, <1>2, JobFields DEF JobOfLabel, Job, Lock, Protected, Progress
<1>4. held'[r] = held[r] \cup {<<"update", jti[r]>>}
  BY <1>1, <1>2 DEF TypeOK, Acquire
<1>5. OnlyOwn(r)
  BY <1>1, <1>2 DEF OnlyOwn, TypeOK, Acquire, Goto, tables
<1>6. TypeOK'
  BY <1>1, <1>2, <1>3 DEF TypeOK, Labels, Acquire, Goto, tables
<1>7. LocksExclude' /\ LockedRowsExist'
  BY <1>2, <1>3, TakeLock DEF Acquire, tables
<1>8. JobOfLabel(r)' /\ Progress(r)'
  BY <1>1, <1>2, <1>3 DEF JobOfLabel, Progress, TypeOK, Goto, tables
<1>9. Protected(r)'
  BY <1>1, <1>2, <1>3, <1>4
  DEF Protected, HasDeleted, Live, TypeOK, Goto, tables, Outcomes
<1>10. Replacing(r)'
  BY <1>1, <1>2, <1>3, <1>4
  DEF Replacing, HasInserted, SessionsOf, TypeOK, Goto, tables, Secret
<1> QED
  BY <1>5, <1>6, <1>7, <1>8, <1>9, <1>10, OwnStep

\* The key is looked up and a fresh one is charged or refused.
LEMMA FindConsumptionInv ==
    ASSUME SafeInv, NEW r \in Req, FindConsumption(r)
    PROVE  SafeInv'
<1>1. /\ TypeOK /\ JobOfLabel(r) /\ Progress(r) /\ Protected(r)
      /\ Replacing(r)
  BY DEF SafeInv
<1>2. /\ pc[r] = "findConsumption" /\ tx[r] = "open"
      /\ seen' = [seen EXCEPT ![r] = None]
      /\ UNCHANGED <<now, tables, held, tx, job, jti, txNow, expires, old,
                     reply>>
  BY DEF FindConsumption, InTx, At
<1>3. /\ job[r] \in Job /\ job[r] \in ConsumeJob /\ jti[r] \in Pack
      /\ job[r] \notin SessionJob /\ job[r] \notin RevokeJob
      /\ job[r].key \in Key /\ job[r].resource \in Resource
      /\ old[r] = None /\ outcome[r] = None
  BY <1>1, <1>2, JobFields DEF JobOfLabel, Job, Protected, Progress
<1>4. /\ seen[r].used = used[jti[r]] /\ seen[r].revoked = revoked[jti[r]]
      /\ used[jti[r]] \in Nat /\ Total[jti[r]] \in Nat
      /\ <<"update", jti[r]>> \in held[r]
  BY <1>1, <1>2, <1>3 DEF Protected, Live, TypeOK
<1>5. /\ FreshOutcome(r) \in {"Revoked", "Expired", "Exhausted", "Consumed"}
      /\ FreshOutcome(r) = "Consumed" =>
           ~revoked[jti[r]] /\ used[jti[r]] < Total[jti[r]]
  BY <1>1, <1>3, <1>4 DEF FreshOutcome, TypeOK, Time
<1>6. used[jti[r]] < Total[jti[r]] => NewUse(r) \in Use
  BY <1>3, <1>4 DEF NewUse, Use
<1>7. PICK result \in Outcomes \ {"Done"}, u \in Use \cup {None}:
        /\ Settle(r, result)
        /\ row' = [row EXCEPT ![r] = u]
        /\ result = "Consumed" =>
             /\ u = NewUse(r)
             /\ Earlier(r) = {}
             /\ ~revoked[jti[r]] /\ used[jti[r]] < Total[jti[r]]
  <2> {"Replayed", "Conflict"} \subseteq Outcomes \ {"Done", "Consumed"}
    BY DEF Outcomes
  <2>1. CASE \E v \in Earlier(r): Settle(r, "Replayed")
                                   /\ row' = [row EXCEPT ![r] = v]
    <3>1. PICK v \in Earlier(r): Settle(r, "Replayed")
                                   /\ row' = [row EXCEPT ![r] = v]
      BY <2>1
    <3>2. v \in Use
      BY <1>1 DEF Earlier, TypeOK
    <3> QED
      BY <3>1, <3>2
  <2>2. CASE Settle(r, "Conflict") /\ UNCHANGED row
    <3>1. row' = [row EXCEPT ![r] = row[r]] /\ row[r] \in Use \cup {None}
      BY <1>1, <2>2 DEF TypeOK
    <3> QED
      BY <2>2, <3>1
  <2>3. CASE /\ Earlier(r) = {} /\ Settle(r, FreshOutcome(r))
             /\ row' = [row EXCEPT ![r] =
                  IF FreshOutcome(r) = "Consumed" THEN NewUse(r) ELSE None]
    BY <1>5, <1>6, <2>3 DEF Outcomes
  <2> QED
    BY <2>1, <2>2, <2>3 DEF FindConsumption
<1>8. OnlyOwn(r)
  BY <1>1, <1>2, <1>7 DEF OnlyOwn, TypeOK, Settle, Goto, tables
<1>9. TypeOK'
  BY <1>1, <1>2, <1>7 DEF TypeOK, Labels, Settle, Goto, tables
<1>10. LocksExclude' /\ LockedRowsExist'
  BY <1>2, NoNewLock DEF tables
<1>11. JobOfLabel(r)' /\ Progress(r)'
  BY <1>1, <1>2, <1>3, <1>7
  DEF JobOfLabel, Progress, TypeOK, Settle, Goto, tables, Outcomes
<1>12. Protected(r)'
  <2>1. outcome'[r] = result /\ row'[r] = u
    BY <1>1, <1>7 DEF TypeOK, Settle
  <2> QED
    BY <1>1, <1>2, <1>3, <1>4, <1>7, <2>1
    DEF Protected, HasDeleted, Live, TypeOK, Settle, Goto, tables, NewUse,
        Earlier
<1>13. Replacing(r)'
  BY <1>1, <1>2, <1>3, <1>7
  DEF Replacing, HasInserted, SessionsOf, TypeOK, Settle, Goto, tables, Secret
<1> QED
  BY <1>8, <1>9, <1>10, <1>11, <1>12, <1>13, OwnStep

\* The logged-out session's row is locked, or there is none.
LEMMA RevokePackSessionInv ==
    ASSUME SafeInv, NEW r \in Req, RevokePackSession(r)
    PROVE  SafeInv'
<1> DEFINE s == job[r].secret
<1>1. /\ pc[r] = "revokePackSession" /\ tx[r] = "open"
      /\ Settle(r, "Done") /\ UNCHANGED <<now, tables, tx, scratch, reply>>
      /\ \/ sessions[s] # None /\ Acquire(r, <<"session", s>>)
         \/ UNCHANGED held
  BY DEF RevokePackSession, InTx, At
<1>2. /\ job[r] \in Job /\ job[r] \in LogoutJob /\ job[r] \notin RevokeJob
      /\ s \in Secret /\ <<"session", s>> \in Lock
  BY <1>1, JobFields DEF SafeInv, JobOfLabel, Job, Lock
<1> HIDE DEF s
<1>3. CASE sessions[s] # None /\ Acquire(r, <<"session", s>>)
  BY <1>1, <1>2, <1>3, LockAndSettleInv
<1>4. CASE UNCHANGED held
  BY <1>1, <1>2, <1>4, SettleInv DEF Outcomes
<1> QED
  BY <1>1, <1>3, <1>4

\* The revoked pack's row is locked, or it is not there for this wallet.
LEMMA RevokePackInv ==
    ASSUME SafeInv, NEW r \in Req, RevokePack(r)
    PROVE  SafeInv'
<1>1. /\ pc[r] = "revokePack" /\ tx[r] = "open"
      /\ UNCHANGED <<now, tables, tx, scratch, reply>>
      /\ \/ /\ ~revoked[jti[r]] /\ Acquire(r, <<"noKeyUpdate", jti[r]>>)
            /\ Settle(r, "Done")
         \/ Settle(r, "NotFound") /\ UNCHANGED held
  BY DEF RevokePack, InTx, At
<1>2. /\ job[r] \in RevokeJob /\ jti[r] \in Pack
      /\ <<"noKeyUpdate", jti[r]>> \in Lock
  BY <1>1 DEF SafeInv, JobOfLabel, Lock
<1>3. CASE /\ ~revoked[jti[r]] /\ Acquire(r, <<"noKeyUpdate", jti[r]>>)
           /\ Settle(r, "Done")
  BY <1>1, <1>2, <1>3, LockAndSettleInv
<1>4. CASE Settle(r, "NotFound") /\ UNCHANGED held
  BY <1>1, <1>4, SettleInv DEF Outcomes
<1> QED
  BY <1>1, <1>3, <1>4

\* The foreign key's lock on the pack.
LEMMA CheckForeignKeyInv ==
    ASSUME SafeInv, NEW r \in Req, CheckForeignKey(r)
    PROVE  SafeInv'
<1>1. /\ pc[r] = "checkForeignKey" /\ tx[r] = "open"
      /\ UNCHANGED <<now, tables, tx, scratch, reply>>
      /\ Acquire(r, <<"keyShare", jti[r]>>) /\ Settle(r, "Done")
  BY DEF CheckForeignKey, InTx, At
<1>2. /\ job[r] \in Job /\ job[r] \in SessionJob /\ job[r] \notin RevokeJob
      /\ jti[r] \in Pack /\ <<"keyShare", jti[r]>> \in Lock
  BY <1>1, JobFields DEF SafeInv, JobOfLabel, Job, Lock
<1> QED
  BY <1>1, <1>2, LockAndSettleInv

\* The session to replace is chosen.
LEMMA DeleteSessionInv ==
    ASSUME SafeInv, NEW r \in Req, DeleteSession(r)
    PROVE  SafeInv'
<1>1. /\ TypeOK /\ JobOfLabel(r) /\ Progress(r) /\ Protected(r)
      /\ Replacing(r)
  BY DEF SafeInv
<1>2. /\ pc[r] = "deleteSession" /\ tx[r] = "open"
      /\ UNCHANGED <<now, tables, held, tx, job, jti, txNow, expires, seen,
                     row, outcome, reply>>
      /\ \/ \E s \in SessionsOf(jti[r]):
               old' = [old EXCEPT ![r] = s] /\ Goto(r, "lockOldSession")
         \/ UNCHANGED old /\ Goto(r, "insertSession")
              /\ SessionsOf(jti[r]) = {}
  BY DEF DeleteSession, InTx, At
<1>3. /\ job[r] \in Job /\ job[r] \in SessionJob /\ jti[r] \in Pack
      /\ job[r] \notin ConsumeJob /\ job[r] \notin RevokeJob
      /\ outcome[r] = None
  BY <1>1, <1>2, JobFields DEF JobOfLabel, Job, Progress
<1>4. old[r] = None /\ \A p \in Pack: <<"slot", p>> \notin held[r]
  BY <1>1, <1>2 DEF Replacing
<1>5. LocksExclude' /\ LockedRowsExist'
  BY <1>2, NoNewLock DEF tables
<1>6. OnlyOwn(r)
  BY <1>1, <1>2 DEF OnlyOwn, TypeOK, Goto, tables
<1>7. TypeOK'
  <2>1. old' \in [Req -> Secret \cup {None}] /\ pc' \in [Req -> Labels]
    BY <1>1, <1>2 DEF TypeOK, Labels, Goto, SessionsOf
  <2> QED
    BY <1>1, <1>2, <2>1 DEF TypeOK, tables
<1>8. JobOfLabel(r)' /\ Progress(r)'
  BY <1>1, <1>2, <1>3 DEF JobOfLabel, Progress, TypeOK, Goto, tables
<1>9. Protected(r)'
  BY <1>1, <1>2, <1>3, <1>4
  DEF Protected, HasDeleted, Live, TypeOK, Goto, tables, Outcomes, SessionsOf
<1>10. Replacing(r)'
  <2>1. held'[r] = held[r] /\ jti'[r] = jti[r] /\ sessions' = sessions
        /\ tx' = tx
    BY <1>2 DEF tables
  <2>2. ~HasInserted(r)'
    BY <1>1, <1>2 DEF HasInserted, TypeOK, Goto
  <2>3. CASE \E s \in SessionsOf(jti[r]):
               old' = [old EXCEPT ![r] = s] /\ Goto(r, "lockOldSession")
    <3>1. PICK s \in SessionsOf(jti[r]):
                 old' = [old EXCEPT ![r] = s] /\ Goto(r, "lockOldSession")
      BY <2>3
    <3>2. old'[r] = s /\ pc'[r] = "lockOldSession"
      BY <1>1, <3>1 DEF TypeOK, Goto
    <3>3. s \in Secret /\ sessions[s] # None /\ sessions[s].jti = jti[r]
      BY DEF SessionsOf
    <3>4. s \in Req => tx[s] = "committed"
      BY <3>3 DEF SafeInv, Protected
    <3> QED
      BY <1>4, <2>1, <2>2, <3>2, <3>3, <3>4 DEF Replacing
  <2>4. CASE UNCHANGED old
    BY <1>4, <2>1, <2>2, <2>4 DEF Replacing, Secret
  <2> QED
    BY <1>2, <2>3, <2>4
<1> QED
  BY <1>5, <1>6, <1>7, <1>8, <1>9, <1>10, OwnStep

\* The session to replace is locked, or gone.
LEMMA LockOldSessionInv ==
    ASSUME SafeInv, NEW r \in Req, LockOldSession(r)
    PROVE  SafeInv'
<1> DEFINE l == <<"session", old[r]>>
           m == <<"slot", jti[r]>>
<1>1. /\ TypeOK /\ JobOfLabel(r) /\ Progress(r) /\ Protected(r)
      /\ Replacing(r)
  BY DEF SafeInv
<1>2. /\ pc[r] = "lockOldSession" /\ tx[r] = "open"
      /\ Goto(r, "insertSession")
      /\ UNCHANGED <<now, tables, tx, job, jti, txNow, expires, seen, row,
                     outcome, reply>>
      /\ \/ /\ sessions[old[r]] # None /\ Free(r, l)
            /\ held' = [held EXCEPT ![r] = @ \cup {l, m}] /\ UNCHANGED old
         \/ old' = [old EXCEPT ![r] = None] /\ UNCHANGED held
  BY DEF LockOldSession, InTx, At
<1>3. /\ job[r] \in Job /\ job[r] \in SessionJob /\ jti[r] \in Pack
      /\ job[r] \notin ConsumeJob /\ job[r] \notin RevokeJob
      /\ outcome[r] = None /\ old[r] \in Secret /\ l \in Lock /\ m \in Lock
  BY <1>1, <1>2, JobFields DEF JobOfLabel, Job, Progress, Protected, Lock
<1>4. \A p \in Pack: <<"slot", p>> \notin held[r]
  BY <1>1, <1>2 DEF Replacing
<1>10. \A s \in Secret: <<"session", s>> \in {l, m} => s = old[r]
  OBVIOUS
<1> HIDE DEF l, m
<1>5. OnlyOwn(r)
  BY <1>1, <1>2 DEF OnlyOwn, TypeOK, Goto, tables
<1>6. TypeOK'
  <2>1. held' \in [Req -> SUBSET Lock]
    BY <1>1, <1>2, <1>3 DEF TypeOK
  <2>2. old' \in [Req -> Secret \cup {None}]
    BY <1>1, <1>2 DEF TypeOK
  <2>3. pc' \in [Req -> Labels]
    BY <1>1, <1>2 DEF TypeOK, Labels, Goto
  <2> QED
    BY <1>1, <1>2, <2>1, <2>2, <2>3 DEF TypeOK, tables
<1>11. /\ pc'[r] = "insertSession" /\ tx'[r] = "open"
       /\ job'[r] = job[r] /\ jti'[r] = jti[r] /\ outcome'[r] = None
  BY <1>1, <1>2, <1>3 DEF TypeOK, Goto
<1>7. JobOfLabel(r)' /\ Progress(r)'
  <2>1. JobOfLabel(r)'
    BY <1>3, <1>11, JobFields DEF JobOfLabel
  <2>2. outcome'[r] # "Consumed" /\ outcome'[r] # "Done"
    BY <1>11 DEF Outcomes
  <2>3. Progress(r)'
    BY <1>11, <2>2 DEF Progress
  <2> QED
    BY <2>1, <2>3
<1>8. CASE /\ sessions[old[r]] # None /\ Free(r, l)
           /\ held' = [held EXCEPT ![r] = @ \cup {l, m}] /\ UNCHANGED old
  \* Nobody else is changing the index entry: it would own the old session.
  <2>1. Free(r, m)
    <3> SUFFICES ASSUME NEW q \in Req \ {r}, NEW n \in held[q], Conflict(m, n)
                 PROVE  FALSE
      BY DEF Free
    <3>1. n = m
      <4>1. n \in Lock
        BY DEF SafeInv, TypeOK
      <4>2. n[1] = "slot" /\ n[2] = jti[r]
        BY DEF Conflict, m
      <4> QED
        BY <4>1, <4>2 DEF Lock, m
    <3>2. <<"session", old[r]>> \in held[q]
      <4>1. Replacing(q) /\ <<"slot", jti[r]>> \in held[q]
        BY <3>1 DEF SafeInv, m
      <4>2. old[r] \in SessionsOf(jti[r])
        BY <1>1, <1>3, <1>8 DEF SessionsOf, Replacing
      <4> QED
        BY <1>3, <4>1, <4>2 DEF Replacing
    <3> QED
      BY <1>8, <3>2, Conflicts DEF Free, l
  <2>2. LocksExclude' /\ LockedRowsExist'
    BY <1>2, <1>3, <1>8, <1>10, <2>1, TakeLocks DEF tables
  <2>3. held'[r] = held[r] \cup {l, m} /\ old'[r] = old[r]
    BY <1>1, <1>8 DEF TypeOK
  <2>4. Protected(r)'
    BY <1>1, <1>2, <1>3, <2>3
    DEF Protected, HasDeleted, Live, TypeOK, Goto, tables, Outcomes, l
  <2>5. Replacing(r)'
    <3>1. /\ pc'[r] = "insertSession" /\ tx'[r] = tx[r] /\ tx' = tx
          /\ jti'[r] = jti[r] /\ sessions' = sessions
      BY <1>1, <1>2 DEF TypeOK, Goto, tables
    <3>2. \A s \in SessionsOf(jti[r]): s = old[r]
      BY <1>1, <1>3, <1>8 DEF SafeInv, OneSession, SessionsOf, Replacing
    <3>3. \A p \in Pack: <<"slot", p>> \in held'[r] => p = jti[r]
      BY <1>4, <2>3 DEF l, m
    <3>4. ~HasInserted(r)'
      BY <1>2, <3>1 DEF HasInserted
    <3> QED
      BY <1>1, <1>3, <2>3, <3>1, <3>2, <3>3, <3>4
      DEF Replacing, SessionsOf, l
  <2> QED
    BY <1>5, <1>6, <1>7, <2>2, <2>4, <2>5, OwnStep
<1>9. CASE old' = [old EXCEPT ![r] = None] /\ UNCHANGED held
  <2>1. LocksExclude' /\ LockedRowsExist'
    BY <1>2, <1>9, NoNewLock DEF tables
  <2>2. old'[r] = None /\ held'[r] = held[r]
    BY <1>1, <1>9 DEF TypeOK
  <2>3. Protected(r)'
    BY <1>1, <1>2, <1>3, <2>2
    DEF Protected, HasDeleted, Live, TypeOK, Goto, tables, Outcomes
  <2>4. Replacing(r)'
    BY <1>1, <1>2, <1>3, <1>4, <2>2
    DEF Replacing, HasInserted, SessionsOf, TypeOK, Goto, tables, Secret
  <2> QED
    BY <1>5, <1>6, <1>7, <2>1, <2>3, <2>4, OwnStep
<1> QED
  BY <1>2, <1>8, <1>9

\* The new session gets the pack's index entry, or another one has it.
LEMMA InsertSessionInv ==
    ASSUME SafeInv, NEW r \in Req, InsertSession(r)
    PROVE  SafeInv'
<1> DEFINE m == <<"slot", jti[r]>>
<1>1. /\ TypeOK /\ JobOfLabel(r) /\ Progress(r) /\ Protected(r)
      /\ Replacing(r)
  BY DEF SafeInv
<1>2. /\ pc[r] = "insertSession" /\ tx[r] = "open"
      /\ UNCHANGED <<now, tables, tx, scratch, outcome, reply>>
      /\ \/ /\ SessionsOf(jti[r]) \subseteq {old[r]}
            /\ Acquire(r, m) /\ Goto(r, "checkForeignKey")
         \/ Goto(r, "rollback") /\ UNCHANGED held
  BY DEF InsertSession, InTx, At
<1>3. /\ job[r] \in Job /\ job[r] \in SessionJob /\ jti[r] \in Pack
      /\ job[r] \notin ConsumeJob /\ job[r] \notin RevokeJob
      /\ outcome[r] = None /\ m \in Lock
  BY <1>1, <1>2, JobFields DEF JobOfLabel, Job, Progress, Lock
<1>4. OnlyOwn(r)
  BY <1>1, <1>2 DEF OnlyOwn, TypeOK, Acquire, Goto, tables, scratch
<1>5. CASE /\ SessionsOf(jti[r]) \subseteq {old[r]}
           /\ Acquire(r, m) /\ Goto(r, "checkForeignKey")
  <2>1. TypeOK'
    BY <1>1, <1>2, <1>3, <1>5
    DEF TypeOK, Labels, Acquire, Goto, tables, scratch
  <2>2. LocksExclude' /\ LockedRowsExist'
    BY <1>2, <1>3, <1>5, TakeLock DEF Acquire, tables
  <2>3. JobOfLabel(r)' /\ Progress(r)'
    BY <1>1, <1>2, <1>3, <1>5
    DEF JobOfLabel, Progress, TypeOK, Goto, tables, scratch
  <2>4. /\ held'[r] = held[r] \cup {m} /\ pc'[r] = "checkForeignKey"
        /\ UNCHANGED <<tx, jti, old, sessions, job>>
    BY <1>1, <1>2, <1>5 DEF TypeOK, Acquire, Goto, tables, scratch
  <2>5. Protected(r)'
    BY <1>1, <1>2, <1>3, <2>4
    DEF Protected, HasDeleted, Live, Goto, tables, scratch, Outcomes
  <2>6. \A s \in SessionsOf(jti[r]): s = old[r] /\ <<"session", s>> \in held[r]
    <3> SUFFICES ASSUME NEW s \in SessionsOf(jti[r])
                 PROVE  s = old[r] /\ <<"session", s>> \in held[r]
      OBVIOUS
    <3>1. s = old[r] /\ s \in Secret /\ old[r] # None
      BY <1>5 DEF SessionsOf
    <3> QED
      BY <1>1, <1>2, <3>1 DEF Protected, HasDeleted
  <2>7. \A p \in Pack: <<"slot", p>> \in held'[r] => p = jti[r]
    BY <1>1, <2>4 DEF Replacing
  <2>8. Replacing(r)'
    BY <1>1, <1>3, <2>4, <2>6, <2>7 DEF Replacing, SessionsOf
  <2> QED
    BY <1>4, <2>1, <2>2, <2>3, <2>5, <2>8, OwnStep
<1>6. CASE Goto(r, "rollback") /\ UNCHANGED held
  <2>1. TypeOK'
    BY <1>1, <1>2, <1>6 DEF TypeOK, Labels, Goto, tables, scratch
  <2>2. LocksExclude' /\ LockedRowsExist'
    BY <1>2, <1>6, NoNewLock DEF tables
  <2>3. JobOfLabel(r)' /\ Progress(r)' /\ Protected(r)'
    BY <1>1, <1>2, <1>3, <1>6
    DEF JobOfLabel, Progress, Protected, HasDeleted, Live, TypeOK, Goto,
        tables, scratch, Outcomes
  <2>4. Replacing(r)'
    BY <1>1, <1>2, <1>3, <1>6
    DEF Replacing, HasInserted, SessionsOf, TypeOK, Goto, tables, scratch
  <2> QED
    BY <1>4, <2>1, <2>2, <2>3, <2>4, OwnStep
<1> QED
  BY <1>2, <1>5, <1>6

\* COMMIT is sent: everything that must be locked by then is.
LEMMA SendCommitInv ==
    ASSUME SafeInv, NEW r \in Req, SendCommit(r)
    PROVE  SafeInv'
<1>1. /\ TypeOK /\ JobOfLabel(r) /\ Progress(r) /\ Protected(r)
      /\ Replacing(r)
  BY DEF SafeInv
<1>2. /\ pc[r] = "commit" /\ tx[r] = "open"
      /\ tx' = [tx EXCEPT ![r] = "committing"] /\ Goto(r, "awaitCommit")
      /\ UNCHANGED <<now, tables, held, scratch, outcome, reply>>
  BY DEF SendCommit, InTx, At
<1>3. OnlyOwn(r)
  BY <1>1, <1>2 DEF OnlyOwn, TypeOK, Goto, tables, scratch
<1>4. TypeOK'
  BY <1>1, <1>2 DEF TypeOK, Labels, Goto, tables, scratch
<1>5. LocksExclude' /\ LockedRowsExist'
  BY <1>2, NoNewLock DEF tables
<1>6. JobOfLabel(r)' /\ Progress(r)'
  BY <1>1, <1>2 DEF JobOfLabel, Progress, TypeOK, Goto, tables, scratch
<1>7. Protected(r)'
  BY <1>1, <1>2
  DEF Protected, HasDeleted, Live, TypeOK, Goto, tables, scratch
<1>8. Replacing(r)'
  <2>1. /\ UNCHANGED <<held, jti, sessions, old, job>> /\ HasInserted(r) = HasInserted(r)'
        /\ pc'[r] = "awaitCommit"
        /\ \A q \in Req: tx[q] = "committed" => tx'[q] = "committed"
    BY <1>1, <1>2 DEF TypeOK, Goto, tables, scratch, HasInserted
  <2> QED
    BY <1>1, <2>1 DEF Replacing, SessionsOf
<1> QED
  BY <1>3, <1>4, <1>5, <1>6, <1>7, <1>8, OwnStep

\* A transaction that is over without a commit protects nothing any more.
LEMMA AbortedInv ==
    ASSUME SafeInv, NEW r \in Req, Live(r), TypeOK',
           tx' = [tx EXCEPT ![r] = "aborted"], held' = [held EXCEPT ![r] = {}],
           \A q \in Req \ {r}: pc'[q] = pc[q],
           pc'[r] \in {pc[r], "done"},
           UNCHANGED <<tables, scratch, outcome>>
    PROVE  SafeInv'
<1>1. /\ TypeOK /\ JobOfLabel(r) /\ Progress(r) /\ Protected(r)
      /\ Replacing(r)
  BY DEF SafeInv
<1>2. /\ tx'[r] = "aborted" /\ held'[r] = {}
      /\ \A q \in Req \ {r}: tx'[q] = tx[q] /\ held'[q] = held[q]
  BY <1>1 DEF TypeOK
<1>3. OnlyOwn(r)
  BY <1>1, <1>2 DEF OnlyOwn, tables, scratch, Live
<1>4. LocksExclude' /\ LockedRowsExist'
  BY NoNewLock DEF tables
<1>5. JobOfLabel(r)' /\ Progress(r)'
  BY <1>1, <1>2 DEF JobOfLabel, Progress, Live, tables, scratch
<1>6. Protected(r)'
  BY <1>1, <1>2 DEF Protected, HasDeleted, Live, tables, scratch
<1>7. Replacing(r)'
  BY <1>1, <1>2 DEF Replacing, HasInserted, SessionsOf, Live, tables, scratch
<1> QED
  BY <1>3, <1>4, <1>5, <1>6, <1>7, OwnStep

\* The server gives a transaction up.
LEMMA DbAbortInv ==
    ASSUME SafeInv, NEW r \in Req, DbAbort(r) \/ NoticeDiscard(r)
    PROVE  SafeInv'
<1>1. Abort(r) /\ Live(r)
  BY DEF DbAbort, NoticeDiscard, Live
<1>2. TypeOK'
  BY <1>1 DEF SafeInv, TypeOK, Abort, tables, scratch
<1> QED
  BY <1>1, <1>2, AbortedInv DEF Abort

\* ROLLBACK after a statement failed.
LEMMA RollbackInv ==
    ASSUME SafeInv, NEW r \in Req, Rollback(r)
    PROVE  SafeInv'
<1>1. TypeOK'
  BY DEF SafeInv, TypeOK, Rollback, Answer, Goto, Labels, Replies, tables,
         scratch
<1>2. pc'[r] = "done" /\ \A q \in Req \ {r}: pc'[q] = pc[q]
  BY DEF SafeInv, TypeOK, Rollback, Answer, Goto
<1> QED
  BY <1>1, <1>2, AbortedInv DEF Rollback, InTx, Live

\* A step before r's transaction begins, which may burn a challenge.
LEMMA BeforeTransactionInv ==
    ASSUME SafeInv, NEW r \in Req, tx[r] = "none", pc[r] # "idle",
           NEW place \in {"consumeNonce", "begin", "done"}, Goto(r, place),
           pc[r] \in {"getPack", "consumeNonce"}, TypeOK',
           UNCHANGED <<used, revoked, uses, sessions, held, tx, job, jti, txNow,
                       seen, old, row, outcome>>
    PROVE  SafeInv'
<1>1. /\ TypeOK /\ JobOfLabel(r) /\ Progress(r) /\ Protected(r)
      /\ Replacing(r)
  BY DEF SafeInv
<1>2. /\ job[r] \in Job /\ job[r] \in SessionJob \cup RevokeJob
      /\ job[r] \notin ConsumeJob /\ outcome[r] = None
  BY <1>1, JobFields DEF JobOfLabel, Job, Progress
<1>3. pc'[r] = place /\ \A q \in Req \ {r}: pc'[q] = pc[q]
  BY <1>1 DEF TypeOK, Goto
<1>4. OnlyOwn(r)
  BY <1>1, <1>3 DEF OnlyOwn
<1>5. LocksExclude' /\ LockedRowsExist'
  BY NoNewLock
<1>6. JobOfLabel(r)' /\ Progress(r)'
  BY <1>1, <1>2, <1>3 DEF JobOfLabel, Progress
<1>7. Protected(r)'
  BY <1>1, <1>3 DEF Protected, HasDeleted, Live
<1>8. Replacing(r)'
  BY <1>1, <1>3 DEF Replacing, HasInserted, SessionsOf
<1> QED
  BY <1>4, <1>5, <1>6, <1>7, <1>8, OwnStep

\* A challenge is burned, or refused.
LEMMA ConsumeNonceInv ==
    ASSUME SafeInv, NEW r \in Req, ConsumeNonce(r)
    PROVE  SafeInv'
<1>1. /\ TypeOK /\ JobOfLabel(r) /\ Progress(r)
      /\ pc[r] = "consumeNonce" /\ tx[r] = "none"
  BY DEF SafeInv, ConsumeNonce, At, Progress
<1>2. jti[r] \in Pack
  BY <1>1, JobFields DEF JobOfLabel
<1>3. CASE Refuse(r, "Unauthorized")
  BY <1>1, <1>3, RefuseInv DEF Replies
<1>4. CASE ~Refuse(r, "Unauthorized")
  <2>1. /\ nonces' \subseteq nonces
        /\ \/ /\ Goto(r, "begin") /\ UNCHANGED reply
              /\ expires' = [expires EXCEPT
                   ![r] = Min2(now + SessionTtl, Expiry[jti[r]])]
           \/ Answer(r, "Unauthorized") /\ UNCHANGED expires
        /\ UNCHANGED <<now, used, revoked, uses, sessions, held, tx, job, jti,
                       txNow, seen, old, row, outcome>>
    BY <1>4 DEF ConsumeNonce
  <2>2. Min2(now + SessionTtl, Expiry[jti[r]]) \in Nat
    BY <1>1, <1>2 DEF Min2, TypeOK, Time
  <2>3. TypeOK'
    <3> DEFINE e == Min2(now + SessionTtl, Expiry[jti[r]])
    <3> HIDE DEF e
    <3>1. /\ nonces' \subseteq Challenge
          /\ pc' \in [Req -> Labels]
          /\ reply' \in [Req -> Replies \cup {None}]
      BY <1>1, <2>1 DEF TypeOK, Labels, Replies, Answer, Goto
    <3>2. expires' = [expires EXCEPT ![r] = e] \/ UNCHANGED expires
      BY <2>1 DEF e
    <3>3. expires' \in [Req -> Nat]
      BY <1>1, <2>2, <3>2 DEF TypeOK, e
    <3> QED
      BY <1>1, <2>1, <3>1, <3>3 DEF TypeOK
  <2>4. Goto(r, "begin") \/ Goto(r, "done")
    BY <2>1 DEF Answer
  <2> QED
    BY <1>1, <2>1, <2>3, <2>4, BeforeTransactionInv
<1> QED
  BY <1>3, <1>4

\* A challenge is burned and nobody hears of it.
LEMMA LoseNonceInv ==
    ASSUME SafeInv, NEW r \in Req, LoseNonce(r)
    PROVE  SafeInv'
<1>1. tx[r] = "none" /\ pc[r] = "consumeNonce"
  BY DEF SafeInv, Progress, LoseNonce, At
<1>2. TypeOK'
  BY DEF SafeInv, TypeOK, Labels, Replies, LoseNonce, Answer, Goto, scratch
<1> QED
  BY <1>1, <1>2, BeforeTransactionInv DEF LoseNonce, Answer, scratch

\* The pack of an activation is looked at.
LEMMA GetPackInv ==
    ASSUME SafeInv, NEW r \in Req, GetPack(r)
    PROVE  SafeInv'
<1>1. CASE Refuse(r, "Unauthorized")
  <2>1. tx[r] = "none"
    BY DEF SafeInv, Progress, GetPack, At
  <2> QED
    BY <1>1, <2>1, RefuseInv DEF Replies
<1>2. CASE /\ Goto(r, "consumeNonce")
           /\ UNCHANGED <<now, tables, held, tx, scratch, outcome, reply>>
  <2>1. tx[r] = "none" /\ pc[r] = "getPack"
    BY DEF SafeInv, Progress, GetPack, At
  <2>2. TypeOK'
    BY <1>2 DEF SafeInv, TypeOK, Labels, Goto, tables, scratch
  <2> QED
    BY <1>2, <2>1, <2>2, BeforeTransactionInv DEF tables, scratch
<1> QED
  BY <1>1, <1>2 DEF GetPack

\* The session of a consume is looked at, and gives the pack.
LEMMA GetPackForSessionInv ==
    ASSUME SafeInv, NEW r \in Req, GetPackForSession(r)
    PROVE  SafeInv'
<1> DEFINE s == job[r].secret
<1>1. /\ TypeOK /\ JobOfLabel(r) /\ Progress(r) /\ Protected(r)
      /\ Replacing(r) /\ pc[r] = "getPackForSession"
  BY DEF SafeInv, GetPackForSession, At
<1>2. /\ tx[r] = "none" /\ held[r] = {} /\ outcome[r] = None
      /\ job[r] \in ConsumeJob /\ job[r] \in Job /\ old[r] = None
      /\ job[r] \notin SessionJob /\ job[r] \notin RevokeJob
  BY <1>1, JobFields DEF JobOfLabel, Progress, Job, Protected
<1>3. CASE \E p \in Pack: /\ Usable(s, p, now)
                          /\ sessions[s].wallet = Payer[p]
                          /\ InScope(job[r].resource, p)
  <2>1. /\ jti' = [jti EXCEPT ![r] = sessions[s].jti] /\ Goto(r, "begin")
        /\ UNCHANGED <<now, tables, held, tx, job, txNow, expires, seen, old,
                       row, outcome, reply>>
    BY <1>3 DEF GetPackForSession
  <2>2. sessions[s].jti \in Pack
    BY <1>3 DEF Usable
  <2>3. OnlyOwn(r)
    BY <1>1, <1>2, <2>1 DEF OnlyOwn, TypeOK, Goto, tables
  <2>4. TypeOK'
    BY <1>1, <2>1, <2>2 DEF TypeOK, Labels, Goto, tables
  <2>5. LocksExclude' /\ LockedRowsExist'
    BY <2>1, NoNewLock DEF tables
  <2>6. jti'[r] \in Pack /\ pc'[r] = "begin"
    BY <1>1, <2>1, <2>2 DEF TypeOK, Goto
  <2>7. JobOfLabel(r)' /\ Progress(r)' /\ Protected(r)' /\ Replacing(r)'
    BY <1>1, <1>2, <2>1, <2>6
    DEF JobOfLabel, Progress, Protected, HasDeleted, Live, tables, Outcomes,
        Replacing, HasInserted, Secret
  <2> QED
    BY <2>3, <2>4, <2>5, <2>7, OwnStep
<1>4. CASE \E a \in Replies: Refuse(r, a)
  BY <1>2, <1>4, RefuseInv
<1> QED
  BY <1>3, <1>4 DEF GetPackForSession, Replies

\* COMMIT returned.
LEMMA ReplyInv ==
    ASSUME SafeInv, NEW r \in Req, Reply(r)
    PROVE  SafeInv'
<1>1. outcome[r] \in Outcomes
  BY DEF SafeInv, TypeOK, Progress, Reply, At
<1>2. AnswerOf(r) \in Replies
  BY <1>1 DEF AnswerOf, Outcomes, Replies
<1> QED
  BY <1>2, RefuseInv DEF Reply, At

\* BEGIN went wrong: nothing is locked, whether the connection is discarded
\* or goes back to the pool.
LEMMA LoseBeginInv ==
    ASSUME SafeInv, NEW r \in Req, LoseBegin(r)
    PROVE  SafeInv'
<1> USE DEF LoseBegin, Answer, At, Goto, tables
<1>1. /\ TypeOK /\ JobOfLabel(r) /\ Progress(r) /\ Protected(r)
      /\ Replacing(r)
  BY DEF SafeInv
<1>2. PICK x \in {"left", "dropped"}: tx' = [tx EXCEPT ![r] = x]
  OBVIOUS
<1>3. /\ tx'[r] = x /\ pc'[r] = "done" /\ tx[r] = "none"
      /\ \A q \in Req \ {r}: tx'[q] = tx[q] /\ pc'[q] = pc[q]
  BY <1>1, <1>2 DEF TypeOK, Progress
<1>4. OnlyOwn(r)
  BY <1>3 DEF OnlyOwn
<1>5. TypeOK'
  BY <1>1, <1>2, BeginTimesAreTimes DEF TypeOK, Labels, Replies
<1>6. LocksExclude' /\ LockedRowsExist'
  BY NoNewLock
<1>7. JobOfLabel(r)' /\ Progress(r)' /\ Protected(r)'
  BY <1>1, <1>3, JobFields
  DEF JobOfLabel, Progress, Protected, HasDeleted, Live, TypeOK, Outcomes, Job
<1>8. Replacing(r)'
  BY <1>1, <1>3
  DEF Replacing, HasInserted, SessionsOf, TypeOK, Progress, Protected
<1> QED
  BY <1>4, <1>5, <1>6, <1>7, <1>8, OwnStep

\* The handler stops waiting: what it locked stays locked.
LEMMA GiveUpInv ==
    ASSUME SafeInv, NEW r \in Req, GiveUp(r)
    PROVE  SafeInv'
<1> USE DEF GiveUp, Answer, Goto, tables, scratch
<1>1. /\ TypeOK /\ JobOfLabel(r) /\ Progress(r) /\ Protected(r)
      /\ Replacing(r)
  BY DEF SafeInv
<1>2. CASE tx[r] # "open"
  <2>1. Refuse(r, "Internal")
    BY <1>1, <1>2 DEF TypeOK, Refuse
  <2> QED
    BY <1>2, <2>1, RefuseInv DEF Replies
<1>3. CASE tx[r] = "open"
  <2>1. /\ tx'[r] = "dropped" /\ pc'[r] = "done"
        /\ \A q \in Req \ {r}: tx'[q] = tx[q] /\ pc'[q] = pc[q]
    BY <1>1, <1>3 DEF TypeOK
  <2>2. OnlyOwn(r)
    BY <1>3, <2>1 DEF OnlyOwn
  <2>3. TypeOK'
    BY <1>1, <1>3 DEF TypeOK, Labels, Replies
  <2>4. LocksExclude' /\ LockedRowsExist'
    BY NoNewLock
  <2>5. JobOfLabel(r)' /\ Progress(r)'
    BY <1>1, <1>3, <2>1, JobFields DEF JobOfLabel, Progress, TypeOK
  <2>6. Protected(r)'
    BY <1>1, <1>3, <2>1 DEF Protected, HasDeleted, Live
  <2>7. Replacing(r)'
    BY <1>1, <1>3, <2>1 DEF Replacing, HasInserted, SessionsOf, Protected
  <2> QED
    BY <2>2, <2>3, <2>4, <2>5, <2>6, <2>7, OwnStep
<1> QED
  BY <1>2, <1>3

\* Answers that come before, instead of or after a transaction.
LEMMA OtherRefusalsInv ==
    ASSUME SafeInv, NEW r \in Req, Reject(r) \/ Fail(r)
    PROVE  SafeInv'
<1>1. PICK a \in Replies: Refuse(r, a)
  BY DEF Reject, Fail, Replies
<1>2. tx[r] # "open"
  BY DEF Reject, Fail, At, SafeInv, Progress
<1> QED
  BY <1>1, <1>2, RefuseInv

\* Time passes.
LEMMA TickInv ==
    ASSUME SafeInv, Tick
    PROVE  SafeInv'
<1> USE DEF Tick, tables, scratch
<1>1. TypeOK'
  BY DEF SafeInv, TypeOK, Time
<1>2. LocksExclude' /\ LockedRowsExist' /\ OneSession'
  BY DEF SafeInv, LocksExclude, LockedRowsExist, OneSession
<1>3. ASSUME NEW q \in Req
      PROVE JobOfLabel(q)' /\ Progress(q)' /\ Protected(q)' /\ Replacing(q)'
  BY DEF SafeInv, JobOfLabel, Progress, Protected, Replacing, HasDeleted,
         HasInserted, Live, SessionsOf
<1> QED
  BY <1>1, <1>2, <1>3 DEF SafeInv

\* Nothing happens.
LEMMA StutterInv ==
    ASSUME SafeInv, UNCHANGED vars
    PROVE  SafeInv'
<1>1. UNCHANGED <<now, used, revoked, uses, sessions, nonces, held, pc, tx, job,
                  jti, txNow, expires, seen, old, row, outcome, reply>>
  BY DEF vars, tables, scratch
<1>2. TypeOK' /\ LocksExclude' /\ LockedRowsExist' /\ OneSession'
  BY <1>1 DEF SafeInv, TypeOK, LocksExclude, LockedRowsExist, OneSession
<1>3. ASSUME NEW q \in Req
      PROVE JobOfLabel(q)' /\ Progress(q)' /\ Protected(q)' /\ Replacing(q)'
  <2>1. JobOfLabel(q) /\ Progress(q) /\ Protected(q) /\ Replacing(q)
    BY DEF SafeInv
  <2>2. JobOfLabel(q)' /\ Progress(q)'
    BY <1>1, <2>1 DEF JobOfLabel, Progress
  <2>3. Protected(q)'
    BY <1>1, <2>1 DEF Protected, HasDeleted, Live
  <2>4. Replacing(q)'
    BY <1>1, <2>1 DEF Replacing, HasInserted, SessionsOf
  <2> QED
    BY <2>2, <2>3, <2>4
<1> QED
  BY <1>2, <1>3 DEF SafeInv

-----------------------------------------------------------------------------
\* A commit disturbs nobody when it changes only rows that no other transaction
\* has locked, and puts no session where another one owns the index entry.
LEMMA CommitInv ==
    ASSUME SafeInv, NEW r \in Req, tx[r] = "committing", TypeOK', OneSession',
           tx' = [tx EXCEPT ![r] = "committed"],
           held' = [held EXCEPT ![r] = {}],
           UNCHANGED <<pc, scratch, outcome>>,
           \A q \in Req \ {r}, p \in Pack:
             <<"update", p>> \in held[q] =>
               /\ used'[p] = used[p] /\ revoked'[p] = revoked[p]
               /\ \A u \in uses' \ uses: u.jti # p,
           \A q \in Req \ {r}, p \in Pack:
             <<"noKeyUpdate", p>> \in held[q] => revoked'[p] = revoked[p],
           \A q \in Req \ {r}, s \in Secret:
             <<"session", s>> \in held[q] => sessions'[s] = sessions[s],
           \A q \in Req \ {r}, p \in Pack:
             <<"slot", p>> \in held[q] => SessionsOf(p)' \subseteq SessionsOf(p),
           old[r] # None => sessions'[old[r]] \in {None, sessions[old[r]]},
           \A s \in Secret \ {r}: sessions'[s] # None =>
             sessions[s] # None /\ sessions'[s].jti = sessions[s].jti
    PROVE  SafeInv'
<1>1. UNCHANGED <<pc, job, jti, txNow, expires, seen, old, row, outcome>>
  BY DEF scratch
<1>2. /\ tx'[r] = "committed" /\ held'[r] = {}
      /\ \A q \in Req \ {r}: tx'[q] = tx[q] /\ held'[q] = held[q]
  BY DEF SafeInv, TypeOK
<1>3. LocksExclude'
  BY <1>2 DEF SafeInv, LocksExclude
<1>4. LockedRowsExist'
  BY <1>2 DEF SafeInv, LockedRowsExist
<1>5. ASSUME NEW q \in Req
      PROVE  JobOfLabel(q)' /\ Progress(q)'
  <2>1. JobOfLabel(q) /\ Progress(q)
    BY DEF SafeInv
  <2>2. CASE q = r
    BY <1>1, <1>2, <2>1, <2>2 DEF JobOfLabel, Progress
  <2>3. CASE q # r
    BY <1>1, <1>2, <2>1, <2>3 DEF JobOfLabel, Progress
  <2> QED
    BY <2>2, <2>3
<1>6. Protected(r)' /\ Replacing(r)'
  <2>1. pc[r] \in {"awaitCommit", "done"} /\ Protected(r) /\ Replacing(r)
    BY DEF SafeInv, Progress
  <2>2. Protected(r)'
    BY <1>1, <1>2, <2>1 DEF Protected, HasDeleted, Live
  <2>3. Replacing(r)'
    BY <1>1, <1>2, <2>1 DEF Replacing, HasInserted
  <2> QED
    BY <2>2, <2>3
<1>7. ASSUME NEW q \in Req \ {r}
      PROVE  Protected(q)' /\ Replacing(q)'
  <2>1. /\ JobOfLabel(q) /\ Progress(q) /\ Protected(q) /\ Replacing(q)
        /\ old[q] # r /\ q \in Secret
        /\ tx'[q] = tx[q] /\ held'[q] = held[q]
        /\ old \in [Req -> Secret \cup {None}] /\ job \in [Req -> Job \cup {None}]
    BY <1>2 DEF SafeInv, Replacing, Secret, TypeOK
  <2>2. Live(q) /\ (pc[q] \in {"lockPack", "findConsumption"}
                    \/ outcome[q] = "Consumed")
        => job[q].secret \in Secret /\ jti[q] \in Pack
    BY <2>1, JobFields DEF JobOfLabel, Progress, Live, Job
  <2>3. Live(q) /\ job[q] \in RevokeJob => jti[q] \in Pack
    BY <2>1 DEF JobOfLabel
  <2>4. Protected(q)'
    <3>1. Live(q)' = Live(q) /\ HasDeleted(q)' = HasDeleted(q)
      BY <1>1, <2>1 DEF Live, HasDeleted
    <3>2. Protected(q)!1'
      BY <1>1, <2>1, <2>2, <3>1 DEF Protected
    <3>3. Protected(q)!2'
      BY <1>1, <2>1, <2>2, <3>1 DEF Protected
    <3>4. Protected(q)!3'
      BY <1>1, <2>1, <2>2, <3>1 DEF Protected
    <3>5. Protected(q)!4'
      BY <1>1, <2>1, <2>3, <3>1 DEF Protected
    <3>6. /\ Protected(q)!5' /\ Protected(q)!6' /\ Protected(q)!7'
          /\ Protected(q)!8'
      BY <1>1, <2>1, <3>1 DEF Protected
    <3> QED
      BY <3>2, <3>3, <3>4, <3>5, <3>6 DEF Protected
  <2>5. Replacing(q)'
    <3>1. HasInserted(q)' = HasInserted(q)
      BY <1>1, <2>1 DEF HasInserted
    <3>2. \A p \in Pack: <<"slot", p>> \in held[q] =>
            \A s \in SessionsOf(p)': s = old[q] /\ <<"session", s>> \in held[q]
      BY <2>1 DEF Replacing
    <3>3. old[q] # None /\ sessions'[old[q]] # None
            => sessions'[old[q]].jti = jti[q]
      BY <2>1 DEF Replacing
    <3>4. old[q] \in Req => tx'[old[q]] = "committed"
      BY <1>2, <2>1 DEF Replacing
    <3> QED
      BY <1>1, <2>1, <3>1, <3>2, <3>3, <3>4 DEF Replacing
  <2> QED
    BY <2>4, <2>5
<1> QED
  BY <1>3, <1>4, <1>5, <1>6, <1>7 DEF SafeInv

\* What every commit of r starts from.
Committing(r) ==
    /\ tx[r] = "committing"
    /\ tx' = [tx EXCEPT ![r] = "committed"]
    /\ held' = [held EXCEPT ![r] = {}]
    /\ UNCHANGED <<now, nonces, pc, scratch, outcome, reply>>

\* The types that no commit changes.
LEMMA CommitTypes ==
    ASSUME SafeInv, NEW r \in Req, Committing(r), used' \in [Pack -> Nat],
           revoked' \in [Pack -> BOOLEAN], uses' \subseteq Use,
           sessions' \in [Secret -> Session \cup {None}]
    PROVE  TypeOK'
BY DEF SafeInv, TypeOK, Committing, scratch

\* Nobody else holds a lock that conflicts with one of r's.
LEMMA OthersLocks ==
    ASSUME SafeInv, NEW r \in Req, NEW q \in Req \ {r}, NEW a
    PROVE  /\ <<"session", a>> \in held[r] => <<"session", a>> \notin held[q]
           /\ <<"slot", a>> \in held[r] => <<"slot", a>> \notin held[q]
           /\ <<"update", a>> \in held[r] =>
                /\ <<"update", a>> \notin held[q]
                /\ <<"noKeyUpdate", a>> \notin held[q]
           /\ <<"noKeyUpdate", a>> \in held[r] =>
                /\ <<"update", a>> \notin held[q]
                /\ <<"noKeyUpdate", a>> \notin held[q]
BY Conflicts DEF SafeInv, LocksExclude

\* A use: the pack's row is locked.
LEMMA CommitUseInv ==
    ASSUME SafeInv, NEW r \in Req, Committing(r), CommitUse(r)
    PROVE  SafeInv'
<1>1. /\ TypeOK /\ JobOfLabel(r) /\ Progress(r) /\ Protected(r)
  BY DEF SafeInv
<1>2. /\ outcome[r] = "Consumed" /\ Live(r) /\ job[r] \in ConsumeJob
      /\ uses' = uses \cup {row[r]}
      /\ used' = [used EXCEPT ![jti[r]] = @ + 1]
      /\ UNCHANGED <<revoked, sessions>>
  BY <1>1 DEF CommitUse, Committing, Live, Progress
<1>3. jti[r] \in Pack
  BY <1>1, <1>2 DEF JobOfLabel, Committing
<1>4. <<"update", jti[r]>> \in held[r] /\ row[r].jti = jti[r] /\ row[r] \in Use
  <2>1. /\ <<"update", jti[r]>> \in held[r]
        /\ row[r] = [id |-> r, jti |-> jti[r], key |-> job[r].key,
                     resource |-> job[r].resource,
                     remaining |-> Total[jti[r]] - used[jti[r]] - 1]
        /\ used[jti[r]] < Total[jti[r]]
    BY <1>1, <1>2 DEF Protected
  <2>2. job[r].key \in Key /\ job[r].resource \in Resource
    BY <1>2 DEF ConsumeJob
  <2>3. Total[jti[r]] - used[jti[r]] - 1 \in Nat
    BY <1>1, <1>3, <2>1 DEF TypeOK
  <2> QED
    BY <1>3, <2>1, <2>2, <2>3 DEF Use
<1>5. TypeOK'
  BY <1>1, <1>2, <1>3, <1>4, CommitTypes DEF TypeOK
<1>6. OneSession'
  BY <1>2 DEF SafeInv, OneSession
<1>7. ASSUME NEW q \in Req \ {r}, NEW p \in Pack, <<"update", p>> \in held[q]
      PROVE  /\ used'[p] = used[p]
             /\ \A u \in uses' \ uses: u.jti # p
  <2>1. p # jti[r]
    BY <1>4, <1>7, OthersLocks
  <2> QED
    BY <1>1, <1>2, <1>4, <2>1 DEF TypeOK
<1> QED
  BY <1>2, <1>5, <1>6, <1>7, CommitInv DEF Committing, SessionsOf

\* An activation: its old session is locked, and the pack's index entry.
LEMMA CommitSessionInv ==
    ASSUME SafeInv, NEW r \in Req, Committing(r), CommitSession(r)
    PROVE  SafeInv'
<1> DEFINE new == [jti |-> jti[r], wallet |-> job[r].challenge.wallet,
                   expires |-> expires[r], revoked |-> FALSE]
<1>1. /\ TypeOK /\ JobOfLabel(r) /\ Protected(r) /\ Replacing(r)
      /\ tx[r] = "committing"
  BY DEF SafeInv, Committing
<1>2. /\ sessions' = [s \in Secret |->
            IF s = r THEN new ELSE IF s = old[r] THEN None ELSE sessions[s]]
      /\ UNCHANGED <<used, revoked, uses>>
  BY DEF CommitSession
<1>3. job[r] \in SessionJob /\ jti[r] \in Pack /\ r \in Secret
  BY <1>1, JobFields DEF JobOfLabel, CommitSession, Secret
<1>4. new \in Session
  BY <1>1, <1>3, JobFields DEF TypeOK, Session, Job
<1> HIDE DEF new
<1>5. new.jti = jti[r] /\ new # None
  BY <1>4 DEF new
<1>6. sessions[r] = None /\ old[r] # r
  BY <1>1 DEF Protected, Replacing
<1>7. /\ <<"slot", jti[r]>> \in held[r]
      /\ \A s \in SessionsOf(jti[r]): s = old[r]
      /\ old[r] # None => <<"session", old[r]>> \in held[r]
  BY <1>1, <1>3 DEF Replacing, HasInserted, Protected, HasDeleted
<1>8. TypeOK'
  BY <1>1, <1>2, <1>4, CommitTypes DEF TypeOK
<1>9. OneSession'
  <2> SUFFICES ASSUME NEW s \in Secret, NEW t \in Secret, s # t,
                      sessions'[s] # None, sessions'[t] # None,
                      sessions'[s].jti = sessions'[t].jti
               PROVE  FALSE
    BY DEF OneSession
  <2>1. ASSUME NEW u \in Secret, u # r, sessions'[u] # None
        PROVE  sessions'[u] = sessions[u] /\ sessions'[u].jti # jti[r]
    BY <1>2, <1>7, <2>1 DEF SessionsOf
  <2>2. s # r /\ t # r
    BY <1>2, <1>5, <2>1
  <2> QED
    BY <2>1, <2>2 DEF SafeInv, OneSession
<1>10. ASSUME NEW q \in Req \ {r}, NEW s \in Secret, <<"session", s>> \in held[q]
       PROVE  sessions'[s] = sessions[s]
  <2>1. s # old[r]
    BY <1>7, <1>10, NoneAssumption, OthersLocks
  <2>2. s # r
    BY <1>6, <1>10 DEF SafeInv, LockedRowsExist
  <2> QED
    BY <1>2, <2>1, <2>2
<1>11. ASSUME NEW q \in Req \ {r}, NEW p \in Pack, <<"slot", p>> \in held[q]
       PROVE  SessionsOf(p)' \subseteq SessionsOf(p)
  <2>1. p # jti[r]
    BY <1>7, <1>11, OthersLocks
  <2> QED
    BY <1>2, <1>5, <2>1 DEF SessionsOf
<1>12. old[r] # None => sessions'[old[r]] = None
  BY <1>1, <1>2, <1>6 DEF TypeOK
<1>13. \A s \in Secret \ {r}: sessions'[s] # None =>
         sessions[s] # None /\ sessions'[s].jti = sessions[s].jti
  BY <1>2
<1> QED
  BY <1>2, <1>8, <1>9, <1>10, <1>11, <1>12, <1>13, CommitInv DEF Committing

\* A logout: its session is locked.
LEMMA CommitLogoutInv ==
    ASSUME SafeInv, NEW r \in Req, Committing(r), CommitLogout(r)
    PROVE  SafeInv'
<1>1. /\ TypeOK /\ JobOfLabel(r) /\ Protected(r) /\ tx[r] = "committing"
      /\ LockedRowsExist
  BY DEF SafeInv, Committing
<1>2. /\ sessions' = [s \in Secret |->
            IF <<"session", s>> \in held[r]
            THEN [sessions[s] EXCEPT !.revoked = TRUE] ELSE sessions[s]]
      /\ UNCHANGED <<used, revoked, uses>>
  BY DEF CommitLogout
<1>3. old[r] = None
  BY <1>1, JobFields DEF JobOfLabel, Protected, CommitLogout
<1>4. ASSUME NEW s \in Secret
      PROVE  /\ sessions'[s] \in Session \cup {None}
             /\ sessions'[s] # None =>
                  sessions[s] # None /\ sessions'[s].jti = sessions[s].jti
  <2>1. CASE <<"session", s>> \in held[r]
    <3>1. sessions[s] \in Session
      BY <1>1, <2>1 DEF TypeOK, LockedRowsExist
    <3>2. sessions'[s] = [sessions[s] EXCEPT !.revoked = TRUE]
      BY <1>2, <2>1
    <3>3. sessions'[s] \in Session /\ sessions'[s].jti = sessions[s].jti
      BY <3>1, <3>2 DEF Session
    <3> QED
      BY <3>1, <3>3
  <2>2. CASE <<"session", s>> \notin held[r]
    BY <1>1, <1>2, <2>2 DEF TypeOK
  <2> QED
    BY <2>1, <2>2
<1>5. TypeOK'
  <2>1. sessions' \in [Secret -> Session \cup {None}]
    BY <1>2, <1>4
  <2> QED
    BY <1>1, <1>2, <2>1, CommitTypes DEF TypeOK
<1>6. OneSession'
  BY <1>4 DEF SafeInv, OneSession
<1>7. ASSUME NEW q \in Req \ {r}, NEW s \in Secret, <<"session", s>> \in held[q]
      PROVE  sessions'[s] = sessions[s]
  BY <1>2, <1>7, OthersLocks
<1>8. \A p \in Pack: SessionsOf(p)' \subseteq SessionsOf(p)
  BY <1>4 DEF SessionsOf
<1> QED
  BY <1>2, <1>3, <1>4, <1>5, <1>6, <1>7, <1>8, CommitInv DEF Committing

\* A revocation: the pack's row is locked.
LEMMA CommitRevokeInv ==
    ASSUME SafeInv, NEW r \in Req, Committing(r), CommitRevoke(r)
    PROVE  SafeInv'
<1>1. /\ TypeOK /\ JobOfLabel(r) /\ Protected(r) /\ Live(r)
  BY DEF SafeInv, Committing, Live
<1>2. /\ revoked' = [revoked EXCEPT ![jti[r]] = TRUE]
      /\ UNCHANGED <<used, uses, sessions>>
      /\ job[r] \in RevokeJob /\ outcome[r] = "Done"
  BY <1>1, JobFields DEF CommitRevoke, Committing, JobOfLabel
<1>3. jti[r] \in Pack /\ <<"noKeyUpdate", jti[r]>> \in held[r]
  BY <1>1, <1>2 DEF JobOfLabel, Protected
<1>4. TypeOK'
  BY <1>1, <1>2, <1>3, CommitTypes DEF TypeOK
<1>5. OneSession'
  BY <1>2 DEF SafeInv, OneSession
<1>6. ASSUME NEW q \in Req \ {r}, NEW p \in Pack,
             \/ <<"update", p>> \in held[q]
             \/ <<"noKeyUpdate", p>> \in held[q]
      PROVE  revoked'[p] = revoked[p]
  <2>1. p # jti[r]
    BY <1>3, <1>6, OthersLocks
  <2> QED
    BY <1>1, <1>2, <2>1 DEF TypeOK
<1> QED
  BY <1>2, <1>4, <1>5, <1>6, CommitInv DEF Committing, SessionsOf

\* A transaction that found nothing to do.
LEMMA CommitNothingInv ==
    ASSUME SafeInv, NEW r \in Req, Committing(r), CommitNothing(r)
    PROVE  SafeInv'
<1>1. UNCHANGED <<used, revoked, uses, sessions>>
  BY DEF CommitNothing
<1>2. TypeOK'
  BY <1>1, CommitTypes DEF SafeInv, TypeOK
<1>3. OneSession'
  BY <1>1 DEF SafeInv, OneSession
<1> QED
  BY <1>1, <1>2, <1>3, CommitInv DEF Committing, SessionsOf

\* COMMIT takes effect.
LEMMA DbCommitInv ==
    ASSUME SafeInv, NEW r \in Req, DbCommit(r)
    PROVE  SafeInv'
<1>1. /\ Committing(r)
      /\ \/ CommitUse(r) \/ CommitSession(r) \/ CommitLogout(r)
         \/ CommitRevoke(r) \/ CommitNothing(r)
  BY DEF DbCommit, Committing
<1> QED
  BY <1>1, CommitUseInv, CommitSessionInv, CommitLogoutInv, CommitRevokeInv,
     CommitNothingInv

-----------------------------------------------------------------------------
\* Every step of every request, of the server and of the clock.
LEMMA StepInv == SafeInv /\ [Next]_vars => SafeInv'
<1> SUFFICES ASSUME SafeInv, [Next]_vars PROVE SafeInv'
  OBVIOUS
<1>1. CASE UNCHANGED vars
  BY <1>1, StutterInv
<1>2. CASE Tick \/ Quiet
  BY <1>2, TickInv, StutterInv DEF Quiet
<1>3. ASSUME NEW r \in Req, Start(r) \/ Reject(r) \/ Faulty(r)
      PROVE  SafeInv'
  BY <1>3, StartInv, LoseNonceInv, LoseBeginInv, GiveUpInv, DbAbortInv,
     OtherRefusalsInv DEF Faulty
<1>4. ASSUME NEW r \in Req, Server(r)
      PROVE  SafeInv'
  BY <1>4, DbCommitInv, DbAbortInv DEF Server
<1>5. ASSUME NEW r \in Req, Handle(r)
      PROVE  SafeInv'
  BY <1>5, GetPackForSessionInv, GetPackInv, ConsumeNonceInv,
     OpenTransactionInv, LockPackSessionInv, LockPackInv, FindConsumptionInv,
     RevokePackSessionInv, RevokePackInv, DeleteSessionInv, LockOldSessionInv,
     InsertSessionInv, CheckForeignKeyInv, SendCommitInv, RollbackInv,
     ReplyInv, OtherRefusalsInv DEF Handle
<1> QED
  BY <1>1, <1>2, <1>3, <1>4, <1>5 DEF Next

\* In every behaviour, with any number of requests, whatever fails.
THEOREM Safety == Spec => []SafeInv
<1>1. Init => SafeInv
  BY InitInv
<1>2. SafeInv /\ [Next]_vars => SafeInv'
  BY StepInv
<1> QED
  BY <1>1, <1>2, PTL DEF Spec

\* The tables and the handlers' variables keep their types.
THEOREM TypeCorrect == Spec => []TypeOK
<1>1. SafeInv => TypeOK
  BY DEF SafeInv
<1> QED
  BY <1>1, Safety, PTL

-----------------------------------------------------------------------------
\* Waiting.

\* The lock that r's next statement asks for, if it asks for one.
Wants(r, l) ==
    /\ tx[r] = "open"
    /\ \/ pc[r] \in {"lockPackSession", "revokePackSession"}
          /\ l = <<"session", job[r].secret>>
       \/ pc[r] = "lockOldSession" /\ l = <<"session", old[r]>>
       \/ pc[r] = "insertSession" /\ l = <<"slot", jti[r]>>
       \/ pc[r] = "lockPack" /\ l = <<"update", jti[r]>>
       \/ pc[r] = "revokePack" /\ l = <<"noKeyUpdate", jti[r]>>
       \/ pc[r] = "checkForeignKey" /\ l = <<"keyShare", jti[r]>>

WaitsFor(r, q) ==
    /\ q # r
    /\ \E l \in Lock: Wants(r, l) /\ \E m \in held[q]: Conflict(l, m)

\* Among any transactions there is one that waits for none of them: there is
\* no circle of transactions that wait, each for the next one's lock.
NoCircle ==
    \A S \in SUBSET Req:
        S # {} => \E r \in S: \A q \in S: ~WaitsFor(r, q)

\* Every transaction takes its locks in one order: sessions, then the entry of
\* the index, then packs; none outlives it, and its COMMIT is sent before it is
\* waited for.
InOrder(r) ==
    /\ ~Live(r) => held[r] = {}
    /\ pc[r] = "awaitCommit" => tx[r] \in {"committing", "committed", "aborted"}
    /\ pc[r] \in {"lockPackSession", "revokePackSession", "revokePack",
                  "deleteSession", "lockOldSession"} => held[r] = {}
    /\ pc[r] = "lockPack" => \A l \in held[r]: l[1] = "session"
    /\ pc[r] \in {"insertSession", "checkForeignKey"}
         => \A l \in held[r]: l[1] \in {"session", "slot"}

LocksInOrder == \A r \in Req: InOrder(r)

\* Locks come in the order in which they conflict: each with its own rank only.
Rank(l) == IF l[1] = "session" THEN 0 ELSE IF l[1] = "slot" THEN 1 ELSE 2

LEMMA ConflictsAreOfOneRank ==
    ASSUME NEW l, NEW m, Conflict(l, m)
    PROVE  Rank(l) = Rank(m) /\ l[2] = m[2]
BY DEF Conflict, Rank

\* What r does is in order if r itself is in order after it.
LEMMA OwnOrder ==
    ASSUME LocksInOrder, NEW r \in Req, InOrder(r)',
           \A q \in Req \ {r}: pc'[q] = pc[q] /\ tx'[q] = tx[q] /\ held'[q] = held[q]
    PROVE  LocksInOrder'
BY DEF LocksInOrder, InOrder, Live

\* Each statement takes its lock when those of later rank are not yet held.
LEMMA OrderStep ==
    ASSUME SafeInv, LocksInOrder, [Next]_vars
    PROVE  LocksInOrder'
<1> USE DEF Goto, Answer, Settle, Refuse, Acquire, At, InTx
<1>1. /\ pc \in [Req -> Labels] /\ held \in [Req -> SUBSET Lock]
      /\ job \in [Req -> Job \cup {None}] /\ DOMAIN tx = Req
  BY DEF SafeInv, TypeOK
<1>2. \A r \in Req: Progress(r) /\ JobOfLabel(r) /\ InOrder(r)
  BY DEF SafeInv, LocksInOrder
<1>3. CASE UNCHANGED <<pc, tx, held>>
  BY <1>3 DEF LocksInOrder, InOrder, Live
<1>4. ASSUME NEW r \in Req, UNCHANGED <<tx, held>>,
             \/ pc' = [pc EXCEPT ![r] = "done"]
             \/ pc' = [pc EXCEPT ![r] = "commit"]
             \/ pc' = [pc EXCEPT ![r] = "begin"]
             \/ pc' = [pc EXCEPT ![r] = "consumeNonce"]
      PROVE  LocksInOrder'
  <2>1. InOrder(r)'
    BY <1>1, <1>2, <1>4 DEF InOrder, Live
  <2>2. QED
    BY <1>1, <1>4, <2>1, OwnOrder
<1>5. ASSUME NEW r \in Req,
             Reject(r) \/ LoseNonce(r) \/ Fail(r) \/ Reply(r)
      PROVE  LocksInOrder'
  BY <1>4, <1>5 DEF Reject, LoseNonce, Fail, Reply
<1>6. ASSUME NEW r \in Req,
             GetPackForSession(r) \/ GetPack(r) \/ ConsumeNonce(r)
      PROVE  LocksInOrder'
  BY <1>4, <1>6 DEF GetPackForSession, GetPack, ConsumeNonce
<1>7. ASSUME NEW r \in Req, Start(r)
      PROVE  LocksInOrder'
  <2>1. /\ pc'[r] \in {"getPackForSession", "begin", "getPack", "consumeNonce"}
        /\ UNCHANGED <<tx, held>>
        /\ \A q \in Req \ {r}: pc'[q] = pc[q]
    BY <1>1, <1>7, JobFields DEF Start
  <2>2. InOrder(r)'
    BY <1>2, <2>1 DEF InOrder, Live
  <2>3. QED
    BY <2>1, <2>2, OwnOrder
<1>8. ASSUME NEW r \in Req, OpenTransaction(r)
      PROVE  LocksInOrder'
  <2>1. held[r] = {} /\ UNCHANGED held
    BY <1>2, <1>8 DEF OpenTransaction, Progress
  <2>2. /\ pc'[r] \in {"lockPackSession", "revokePackSession",
                      "deleteSession", "revokePack"}
        /\ tx'[r] = "open"
        /\ \A q \in Req \ {r}: pc'[q] = pc[q] /\ tx'[q] = tx[q]
    BY <1>1, <1>2, <1>8, JobFields
    DEF OpenTransaction, FirstStatement, JobOfLabel
  <2>3. InOrder(r)'
    BY <2>1, <2>2 DEF InOrder, Live
  <2>4. QED
    BY <2>1, <2>2, <2>3, OwnOrder
<1>9. ASSUME NEW r \in Req, LockPackSession(r)
      PROVE  LocksInOrder'
  <2>1. held[r] = {}
    BY <1>2, <1>9 DEF LockPackSession, InOrder
  <2>2. /\ pc'[r] \in {"lockPack", "commit"}
        /\ \A l \in held'[r]: l[1] = "session"
        /\ tx[r] = "open" /\ UNCHANGED tx
        /\ \A q \in Req \ {r}: pc'[q] = pc[q] /\ held'[q] = held[q]
    BY <1>1, <1>9, <2>1 DEF LockPackSession
  <2>3. InOrder(r)'
    BY <2>2 DEF InOrder, Live
  <2>4. QED
    BY <2>2, <2>3, OwnOrder
<1>10. ASSUME NEW r \in Req, LockPack(r) \/ FindConsumption(r)
       PROVE  LocksInOrder'
  <2>1. /\ pc'[r] \in {"findConsumption", "commit"}
        /\ tx[r] = "open" /\ UNCHANGED tx
        /\ \A q \in Req \ {r}: pc'[q] = pc[q] /\ held'[q] = held[q]
    BY <1>1, <1>10 DEF LockPack, FindConsumption
  <2>2. InOrder(r)'
    BY <2>1 DEF InOrder, Live
  <2>3. QED
    BY <2>1, <2>2, OwnOrder
<1>11. ASSUME NEW r \in Req,
              RevokePackSession(r) \/ RevokePack(r) \/ CheckForeignKey(r)
       PROVE  LocksInOrder'
  <2>1. /\ pc'[r] = "commit"
        /\ tx[r] = "open" /\ UNCHANGED tx
        /\ \A q \in Req \ {r}: pc'[q] = pc[q] /\ held'[q] = held[q]
    BY <1>1, <1>11 DEF RevokePackSession, RevokePack, CheckForeignKey
  <2>2. InOrder(r)'
    BY <2>1 DEF InOrder, Live
  <2>3. QED
    BY <2>1, <2>2, OwnOrder
<1>12. ASSUME NEW r \in Req, DeleteSession(r) \/ LockOldSession(r)
       PROVE  LocksInOrder'
  <2>1. held[r] = {}
    BY <1>2, <1>12 DEF DeleteSession, LockOldSession, InOrder
  <2>2. /\ \/ pc'[r] = "lockOldSession" /\ held'[r] = held[r]
           \/ pc'[r] = "insertSession"
        /\ held'[r] \subseteq {<<"session", old[r]>>, <<"slot", jti[r]>>}
        /\ tx[r] = "open" /\ UNCHANGED tx
        /\ \A q \in Req \ {r}: pc'[q] = pc[q] /\ held'[q] = held[q]
    BY <1>1, <1>12, <2>1 DEF DeleteSession, LockOldSession
  <2>3. InOrder(r)'
    BY <2>1, <2>2 DEF InOrder, Live
  <2>4. QED
    BY <2>2, <2>3, OwnOrder
<1>13. ASSUME NEW r \in Req, InsertSession(r)
       PROVE  LocksInOrder'
  <2>1. \A l \in held[r]: l[1] \in {"session", "slot"}
    BY <1>2, <1>13 DEF InsertSession, InOrder
  <2>2. /\ pc'[r] \in {"checkForeignKey", "rollback"}
        /\ held'[r] \subseteq held[r] \cup {<<"slot", jti[r]>>}
        /\ tx[r] = "open" /\ UNCHANGED tx
        /\ \A q \in Req \ {r}: pc'[q] = pc[q] /\ held'[q] = held[q]
    BY <1>1, <1>13 DEF InsertSession
  <2>3. InOrder(r)'
    BY <2>1, <2>2 DEF InOrder, Live
  <2>4. QED
    BY <2>2, <2>3, OwnOrder
<1>14. ASSUME NEW r \in Req,
              \/ SendCommit(r) \/ Rollback(r) \/ DbCommit(r) \/ DbAbort(r)
              \/ NoticeDiscard(r)
       PROVE  LocksInOrder'
  <2>1. /\ \/ pc'[r] = "awaitCommit" /\ tx'[r] = "committing"
           \/ /\ held'[r] = {} /\ tx'[r] \in {"committed", "aborted"}
        /\ \A q \in Req \ {r}:
             pc'[q] = pc[q] /\ tx'[q] = tx[q] /\ held'[q] = held[q]
    BY <1>1, <1>14 DEF SendCommit, Rollback, DbCommit, DbAbort, NoticeDiscard,
                       Abort
  <2>2. InOrder(r)'
    BY <2>1 DEF InOrder, Live
  <2>3. QED
    BY <2>1, <2>2, OwnOrder
<1>15. CASE Tick \/ Quiet \/ UNCHANGED vars
  BY <1>3, <1>15 DEF Tick, Quiet, vars
<1>16. ASSUME NEW r \in Req, GiveUp(r) \/ LoseBegin(r)
       PROVE  LocksInOrder'
  <2>1. /\ pc'[r] = "done" /\ UNCHANGED held
        /\ ~Live(r)' => ~Live(r)
        /\ \A q \in Req \ {r}: pc'[q] = pc[q] /\ tx'[q] = tx[q]
    BY <1>1, <1>2, <1>16 DEF GiveUp, LoseBegin, Live, Progress
  <2>2. InOrder(r)'
    BY <1>2, <2>1 DEF InOrder
  <2>3. QED
    BY <2>1, <2>2, OwnOrder
<1>17. QED
  BY <1>5, <1>6, <1>7, <1>8, <1>9, <1>10, <1>11, <1>12, <1>13, <1>14, <1>15,
     <1>16
  DEF Next, Handle, Server, Faulty

LEMMA OrderHolds == Spec => []LocksInOrder
<1>1. Init => LocksInOrder
  BY DEF Init, LocksInOrder, InOrder
<1>2. SafeInv /\ LocksInOrder /\ [Next]_vars => LocksInOrder'
  BY OrderStep
<1>3. QED
  BY <1>1, <1>2, Safety, PTL DEF Spec

\* Who is waited for waits itself, if at all, for a lock of a later rank.
LEMMA WaitsRise ==
    ASSUME SafeInv, LocksInOrder, NEW r \in Req, NEW q \in Req, NEW s \in Req,
           WaitsFor(r, q), WaitsFor(q, s),
           NEW l \in Lock, Wants(r, l), NEW m \in held[q], Conflict(l, m),
           NEW n \in Lock, Wants(q, n), NEW o \in held[s], Conflict(n, o)
    PROVE  Rank(l) < Rank(n)
<1>1. InOrder(q) /\ Replacing(q)
  BY DEF SafeInv, LocksInOrder
<1>2. Rank(l) = Rank(m)
  BY ConflictsAreOfOneRank
<1>3. held[q] # {}
  OBVIOUS
<1>4. \/ pc[q] = "lockPack" /\ n = <<"update", jti[q]>>
      \/ pc[q] = "insertSession" /\ n = <<"slot", jti[q]>>
      \/ pc[q] = "checkForeignKey" /\ n = <<"keyShare", jti[q]>>
  BY <1>1, <1>3 DEF Wants, InOrder
<1>5. CASE pc[q] = "lockPack" \/ pc[q] = "checkForeignKey"
  <2>1. Rank(n) = 2
    BY <1>4, <1>5 DEF Rank
  <2>2. m[1] \in {"session", "slot"}
    BY <1>1, <1>5 DEF InOrder
  <2>3. QED
    BY <1>2, <2>1, <2>2 DEF Rank
<1>6. CASE pc[q] = "insertSession"
  <2>1. n = <<"slot", jti[q]>> /\ Rank(n) = 1
    BY <1>4, <1>6 DEF Rank
  <2>2. m[1] \in {"session", "slot"}
    BY <1>1, <1>6 DEF InOrder
  <2>3. m[1] # "slot"
    <3> SUFFICES ASSUME m[1] = "slot" PROVE FALSE
      OBVIOUS
    <3>1. held[q] \subseteq Lock
      BY DEF SafeInv, TypeOK
    <3>2. PICK p \in Pack: m = <<"slot", p>>
      BY <3>1 DEF Lock
    <3>3. m = n
      BY <1>1, <2>1, <3>2 DEF Replacing
    <3>4. q # s
      BY DEF WaitsFor
    <3>5. QED
      BY <3>3, <3>4 DEF SafeInv, LocksExclude
  <2>4. QED
    BY <1>2, <2>1, <2>2, <2>3 DEF Rank
<1>7. QED
  BY <1>4, <1>5, <1>6

\* Consumes, activations, logouts and revocations never wait for each other in
\* a circle, however many there are and whoever gave up: each of the
\* statements, of all that lock rows, asks for a later lock than those its
\* transaction has (consume_pack_in_open_tx, create_pack_session,
\* revoke_pack_session, revoke_pack).
THEOREM NobodyWaitsInCircle == Spec => []NoCircle
<1>1. ASSUME SafeInv, LocksInOrder PROVE NoCircle
  <2> SUFFICES ASSUME NEW S \in SUBSET Req, S # {},
                      \A r \in S: \E q \in S: WaitsFor(r, q)
               PROVE  FALSE
    BY DEF NoCircle
  <2>1. PICK a \in S, b \in S, c \in S, d \in S, e \in S:
          /\ WaitsFor(a, b) /\ WaitsFor(b, c) /\ WaitsFor(c, d)
          /\ WaitsFor(d, e)
    OBVIOUS
  <2>2. PICK l \in Lock, m \in held[b]: Wants(a, l) /\ Conflict(l, m)
    BY <2>1 DEF WaitsFor
  <2>3. PICK n \in Lock, o \in held[c]: Wants(b, n) /\ Conflict(n, o)
    BY <2>1 DEF WaitsFor
  <2>4. PICK p \in Lock, q \in held[d]: Wants(c, p) /\ Conflict(p, q)
    BY <2>1 DEF WaitsFor
  <2>5. PICK s \in Lock, t \in held[e]: Wants(d, s) /\ Conflict(s, t)
    BY <2>1 DEF WaitsFor
  <2>6. Rank(l) < Rank(n)
    BY <1>1, <2>1, <2>2, <2>3, WaitsRise
  <2>7. Rank(n) < Rank(p)
    BY <1>1, <2>1, <2>3, <2>4, WaitsRise
  <2>8. Rank(p) < Rank(s)
    BY <1>1, <2>1, <2>4, <2>5, WaitsRise
  <2>9. QED
    BY <2>6, <2>7, <2>8 DEF Rank
<1>2. SafeInv /\ LocksInOrder => NoCircle
  BY <1>1
<1>3. QED
  BY <1>2, OrderHolds, Safety, PTL

-----------------------------------------------------------------------------
\* Progress.

\* r's next step, or the server's next step for it, is possible: the statement
\* asks for no lock or gets it, COMMIT has something to do, or the transaction
\* is over.
CanCommit(r) ==
    \/ outcome[r] = "Consumed"
    \/ job[r].op \in {"session", "logout"}
    \/ job[r].op = "revoke"
    \/ job[r].op = "consume" /\ outcome[r] # "Done"

CanGoOn(r) ==
    \/ pc[r] \in {"getPackForSession", "getPack", "consumeNonce", "begin"}
    \/ /\ tx[r] = "open"
       /\ \/ pc[r] \in {"deleteSession", "findConsumption", "commit",
                        "rollback"}
          \/ \E l \in Lock: Wants(r, l) /\ Free(r, l)
    \/ tx[r] = "committing" /\ CanCommit(r)
    \/ tx[r] = "dropped"
    \/ tx[r] = "committed" /\ pc[r] = "awaitCommit"
    \/ tx[r] = "aborted" /\ pc[r] # "done"

Unfinished(r) == pc[r] \notin {"idle", "done"} \/ Live(r)

SomethingMoves == (\E r \in Req: Unfinished(r)) => \E r \in Req: CanGoOn(r)

\* While a request is not answered, or a transaction not over, one of them can
\* go on: no lock is waited for that its owner will not give back, also when
\* its owner has given up or failed (finish, rollback, discard).
THEOREM NoStandstill == Spec => []SomethingMoves
<1>1. ASSUME SafeInv, LocksInOrder, NoCircle, NEW r0 \in Req, Unfinished(r0),
             \A r \in Req: ~CanGoOn(r)
      PROVE  FALSE
  <2> DEFINE S == {r \in Req: Unfinished(r)}
  <2>1. ASSUME NEW r \in S PROVE \E q \in S: WaitsFor(r, q)
    <3>1. /\ Progress(r) /\ JobOfLabel(r) /\ Protected(r) /\ TypeOK
          /\ InOrder(r) /\ Unfinished(r) /\ ~CanGoOn(r)
      BY <1>1 DEF SafeInv, LocksInOrder
    <3>2. tx[r] # "committing"
      <4> SUFFICES ASSUME tx[r] = "committing" PROVE CanCommit(r)
        BY <3>1 DEF CanGoOn
      <4>1. job[r] \in Job
        BY <3>1 DEF JobOfLabel
      <4>2. QED
        BY <3>1, <4>1, JobFields DEF CanCommit, Progress
    <3>3. /\ tx[r] \in {"none", "open", "dropped", "left", "committing",
                        "committed", "aborted"}
          /\ pc[r] \in Labels
      BY <3>1 DEF TypeOK
    <3>4. tx[r] = "open"
      BY <3>1, <3>2, <3>3
      DEF Unfinished, Live, Progress, InOrder, CanGoOn, Labels
    <3>5. PICK l \in Lock: Wants(r, l)
      <4>1. pc[r] \in {"lockPackSession", "revokePackSession",
                       "lockOldSession", "insertSession", "lockPack",
                       "revokePack", "checkForeignKey"}
        BY <3>1, <3>3, <3>4 DEF Progress, InOrder, CanGoOn, Labels
      <4>2. CASE pc[r] \in {"lockPackSession", "revokePackSession"}
        <5>1. job[r].secret \in Secret
          BY <3>1, <4>2, JobFields DEF JobOfLabel, Job
        <5>2. QED
          BY <3>4, <4>2, <5>1 DEF Wants, Lock
      <4>3. CASE pc[r] = "lockOldSession"
        BY <3>1, <3>4, <4>3 DEF Protected, Wants, Lock
      <4>4. CASE pc[r] \in {"insertSession", "lockPack", "revokePack",
                            "checkForeignKey"}
        <5>1. jti[r] \in Pack
          BY <3>1, <3>4, <4>4 DEF JobOfLabel
        <5>2. QED
          BY <3>4, <4>4, <5>1 DEF Wants, Lock
      <4>5. QED
        BY <4>1, <4>2, <4>3, <4>4
    <3>6. ~Free(r, l)
      BY <3>1, <3>4, <3>5 DEF CanGoOn
    <3>7. PICK q \in Req \ {r}: \E m \in held[q]: Conflict(l, m)
      BY <3>6 DEF Free
    <3>8. Live(q)
      BY <1>1, <3>7 DEF LocksInOrder, InOrder
    <3>9. QED
      BY <3>5, <3>7, <3>8 DEF WaitsFor, Unfinished
  <2>2. QED
    BY <1>1, <2>1 DEF NoCircle
<1>2. SafeInv /\ LocksInOrder /\ NoCircle => SomethingMoves
  BY <1>1 DEF SomethingMoves
<1>3. QED
  BY <1>2, OrderHolds, NobodyWaitsInCircle, Safety, PTL

-----------------------------------------------------------------------------
\* The promises of PackStore, from SafeInv: sessions.

\* The index entry an activation takes keeps sessions apart, so that no pack
\* has two of them.
THEOREM SingleSession == Spec => []OneSessionPerPack
<1>1. ASSUME SafeInv, NEW p \in Pack
      PROVE  Cardinality(SessionsOf(p)) <= 1
  <2>1. \A s, t \in SessionsOf(p): s = t
    BY <1>1 DEF SafeInv, OneSession, SessionsOf
  <2>2. CASE SessionsOf(p) = {}
    BY <2>2, FS_EmptySet
  <2>3. CASE SessionsOf(p) # {}
    <3>1. PICK s: SessionsOf(p) = {s}
      BY <2>1, <2>3
    <3>2. Cardinality({s}) = 1
      BY FS_Singleton
    <3> QED
      BY <3>1, <3>2
  <2> QED
    BY <2>2, <2>3
<1>2. SafeInv => OneSessionPerPack
  BY <1>1 DEF OneSessionPerPack
<1> QED
  BY <1>2, Safety, PTL

-----------------------------------------------------------------------------
\* Uses.

\* Uses are recorded by the commit of a consume that holds its locks.
Charging(r) ==
    /\ Live(r) /\ outcome[r] = "Consumed"
    /\ job[r] \in ConsumeJob /\ jti[r] \in Pack
    /\ row[r] = [id |-> r, jti |-> jti[r], key |-> job[r].key,
                 resource |-> job[r].resource,
                 remaining |-> Total[jti[r]] - used[jti[r]] - 1]
    /\ uses' = uses \cup {row[r]}
    /\ used' = [used EXCEPT ![jti[r]] = @ + 1]
    /\ UNCHANGED <<revoked, sessions>>

\* What r's locks guarantee by then.
LEMMA ChargingFacts ==
    ASSUME SafeInv, NEW r \in Req, Charging(r)
    PROVE  /\ used[jti[r]] \in Nat /\ Total[jti[r]] \in Nat
           /\ used[jti[r]] < Total[jti[r]] /\ ~revoked[jti[r]]
           /\ row[r].jti = jti[r] /\ row[r].key = job[r].key
           /\ row[r].remaining = Total[jti[r]] - used[jti[r]] - 1
           /\ \A u \in uses: ~(u.jti = jti[r] /\ u.key = job[r].key)
<1>1. Protected(r) /\ TypeOK
  BY DEF SafeInv
<1>2. /\ used[jti[r]] < Total[jti[r]] /\ ~revoked[jti[r]]
      /\ \A u \in uses: ~(u.jti = jti[r] /\ u.key = job[r].key)
  BY <1>1 DEF Protected, Charging
<1>3. used[jti[r]] \in Nat /\ Total[jti[r]] \in Nat
  BY <1>1, PackAssumption DEF TypeOK, Charging
<1>4. /\ row[r].jti = jti[r] /\ row[r].key = job[r].key
      /\ row[r].remaining = Total[jti[r]] - used[jti[r]] - 1
  BY DEF Charging
<1> QED
  BY <1>2, <1>3, <1>4

\* Every other step leaves them alone.
LEMMA WhoCharges ==
    ASSUME SafeInv, [Next]_vars
    PROVE  \/ UNCHANGED <<uses, used>>
           \/ \E r \in Req: Charging(r)
<1>1. CASE UNCHANGED vars
  BY <1>1 DEF vars, tables
<1>2. CASE Tick \/ Quiet
  BY <1>2 DEF Tick, Quiet, vars, tables
<1>3. ASSUME NEW r \in Req,
             \/ Start(r) \/ Reject(r) \/ LoseNonce(r) \/ LoseBegin(r)
             \/ GiveUp(r)
      PROVE  UNCHANGED <<uses, used>>
  BY <1>3 DEF Start, Reject, LoseNonce, LoseBegin, GiveUp, Refuse, tables
<1>4. ASSUME NEW r \in Req, Handle(r)
      PROVE  UNCHANGED <<uses, used>>
  <2>1. CASE GetPackForSession(r) \/ GetPack(r) \/ ConsumeNonce(r)
    BY <2>1 DEF GetPackForSession, GetPack, ConsumeNonce, Refuse, tables
  <2>2. CASE OpenTransaction(r) \/ LockPackSession(r) \/ LockPack(r)
    BY <2>2 DEF OpenTransaction, LockPackSession, LockPack, tables
  <2>3. CASE FindConsumption(r) \/ RevokePackSession(r) \/ RevokePack(r)
    BY <2>3 DEF FindConsumption, RevokePackSession, RevokePack, tables
  <2>4. CASE DeleteSession(r) \/ LockOldSession(r) \/ InsertSession(r)
             \/ CheckForeignKey(r)
    BY <2>4 DEF DeleteSession, LockOldSession, InsertSession,
                CheckForeignKey, tables
  <2>5. CASE SendCommit(r) \/ Rollback(r) \/ Reply(r) \/ Fail(r)
    BY <2>5 DEF SendCommit, Rollback, Reply, Fail, Refuse, tables
  <2> QED
    BY <1>4, <2>1, <2>2, <2>3, <2>4, <2>5 DEF Handle
<1>5. ASSUME NEW r \in Req, DbAbort(r) \/ NoticeDiscard(r)
      PROVE  UNCHANGED <<uses, used>>
  BY <1>5 DEF DbAbort, NoticeDiscard, Abort, tables
<1>6. ASSUME NEW r \in Req, DbCommit(r), ~CommitUse(r)
      PROVE  UNCHANGED <<uses, used>>
  BY <1>6 DEF DbCommit, CommitSession, CommitLogout, CommitRevoke, CommitNothing
<1>7. ASSUME NEW r \in Req, DbCommit(r), CommitUse(r)
      PROVE  Charging(r)
  <2>1. JobOfLabel(r) /\ Progress(r) /\ Protected(r)
    BY DEF SafeInv
  <2>2. Live(r) /\ tx[r] # "none" /\ outcome[r] = "Consumed"
    BY <1>7 DEF DbCommit, CommitUse, Live
  <2>3. job[r] \in ConsumeJob /\ jti[r] \in Pack
    BY <2>1, <2>2 DEF Progress, JobOfLabel
  <2> QED
    BY <1>7, <2>1, <2>2, <2>3 DEF CommitUse, Charging, Protected
<1> QED
  BY <1>1, <1>2, <1>3, <1>4, <1>5, <1>6, <1>7 DEF Next, Server, Faulty

\* The row lock on the pack, taken before the key is looked up, makes retries
\* and concurrent tries of one key charge it once.
THEOREM ChargedOnce == Spec => []OneChargePerKey
<1>1. Init => OneChargePerKey
  BY DEF Init, OneChargePerKey
<1>2. ASSUME SafeInv, [Next]_vars, OneChargePerKey
      PROVE  OneChargePerKey'
  <2>1. CASE UNCHANGED <<uses, used>>
    BY <1>2, <2>1 DEF OneChargePerKey
  <2>2. ASSUME NEW r \in Req, Charging(r)
        PROVE  OneChargePerKey'
    <3>1. \A u \in uses: ~(u.jti = row[r].jti /\ u.key = row[r].key)
      BY <1>2, <2>2, ChargingFacts
    <3> QED
      BY <1>2, <2>2, <3>1 DEF OneChargePerKey, Charging
  <2> QED
    BY <1>2, <2>1, <2>2, WhoCharges
<1>3. SafeInv /\ [Next]_vars /\ OneChargePerKey => OneChargePerKey'
  BY <1>2
<1> QED
  BY <1>1, <1>3, Safety, PTL DEF Spec

\* A charge and a revocation of one pack exclude each other, so that no use is
\* recorded after the revocation committed.
THEOREM RevocationIsFinal == Spec => NoUseAfterRevocation
<1>1. ASSUME SafeInv, [Next]_vars, NEW p \in Pack, revoked[p]
      PROVE  used'[p] = used[p]
  <2>1. CASE UNCHANGED <<uses, used>>
    BY <2>1
  <2>2. ASSUME NEW r \in Req, Charging(r)
        PROVE  used'[p] = used[p]
    <3>1. ~revoked[jti[r]]
      BY <1>1, <2>2, ChargingFacts
    <3> QED
      BY <1>1, <2>2, <3>1 DEF SafeInv, TypeOK, Charging
  <2> QED
    BY <1>1, <2>1, <2>2, WhoCharges
<1>2. SafeInv /\ [Next]_vars
        => [\A p \in Pack: revoked[p] => used'[p] = used[p]]_vars
  BY <1>1
<1> QED
  BY <1>2, Safety, PTL DEF Spec, NoUseAfterRevocation

\* The row lock on the session keeps it in place until the use is recorded.
THEOREM ChargedToLiveSession == Spec => UseNeedsLiveSession
<1> DEFINE Good ==
      \A r \in Req: row[r] \in uses' \ uses /\ row[r].id = r =>
        LET s == sessions[job[r].secret] IN
        s # None /\ s.jti = jti[r] /\ ~s.revoked
<1>1. ASSUME SafeInv, [Next]_vars
      PROVE  Good
  <2>1. CASE UNCHANGED <<uses, used>>
    BY <2>1
  <2>2. ASSUME NEW r \in Req, Charging(r)
        PROVE  Good
    <3>1. LET s == sessions[job[r].secret] IN
          s # None /\ s.jti = jti[r] /\ ~s.revoked
      BY <1>1, <2>2 DEF SafeInv, Charging, Protected
    <3>2. \A q \in Req: row[q] \in uses' \ uses /\ row[q].id = q => q = r
      BY <2>2 DEF Charging
    <3> QED
      BY <3>1, <3>2
  <2> QED
    BY <1>1, <2>1, <2>2, WhoCharges
<1>2. SafeInv /\ [Next]_vars => [Good]_vars
  BY <1>1
<1> QED
  BY <1>2, Safety, PTL DEF Spec, UseNeedsLiveSession

\* The table of consumptions is finite at any time.
LedgerInv == IsFiniteSet(uses) /\ LedgerAgreement

\* An interval grows at its lower end.
LEMMA IntervalDown ==
    ASSUME NEW a \in Nat, NEW n \in Nat, n < a
    PROVE  ((a - n)..(a - 1)) \cup {a - n - 1} = (a - (n + 1))..(a - 1)
OBVIOUS

\* Charging adds one row to the pack's, with the next receipt.
LEMMA ChargeKeepsLedger ==
    ASSUME SafeInv, LedgerInv, NEW r \in Req, Charging(r)
    PROVE  LedgerInv'
<1> DEFINE j == jti[r]
           After(p) == {u \in uses': u.jti = p}
<1>1. /\ j \in Pack /\ used[j] \in Nat /\ Total[j] \in Nat
      /\ used[j] < Total[j] /\ row[r] \notin uses
      /\ row[r].jti = j /\ row[r].remaining = Total[j] - used[j] - 1
      /\ uses' = uses \cup {row[r]}
      /\ used'[j] = used[j] + 1
      /\ \A p \in Pack \ {j}: used'[p] = used[p]
  <2>1. /\ j \in Pack /\ uses' = uses \cup {row[r]}
        /\ used' = [used EXCEPT ![j] = @ + 1] /\ used \in [Pack -> Nat]
    BY DEF Charging, SafeInv, TypeOK
  <2>2. /\ used[j] \in Nat /\ Total[j] \in Nat /\ used[j] < Total[j]
        /\ row[r].jti = j /\ row[r].remaining = Total[j] - used[j] - 1
        /\ row[r] \notin uses
    BY ChargingFacts
  <2> QED
    BY <2>1, <2>2
<1> HIDE DEF j
<1>2. IsFiniteSet(uses')
  BY <1>1, FS_AddElement DEF LedgerInv
<1>3. ASSUME NEW p \in Pack \ {j}
      PROVE  After(p) = UsesOf(p)
  BY <1>1 DEF UsesOf
<1>4. /\ After(j) = UsesOf(j) \cup {row[r]} /\ row[r] \notin UsesOf(j)
      /\ IsFiniteSet(UsesOf(j))
  <2>1. UsesOf(j) \in SUBSET uses
    BY DEF UsesOf
  <2>2. IsFiniteSet(UsesOf(j))
    BY <2>1, FS_Subset DEF LedgerInv
  <2> QED
    BY <1>1, <2>2 DEF UsesOf
<1> HIDE DEF After
<1>5. /\ used[j] = Cardinality(UsesOf(j))
      /\ {u.remaining: u \in UsesOf(j)} = (Total[j] - used[j])..(Total[j] - 1)
  BY <1>1 DEF LedgerInv, LedgerAgreement
<1>6. used'[j] = Cardinality(After(j))
  <2>1. Cardinality(After(j)) = Cardinality(UsesOf(j)) + 1
    BY <1>4, FS_AddElement
  <2> QED
    BY <1>1, <1>5, <2>1
<1>7. {u.remaining: u \in After(j)}
        = (Total[j] - used'[j])..(Total[j] - 1)
  <2>1. {u.remaining: u \in After(j)}
          = {u.remaining: u \in UsesOf(j)} \cup {row[r].remaining}
    BY <1>4
  <2>2. ((Total[j] - used[j])..(Total[j] - 1)) \cup {Total[j] - used[j] - 1}
          = (Total[j] - (used[j] + 1))..(Total[j] - 1)
    BY <1>1, IntervalDown
  <2> QED
    BY <1>1, <1>5, <2>1, <2>2
<1>8. ASSUME NEW p \in Pack \ {j}
      PROVE  /\ used'[p] = Cardinality(After(p))
             /\ used'[p] <= Total[p]
             /\ {u.remaining: u \in After(p)}
                  = (Total[p] - used'[p])..(Total[p] - 1)
  BY <1>1, <1>3 DEF LedgerInv, LedgerAgreement
<1>9. used'[j] <= Total[j]
  BY <1>1
<1>10. ASSUME NEW p \in Pack
       PROVE  /\ used'[p] = Cardinality(After(p))
              /\ used'[p] <= Total[p]
              /\ {u.remaining: u \in After(p)}
                   = (Total[p] - used'[p])..(Total[p] - 1)
  <2>1. CASE p = j
    BY <1>6, <1>7, <1>9, <2>1
  <2>2. CASE p # j
    BY <1>8, <2>2
  <2> QED
    BY <2>1, <2>2
<1> QED
  BY <1>2, <1>10 DEF LedgerInv, LedgerAgreement, UsesOf, After

\* Each charge keeps them in agreement.
LEMMA LedgerHolds == Spec => []LedgerInv
<1>1. Init => LedgerInv
  <2> SUFFICES ASSUME Init PROVE LedgerInv
    OBVIOUS
  <2>1. uses = {} /\ \A p \in Pack: used[p] = 0 /\ UsesOf(p) = {}
    BY DEF Init, UsesOf
  <2>2. ASSUME NEW p \in Pack
        PROVE  /\ used[p] = Cardinality(UsesOf(p)) /\ used[p] <= Total[p]
               /\ {u.remaining: u \in UsesOf(p)}
                    = (Total[p] - used[p])..(Total[p] - 1)
    <3>1. Total[p] \in Nat
      BY PackAssumption
    <3>2. (Total[p] - used[p])..(Total[p] - 1) = {} /\ used[p] <= Total[p]
      BY <2>1, <3>1
    <3>3. {u.remaining: u \in UsesOf(p)} = {}
      BY <2>1
    <3>4. used[p] = Cardinality(UsesOf(p))
      BY <2>1, FS_EmptySet
    <3> QED
      BY <3>2, <3>3, <3>4
  <2>3. IsFiniteSet(uses)
    BY <2>1, FS_EmptySet
  <2> QED
    BY <2>2, <2>3 DEF LedgerInv, LedgerAgreement
<1>2. ASSUME SafeInv, [Next]_vars, LedgerInv
      PROVE  LedgerInv'
  <2>1. CASE UNCHANGED <<uses, used>>
    <3>1. uses' = uses /\ used' = used
      BY <2>1
    <3> QED
      BY <1>2, <3>1 DEF LedgerInv, LedgerAgreement, UsesOf
  <2>2. ASSUME NEW r \in Req, Charging(r)
        PROVE  LedgerInv'
    BY <1>2, <2>2, ChargeKeepsLedger
  <2> QED
    BY <1>2, <2>1, <2>2, WhoCharges
<1>3. SafeInv /\ [Next]_vars /\ LedgerInv => LedgerInv'
  BY <1>2
<1> QED
  BY <1>1, <1>3, Safety, PTL DEF Spec

\* used_uses, the consumption rows and their receipts always agree.
THEOREM LedgerAgrees == Spec => []LedgerAgreement
<1>1. LedgerInv => LedgerAgreement
  BY DEF LedgerInv
<1> QED
  BY <1>1, LedgerHolds, PTL

=============================================================================
