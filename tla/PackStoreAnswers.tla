-------------------------- MODULE PackStoreAnswers ---------------------------
(***************************************************************************)
(* What PackStore tells its clients, as theorems for every instance: what   *)
(* an answer is worth, what a signed challenge can do, who may fail; and    *)
(* that all of it together behaves as PackLedger.  They rest on SafeInv of  *)
(* PackStoreProofs, and on the invariants stated here of what a request has *)
(* burned, found and locked.                                                *)
(***************************************************************************)
EXTENDS PackStoreProofs

-----------------------------------------------------------------------------
\* Steps belong to one request.

Moves(r) ==
    Start(r) \/ Reject(r) \/ Handle(r) \/ Server(r) \/ Faulty(r)

\* r stays where it is, with what it remembers.
Untouched(r) ==
    /\ pc'[r] = pc[r] /\ job'[r] = job[r] /\ jti'[r] = jti[r]
    /\ tx'[r] = tx[r] /\ old'[r] = old[r] /\ row'[r] = row[r]
    /\ outcome'[r] = outcome[r] /\ reply'[r] = reply[r]

\* A handler writes to no other handler's variables.
LEMMA OthersUntouched ==
    ASSUME SafeInv, NEW q \in Req, Moves(q), NEW r \in Req \ {q}
    PROVE  Untouched(r)
<1> USE DEF Goto, Answer, Settle, Refuse, tables, scratch
<1>1. /\ pc \in [Req -> Labels] /\ job \in [Req -> Job \cup {None}]
      /\ jti \in [Req -> Pack \cup {None}] /\ DOMAIN tx = Req
      /\ old \in [Req -> Secret \cup {None}] /\ DOMAIN row = Req
      /\ outcome \in [Req -> Outcomes \cup {None}] /\ DOMAIN reply = Req
  BY DEF SafeInv, TypeOK
<1>2. CASE Start(q) \/ Reject(q) \/ Fail(q) \/ Reply(q)
  BY <1>1, <1>2 DEF Start, Reject, Fail, Reply, Untouched
<1>8. CASE LoseNonce(q) \/ LoseBegin(q) \/ GiveUp(q)
  BY <1>1, <1>8 DEF LoseNonce, LoseBegin, GiveUp, Untouched
<1>3. CASE GetPackForSession(q) \/ GetPack(q) \/ ConsumeNonce(q)
  BY <1>1, <1>3 DEF GetPackForSession, GetPack, ConsumeNonce, Untouched
<1>4. CASE OpenTransaction(q) \/ LockPackSession(q) \/ LockPack(q)
  BY <1>1, <1>4 DEF OpenTransaction, LockPackSession, LockPack, Untouched
<1>5. CASE FindConsumption(q) \/ RevokePackSession(q) \/ RevokePack(q)
  BY <1>1, <1>5 DEF FindConsumption, RevokePackSession, RevokePack, Untouched
<1>6. CASE DeleteSession(q) \/ LockOldSession(q) \/ InsertSession(q)
           \/ CheckForeignKey(q)
  BY <1>1, <1>6
  DEF DeleteSession, LockOldSession, InsertSession, CheckForeignKey, Untouched
<1>7. CASE SendCommit(q) \/ Rollback(q) \/ DbAbort(q) \/ DbCommit(q)
           \/ NoticeDiscard(q)
  BY <1>1, <1>7
  DEF SendCommit, Rollback, DbAbort, NoticeDiscard, Abort, DbCommit, Untouched
<1> QED
  BY <1>2, <1>3, <1>4, <1>5, <1>6, <1>7, <1>8
  DEF Moves, Handle, Server, Faulty

\* The other steps touch nothing but the clock.
LEMMA WhoMoves ==
    ASSUME [Next]_vars
    PROVE  \/ /\ UNCHANGED <<used, revoked, uses, sessions, nonces>>
              /\ UNCHANGED <<held, pc, tx, job, jti, old, row, outcome, reply>>
              /\ now' \in {now, now + 1}
           \/ \E r \in Req: Moves(r)
BY DEF Next, Moves, Tick, Quiet, vars, tables, scratch

\* Committed rows change at a commit, and the clock at no request's step.
LEMMA OnlyCommitsWrite ==
    ASSUME NEW r \in Req, Moves(r)
    PROVE  /\ now' = now
           /\ \/ DbCommit(r)
              \/ UNCHANGED <<used, revoked, uses, sessions>>
<1> USE DEF Refuse, tables
<1>1. CASE Start(r) \/ Reject(r) \/ Faulty(r) \/ Server(r)
  BY <1>1
  DEF Start, Reject, Faulty, LoseNonce, LoseBegin, GiveUp, Server, DbAbort,
      NoticeDiscard, Abort, DbCommit
<1>2. CASE Handle(r)
  BY <1>2
  DEF Handle, GetPackForSession, GetPack, ConsumeNonce, OpenTransaction,
      LockPackSession, LockPack, FindConsumption, RevokePackSession,
      RevokePack, DeleteSession, LockOldSession, InsertSession,
      CheckForeignKey, SendCommit, Rollback, Reply, Fail
<1> QED
  BY <1>1, <1>2 DEF Moves

-----------------------------------------------------------------------------
\* Challenges.

\* r's challenge was accepted, and bound to r's pack.
Burned(r) ==
    /\ job[r] \in SessionJob \cup RevokeJob
    /\ pc[r] = "begin" \/ tx[r] # "none"

\* A challenge is gone once accepted, so no one else has it.
BurnedAlone ==
    /\ \A r \in Req: Burned(r) => job[r].challenge \notin nonces
    /\ \A r, q \in Req:
         Burned(r) /\ Burned(q) /\ job[r].challenge = job[q].challenge => r = q

\* A step burns no challenge.
NoneBurned ==
    /\ nonces' \subseteq nonces
    /\ \A q \in Req: Burned(q)' => Burned(q) /\ job'[q] = job[q]

\* r burns its challenge.
Burns(r) ==
    /\ At(r, "consumeNonce") /\ job[r] \in SessionJob \cup RevokeJob
    /\ job[r].challenge \in nonces
    /\ nonces' = nonces \ {job[r].challenge}
    /\ job[r].challenge.action = job[r].op
    /\ job[r].challenge.jti = jti[r]
    /\ job'[r] = job[r] /\ jti'[r] = jti[r]
    /\ \A q \in Req \ {r}: Burned(q)' => Burned(q) /\ job'[q] = job[q]

\* r leaves its job alone, and is no further than it was.
LEMMA NothingBurned ==
    ASSUME SafeInv, NEW r \in Req, nonces' \subseteq nonces,
           \A q \in Req \ {r}: /\ pc'[q] = pc[q] /\ tx'[q] = tx[q]
                               /\ job'[q] = job[q],
           Burned(r)' => Burned(r) /\ job'[r] = job[r]
    PROVE  NoneBurned
BY DEF NoneBurned, Burned

LEMMA RefusalBurnsNothing ==
    ASSUME SafeInv, NEW r \in Req, NEW a, Refuse(r, a)
    PROVE  NoneBurned
<1>1. /\ pc'[r] = "done" /\ \A q \in Req \ {r}: pc'[q] = pc[q]
      /\ UNCHANGED <<nonces, tx, job>>
  BY DEF SafeInv, TypeOK, Refuse, Answer, Goto, tables, scratch
<1> QED
  BY <1>1 DEF NoneBurned, Burned

\* Only a handler that deletes the row of its challenge burns it.
LEMMA WhoBurns ==
    ASSUME SafeInv, [Next]_vars
    PROVE  NoneBurned \/ \E r \in Req: Burns(r)
<1> USE DEF tables, scratch
<1>1. CASE UNCHANGED vars \/ Tick \/ Quiet
  <2>1. UNCHANGED <<nonces, pc, tx, job>>
    BY <1>1 DEF vars, Tick, Quiet
  <2> QED
    BY <2>1 DEF NoneBurned, Burned
<1>2. ASSUME NEW r \in Req, Start(r)
      PROVE  NoneBurned
  <2>1. /\ tx[r] = "none" /\ UNCHANGED <<tx, nonces>>
        /\ \A q \in Req \ {r}: pc'[q] = pc[q] /\ job'[q] = job[q]
    BY <1>2 DEF Start, At, Goto, SafeInv, TypeOK, Progress
  <2>2. ~Burned(r)'
    <3>1. PICK j \in Job:
            /\ job' = [job EXCEPT ![r] = j]
            /\ pc' = [pc EXCEPT ![r] =
                 CASE j.op = "consume" -> "getPackForSession"
                   [] j.op = "logout" -> "begin"
                   [] j.op = "session" -> "getPack"
                   [] j.op = "revoke" -> "consumeNonce"]
      BY <1>2 DEF Start, Goto
    <3>2. job'[r] = j /\ (pc'[r] = "begin" => j.op = "logout")
      BY <3>1, JobFields DEF SafeInv, TypeOK
    <3>3. j.op = "logout" => j \notin SessionJob \cup RevokeJob
      BY JobFields
    <3> QED
      BY <2>1, <3>2, <3>3 DEF Burned
  <2> QED
    BY <2>1, <2>2, NothingBurned
<1>3. ASSUME NEW r \in Req, Reject(r) \/ Fail(r) \/ Reply(r)
      PROVE  NoneBurned
  BY <1>3, RefusalBurnsNothing DEF Reject, Fail, Reply
<1>4. ASSUME NEW r \in Req, LoseNonce(r)
      PROVE  NoneBurned
  <2>1. /\ pc'[r] = "done" /\ tx[r] = "none"
        /\ UNCHANGED <<tx, job>> /\ nonces' \subseteq nonces
        /\ \A q \in Req \ {r}: pc'[q] = pc[q]
    BY <1>4 DEF LoseNonce, Answer, Goto, At, SafeInv, TypeOK, Progress
  <2> QED
    BY <2>1 DEF NoneBurned, Burned
<1>5. ASSUME NEW r \in Req, ConsumeNonce(r)
      PROVE  NoneBurned \/ Burns(r)
  <2>1. CASE Refuse(r, "Unauthorized")
    BY <2>1, RefusalBurnsNothing
  <2>2. CASE ~Refuse(r, "Unauthorized")
    <3>1. /\ job[r].challenge \in nonces /\ job[r].challenge.action = job[r].op
          /\ nonces' = nonces \ {job[r].challenge}
          /\ UNCHANGED <<job, tx, jti>>
          /\ \/ job[r].challenge.jti = jti[r] /\ Goto(r, "begin")
             \/ Answer(r, "Unauthorized")
      BY <1>5, <2>2 DEF ConsumeNonce, Accepts
    <3>2. /\ At(r, "consumeNonce") /\ tx[r] = "none"
          /\ job[r] \in SessionJob \cup RevokeJob
          /\ \A q \in Req \ {r}: pc'[q] = pc[q]
      BY <1>5, <3>1
      DEF ConsumeNonce, At, Goto, Answer, SafeInv, TypeOK, Progress, JobOfLabel
    <3>3. CASE job[r].challenge.jti = jti[r] /\ Goto(r, "begin")
      BY <3>1, <3>2, <3>3 DEF Burns, Burned
    <3>4. CASE Answer(r, "Unauthorized")
      <4>1. pc'[r] = "done"
        BY <3>4 DEF Answer, Goto, SafeInv, TypeOK
      <4> QED
        BY <3>1, <3>2, <4>1 DEF NoneBurned, Burned
    <3> QED
      BY <3>1, <3>3, <3>4
  <2> QED
    BY <2>1, <2>2
<1>6. ASSUME NEW r \in Req, GetPackForSession(r)
      PROVE  NoneBurned
  <2>1. CASE \E a \in Replies: Refuse(r, a)
    BY <2>1, RefusalBurnsNothing
  <2>2. CASE ~\E a \in Replies: Refuse(r, a)
    <3>1. UNCHANGED <<nonces, job, tx>> /\ Goto(r, "begin")
      BY <1>6, <2>2 DEF GetPackForSession, Replies
    <3>2. job[r] \in ConsumeJob /\ \A q \in Req \ {r}: pc'[q] = pc[q]
      BY <1>6, <3>1
      DEF GetPackForSession, At, Goto, SafeInv, TypeOK, JobOfLabel
    <3>3. job[r] \notin SessionJob \cup RevokeJob
      BY <3>2, JobFields DEF Job
    <3> QED
      BY <3>1, <3>2, <3>3 DEF NoneBurned, Burned
  <2> QED
    BY <2>1, <2>2
<1>7. ASSUME NEW r \in Req, GetPack(r)
      PROVE  NoneBurned
  <2>1. CASE Refuse(r, "Unauthorized")
    BY <2>1, RefusalBurnsNothing
  <2>2. CASE ~Refuse(r, "Unauthorized")
    <3>1. /\ UNCHANGED <<nonces, job, tx>> /\ Goto(r, "consumeNonce")
          /\ tx[r] = "none"
      BY <1>7, <2>2 DEF GetPack, At, SafeInv, Progress
    <3>2. pc'[r] = "consumeNonce" /\ \A q \in Req \ {r}: pc'[q] = pc[q]
      BY <3>1 DEF Goto, SafeInv, TypeOK
    <3> QED
      BY <3>1, <3>2 DEF NoneBurned, Burned
  <2> QED
    BY <2>1, <2>2
<1>8. ASSUME NEW r \in Req, UNCHANGED <<nonces, job>>, Burned(r)' => Burned(r),
             \A q \in Req \ {r}: pc'[q] = pc[q] /\ tx'[q] = tx[q]
      PROVE  NoneBurned
  BY <1>8 DEF NoneBurned, Burned
<1>12. ASSUME NEW r \in Req, GiveUp(r)
       PROVE  NoneBurned
  <2>1. /\ UNCHANGED <<nonces, job>> /\ pc'[r] = "done"
        /\ tx'[r] # "none" => tx[r] # "none"
        /\ \A q \in Req \ {r}: pc'[q] = pc[q] /\ tx'[q] = tx[q]
    BY <1>12 DEF GiveUp, Answer, Goto, SafeInv, TypeOK
  <2> QED
    BY <1>8, <2>1 DEF Burned
<1>9. ASSUME NEW r \in Req, OpenTransaction(r) \/ LoseBegin(r)
      PROVE  NoneBurned
  <2>1. /\ UNCHANGED <<nonces, job>> /\ pc[r] = "begin"
        /\ \A q \in Req \ {r}: pc'[q] = pc[q] /\ tx'[q] = tx[q]
    BY <1>9 DEF OpenTransaction, LoseBegin, Answer, At, Goto, SafeInv, TypeOK
  <2> QED
    BY <1>8, <2>1 DEF Burned
<1>10. ASSUME NEW r \in Req,
              \/ LockPackSession(r) \/ LockPack(r) \/ FindConsumption(r)
              \/ RevokePackSession(r) \/ RevokePack(r) \/ DeleteSession(r)
              \/ LockOldSession(r) \/ InsertSession(r) \/ CheckForeignKey(r)
              \/ SendCommit(r)
       PROVE  NoneBurned
  <2>1. /\ UNCHANGED <<nonces, job>> /\ tx[r] # "none"
        /\ \E place \in Labels: Goto(r, place)
    BY <1>10
    DEF LockPackSession, LockPack, FindConsumption, RevokePackSession,
        RevokePack, DeleteSession, LockOldSession, InsertSession,
        CheckForeignKey, SendCommit, Settle, InTx, Labels
  <2>2. \A q \in Req \ {r}: pc'[q] = pc[q] /\ tx'[q] = tx[q]
    BY <1>10, <2>1
    DEF LockPackSession, LockPack, FindConsumption, RevokePackSession,
        RevokePack, DeleteSession, LockOldSession, InsertSession,
        CheckForeignKey, SendCommit, Goto, SafeInv, TypeOK
  <2> QED
    BY <1>8, <2>1, <2>2 DEF Burned
<1>11. ASSUME NEW r \in Req, Rollback(r) \/ Server(r) \/ DbAbort(r)
       PROVE  NoneBurned
  <2>1. /\ UNCHANGED <<nonces, job>> /\ tx[r] # "none"
        /\ \A q \in Req \ {r}: pc'[q] = pc[q] /\ tx'[q] = tx[q]
    BY <1>11
    DEF Rollback, Server, DbCommit, DbAbort, NoticeDiscard, Abort, Answer, InTx,
        Goto, SafeInv, TypeOK
  <2> QED
    BY <1>8, <2>1 DEF Burned
<1> QED
  BY <1>1, <1>2, <1>3, <1>4, <1>5, <1>6, <1>7, <1>9, <1>10, <1>11,
     <1>12
  DEF Next, Handle, Faulty

\* So two requests never burn the same challenge.
LEMMA BurnedAloneStep ==
    ASSUME SafeInv, BurnedAlone, [Next]_vars
    PROVE  BurnedAlone'
<1>1. CASE NoneBurned
  BY <1>1 DEF BurnedAlone, NoneBurned
<1>2. ASSUME NEW r \in Req, Burns(r)
      PROVE  BurnedAlone'
  <2>1. ASSUME NEW q \in Req \ {r}, Burned(q)'
        PROVE  /\ Burned(q) /\ job'[q] = job[q]
               /\ job[q].challenge \notin nonces
               /\ job[q].challenge # job[r].challenge
    BY <1>2, <2>1 DEF BurnedAlone, Burns
  <2>2. job'[r] = job[r] /\ nonces' = nonces \ {job[r].challenge}
    BY <1>2 DEF Burns
  <2>3. ASSUME NEW q \in Req, Burned(q)'
        PROVE  job'[q].challenge \notin nonces'
    BY <2>1, <2>2, <2>3
  <2>4. ASSUME NEW p \in Req, NEW q \in Req, Burned(p)', Burned(q)',
               job'[p].challenge = job'[q].challenge
        PROVE  p = q
    BY <2>1, <2>2, <2>4 DEF BurnedAlone
  <2> QED
    BY <2>3, <2>4 DEF BurnedAlone
<1> QED
  BY <1>1, <1>2, WhoBurns

\* A nonce's row is deleted in a transaction of its own, so a challenge starts
\* at most one transaction, whoever presents it again and whatever was lost.
THEOREM ChallengesStartOnce == Spec => []ChallengeUsedOnce
<1>1. Init => BurnedAlone
  <2> SUFFICES ASSUME Init PROVE BurnedAlone
    OBVIOUS
  <2>1. \A r \in Req: ~Burned(r)
    BY DEF Init, Burned
  <2> QED
    BY <2>1 DEF BurnedAlone
<1>2. SafeInv /\ BurnedAlone /\ [Next]_vars => BurnedAlone'
  BY BurnedAloneStep
<1>3. ASSUME SafeInv, BurnedAlone
      PROVE  ChallengeUsedOnce
  <2>1. ASSUME NEW r \in Req, tx[r] # "none", Challenged(r)
        PROVE  Burned(r)
    <3>1. job[r] \in Job
      BY <2>1, <1>3 DEF SafeInv, JobOfLabel
    <3> QED
      BY <2>1, <3>1, JobFields DEF Burned, Challenged
  <2> QED
    BY <1>3, <2>1 DEF ChallengeUsedOnce, BurnedAlone
<1>4. SafeInv /\ BurnedAlone => ChallengeUsedOnce
  BY <1>3
<1> QED
  BY <1>1, <1>2, <1>4, Safety, PTL DEF Spec

-----------------------------------------------------------------------------
\* Activations.

\* The pack of an activation was found to be its signer's, and its challenge
\* to be for this pack; its session says so.
Authorised(r) ==
    /\ job[r] \in SessionJob /\ pc[r] = "consumeNonce"
         => job[r].challenge.wallet = Payer[jti[r]]
    /\ job[r] \in SessionJob /\ Burned(r) =>
         /\ job[r].challenge.action = "session"
         /\ job[r].challenge.jti = jti[r]
         /\ job[r].challenge.wallet = Payer[jti[r]]
    /\ sessions[r] # None =>
         /\ job[r] \in SessionJob /\ tx[r] = "committed"
         /\ sessions[r].jti = jti[r]
         /\ sessions[r].wallet = job[r].challenge.wallet

\* A session row appears when its activation commits, and keeps pack and wallet.
LEMMA SessionRows ==
    ASSUME SafeInv, NEW r \in Req, Moves(r), NEW s \in Secret,
           sessions'[s] # None
    PROVE  \/ /\ sessions[s] # None
              /\ sessions'[s].jti = sessions[s].jti
              /\ sessions'[s].wallet = sessions[s].wallet
           \/ s = r /\ DbCommit(r) /\ CommitSession(r)
<1>1. CASE UNCHANGED sessions
  BY <1>1
<1>2. CASE DbCommit(r)
  <2>1. CASE CommitUse(r) \/ CommitRevoke(r) \/ CommitNothing(r)
    BY <2>1 DEF CommitUse, CommitRevoke, CommitNothing
  <2>2. CASE CommitSession(r)
    BY <1>2, <2>2 DEF CommitSession
  <2>3. CASE CommitLogout(r)
    <3>1. CASE <<"session", s>> \in held[r]
      <4>1. sessions[s] \in Session /\ sessions[s] # None
        BY <3>1 DEF SafeInv, TypeOK, LockedRowsExist
      <4>2. sessions'[s] = [sessions[s] EXCEPT !.revoked = TRUE]
        BY <2>3, <3>1 DEF CommitLogout
      <4> QED
        BY <4>1, <4>2 DEF Session
    <3>2. CASE <<"session", s>> \notin held[r]
      BY <2>3, <3>2 DEF CommitLogout
    <3> QED
      BY <3>1, <3>2
  <2> QED
    BY <1>2, <2>1, <2>2, <2>3 DEF DbCommit
<1> QED
  BY <1>1, <1>2, OnlyCommitsWrite

\* A request knows its job when it arrives, and its pack before it begins.
LEMMA JobIsKept ==
    ASSUME SafeInv, NEW r \in Req, Moves(r)
    PROVE  \/ Start(r)
           \/ GetPackForSession(r)
           \/ /\ job'[r] = job[r] /\ jti'[r] = jti[r]
              /\ pc'[r] = "consumeNonce" => GetPack(r)
<1> USE DEF Goto, Answer, Settle, Refuse, tables, scratch
<1>1. DOMAIN pc = Req
  BY DEF SafeInv, TypeOK
<1>2. CASE Reject(r) \/ LoseNonce(r) \/ LoseBegin(r) \/ GiveUp(r) \/ Fail(r)
           \/ Reply(r)
  BY <1>1, <1>2 DEF Reject, LoseNonce, LoseBegin, GiveUp, Fail, Reply
<1>3. CASE GetPack(r) \/ ConsumeNonce(r) \/ OpenTransaction(r)
  BY <1>1, <1>3
  DEF GetPack, ConsumeNonce, OpenTransaction, FirstStatement, At, SafeInv,
      JobOfLabel, Job, ConsumeJob, LogoutJob, SessionJob, RevokeJob
<1>4. CASE LockPackSession(r) \/ LockPack(r) \/ FindConsumption(r)
           \/ RevokePackSession(r) \/ RevokePack(r)
  BY <1>1, <1>4
  DEF LockPackSession, LockPack, FindConsumption, RevokePackSession, RevokePack
<1>5. CASE DeleteSession(r) \/ LockOldSession(r) \/ InsertSession(r)
           \/ CheckForeignKey(r) \/ SendCommit(r) \/ Rollback(r)
  BY <1>1, <1>5
  DEF DeleteSession, LockOldSession, InsertSession, CheckForeignKey,
      SendCommit, Rollback
<1>6. CASE DbAbort(r) \/ NoticeDiscard(r) \/ DbCommit(r)
  <2>1. UNCHANGED <<pc, job, jti>> /\ Live(r)
    BY <1>6 DEF DbAbort, NoticeDiscard, Abort, DbCommit, Live
  <2>2. pc[r] # "consumeNonce"
    BY <2>1 DEF SafeInv, Progress, Live
  <2> QED
    BY <2>1, <2>2
<1> QED
  BY <1>2, <1>3, <1>4, <1>5, <1>6 DEF Moves, Handle, Server, Faulty

\* Who moves stays authorised.
LEMMA MoverAuthorised ==
    ASSUME SafeInv, [Next]_vars, NEW r \in Req, Moves(r), Authorised(r)
    PROVE  Authorised(r)'
<1>1. r \in Secret /\ SafeInv' /\ Protected(r)' /\ Progress(r) /\ JobOfLabel(r)
  BY StepInv DEF Secret, SafeInv
<1>2. CASE Start(r)
  <2>1. PICK j \in Job:
          /\ job' = [job EXCEPT ![r] = j]
          /\ pc' = [pc EXCEPT ![r] =
               CASE j.op = "consume" -> "getPackForSession"
                 [] j.op = "logout" -> "begin"
                 [] j.op = "session" -> "getPack"
                 [] j.op = "revoke" -> "consumeNonce"]
    BY <1>2 DEF Start, Goto
  <2>2. /\ job'[r] = j
        /\ pc'[r] = "begin" => j.op = "logout"
        /\ pc'[r] = "consumeNonce" => j.op = "revoke"
    BY <2>1, JobFields DEF SafeInv, TypeOK
  <2>3. tx'[r] = "none" /\ sessions'[r] = sessions[r] /\ job[r] = None
    BY <1>1, <1>2 DEF Start, At, Progress, tables
  <2>4. sessions[r] = None
    BY <1>1, <2>3 DEF Protected
  <2>5. j.op # "session" => j \notin SessionJob
    BY JobFields
  <2> QED
    BY <2>2, <2>3, <2>4, <2>5 DEF Authorised, Burned
<1>3. CASE GetPackForSession(r)
  <2>1. /\ job'[r] = job[r] /\ job[r] \notin SessionJob \cup RevokeJob
        /\ sessions'[r] = sessions[r]
    BY <1>1, <1>3, JobFields
    DEF GetPackForSession, At, Refuse, JobOfLabel, tables, scratch, Job
  <2> QED
    BY <2>1 DEF Authorised, Burned
<1>4. CASE ~Start(r) /\ ~GetPackForSession(r)
  <2>1. /\ job'[r] = job[r] /\ jti'[r] = jti[r]
        /\ pc'[r] = "consumeNonce" => GetPack(r)
    BY <1>4, JobIsKept
  <2>2. ASSUME job[r] \in SessionJob, pc'[r] = "consumeNonce"
        PROVE  job[r].challenge.wallet = Payer[jti[r]]
    <3>1. GetPack(r)
      BY <2>1, <2>2
    <3>2. pc'[r] # "consumeNonce" \/ ~Refuse(r, "Unauthorized")
      BY DEF Refuse, Answer, Goto, SafeInv, TypeOK
    <3> QED
      BY <2>2, <3>1, <3>2 DEF GetPack
  <2>3. ASSUME job[r] \in SessionJob, Burned(r)'
        PROVE  /\ job[r].challenge.action = "session"
               /\ job[r].challenge.jti = jti[r]
               /\ job[r].challenge.wallet = Payer[jti[r]]
    <3>1. CASE Burned(r)
      BY <2>3, <3>1 DEF Authorised
    <3>2. CASE ~Burned(r)
      <4>1. Burns(r)
        BY <2>3, <3>2, WhoBurns DEF NoneBurned, Burns
      <4>2. job[r].op = "session"
        BY <2>3 DEF SessionJob
      <4> QED
        BY <2>3, <4>1, <4>2 DEF Burns, At, Authorised
    <3> QED
      BY <3>1, <3>2
  <2>4. ASSUME sessions'[r] # None
        PROVE  /\ job[r] \in SessionJob
               /\ sessions'[r].jti = jti[r]
               /\ sessions'[r].wallet = job[r].challenge.wallet
    <3>1. CASE sessions[r] # None
      BY <1>1, <2>4, <3>1, SessionRows DEF Authorised, SafeInv, Protected, DbCommit
    <3>2. CASE sessions[r] = None
      <4>1. DbCommit(r) /\ CommitSession(r)
        BY <1>1, <2>4, <3>2, SessionRows
      <4>2. job[r] \in SessionJob
        BY <1>1, <4>1, JobFields DEF DbCommit, CommitSession, JobOfLabel
      <4> QED
        BY <1>1, <4>1, <4>2 DEF CommitSession
    <3> QED
      BY <3>1, <3>2
  <2>5. sessions'[r] # None => tx'[r] = "committed"
    BY <1>1 DEF Protected
  <2> QED
    BY <2>1, <2>2, <2>3, <2>4, <2>5 DEF Authorised
<1> QED
  BY <1>2, <1>3, <1>4

\* So do the others.
LEMMA AuthorisedStep ==
    ASSUME SafeInv, [Next]_vars, \A r \in Req: Authorised(r)
    PROVE  \A r \in Req: Authorised(r)'
<1> SUFFICES ASSUME NEW r \in Req PROVE Authorised(r)'
  OBVIOUS
<1>1. CASE UNCHANGED <<sessions, pc, tx, job, jti>>
  BY <1>1 DEF Authorised, Burned
<1>2. ASSUME NEW q \in Req \ {r}, Moves(q)
      PROVE  Authorised(r)'
  <2>1. Untouched(r)
    BY <1>2, OthersUntouched
  <2>2. sessions'[r] # None =>
          /\ sessions[r] # None
          /\ sessions'[r].jti = sessions[r].jti
          /\ sessions'[r].wallet = sessions[r].wallet
    BY <1>2, SessionRows DEF Secret
  <2> QED
    BY <2>1, <2>2 DEF Authorised, Burned, Untouched
<1>3. CASE Moves(r)
  BY <1>3, MoverAuthorised
<1> QED
  BY <1>1, <1>2, <1>3, WhoMoves

\* No session without the signature of the pack's payer under an activation of
\* this pack.
THEOREM ActivationsAreSigned == Spec => []ActivationIsSigned
<1> DEFINE Inv == \A r \in Req: Authorised(r)
<1>1. Init => Inv
  <2> SUFFICES ASSUME Init, NEW r \in Req PROVE Authorised(r)
    OBVIOUS
  <2>1. /\ pc[r] = "idle" /\ tx[r] = "none" /\ sessions[r] = None
    BY NameAssumption DEF Init, Secret
  <2> QED
    BY <2>1 DEF Authorised, Burned
<1>2. SafeInv /\ Inv /\ [Next]_vars => Inv'
  BY AuthorisedStep
<1>3. Inv => ActivationIsSigned
  BY DEF Authorised, Burned, ActivationIsSigned
<1> QED
  BY <1>1, <1>2, <1>3, Safety, PTL DEF Spec

-----------------------------------------------------------------------------
\* Answers.

\* A request finds its outcome once, by a statement of its open transaction.
LEMMA NewOutcome ==
    ASSUME SafeInv, NEW r \in Req, Moves(r)
    PROVE  \/ FindConsumption(r)
           \/ row'[r] = row[r] /\ outcome'[r] = outcome[r]
           \/ /\ row'[r] = row[r] /\ outcome[r] = None /\ reply'[r] = reply[r]
              /\ outcome'[r] \in {"NotFound", "Done"} /\ pc[r] # "done"
<1> USE DEF Refuse, tables, scratch
<1>1. /\ outcome \in [Req -> Outcomes \cup {None}] /\ Progress(r)
  BY DEF SafeInv, TypeOK
<1>2. CASE Start(r) \/ Reject(r) \/ Faulty(r) \/ Server(r)
           \/ Fail(r) \/ Reply(r) \/ GetPackForSession(r) \/ GetPack(r)
  BY <1>2
  DEF Start, Reject, Faulty, LoseNonce, LoseBegin, GiveUp, Server, DbAbort,
      NoticeDiscard, Abort, DbCommit, Fail, Reply, GetPackForSession, GetPack
<1>3. CASE ConsumeNonce(r) \/ OpenTransaction(r) \/ LockPack(r) \/ SendCommit(r)
           \/ Rollback(r) \/ DeleteSession(r) \/ LockOldSession(r)
           \/ InsertSession(r)
  BY <1>3
  DEF ConsumeNonce, OpenTransaction, LockPack, SendCommit, Rollback,
      DeleteSession, LockOldSession, InsertSession
<1>4. CASE LockPackSession(r) \/ RevokePackSession(r) \/ RevokePack(r)
           \/ CheckForeignKey(r)
  <2>1. outcome[r] = None /\ pc[r] # "done"
    BY <1>1, <1>4
    DEF LockPackSession, RevokePackSession, RevokePack, CheckForeignKey, InTx,
        At, Progress
  <2>2. row'[r] = row[r] /\ reply'[r] = reply[r]
    BY <1>4
    DEF LockPackSession, RevokePackSession, RevokePack, CheckForeignKey
  <2>3. \/ outcome'[r] = outcome[r]
        \/ outcome'[r] \in {"NotFound", "Done"}
    BY <1>1, <1>4
    DEF LockPackSession, RevokePackSession, RevokePack, CheckForeignKey, Settle
  <2> QED
    BY <2>1, <2>2, <2>3
<1> QED
  BY <1>2, <1>3, <1>4 DEF Moves, Handle

\* An answer is given once, and says what was found, unless it is Internal or
\* a refusal before the transaction.
LEMMA NewReply ==
    ASSUME SafeInv, NEW r \in Req, Moves(r)
    PROVE  \/ reply'[r] = reply[r] /\ (pc[r] = "done" <=> pc'[r] = "done")
           \/ /\ pc'[r] = "done" /\ UNCHANGED <<job, row, outcome>>
              /\ \/ /\ reply'[r] = "Internal"
                    /\ LoseNonce(r) \/ LoseBegin(r) \/ GiveUp(r) \/ Fail(r)
                 \/ /\ reply'[r] \notin {"ok", "Internal"}
                    /\ outcome[r] = None /\ tx[r] = "none" /\ UNCHANGED tx
                 \/ /\ reply'[r] = AnswerOf(r) /\ At(r, "awaitCommit")
                    /\ tx[r] = "committed" /\ UNCHANGED tx
           \/ reply'[r] = "Internal" /\ pc'[r] = "done" /\ Rollback(r)
<1> USE DEF Goto, Answer, Settle, Refuse, InTx, At, tables, scratch
<1>1. /\ DOMAIN pc = Req /\ DOMAIN reply = Req /\ Progress(r)
  BY DEF SafeInv, TypeOK
<1>2. CASE DbCommit(r) \/ DbAbort(r) \/ NoticeDiscard(r) \/ SendCommit(r)
  BY <1>1, <1>2 DEF DbCommit, DbAbort, NoticeDiscard, Abort, SendCommit
<1>3. CASE Start(r)
  <2>1. PICK j \in Job:
          pc' = [pc EXCEPT ![r] =
             CASE j.op = "consume" -> "getPackForSession"
               [] j.op = "logout" -> "begin"
               [] j.op = "session" -> "getPack"
               [] j.op = "revoke" -> "consumeNonce"]
    BY <1>3 DEF Start
  <2>2. j.op \in {"consume", "logout", "session", "revoke"}
    BY JobFields
  <2> QED
    BY <1>1, <1>3, <2>1, <2>2 DEF Start
<1>4. CASE OpenTransaction(r)
  <2>1. job[r].op \in {"consume", "logout", "session", "revoke"}
    BY <1>4, JobFields DEF OpenTransaction, SafeInv, JobOfLabel
  <2> QED
    BY <1>1, <1>4, <2>1 DEF OpenTransaction, FirstStatement
<1>5. CASE LockPackSession(r) \/ LockPack(r) \/ FindConsumption(r)
           \/ RevokePackSession(r) \/ RevokePack(r)
  BY <1>1, <1>5
  DEF LockPackSession, LockPack, FindConsumption, RevokePackSession, RevokePack
<1>6. CASE DeleteSession(r) \/ LockOldSession(r) \/ InsertSession(r)
           \/ CheckForeignKey(r)
  BY <1>1, <1>6
  DEF DeleteSession, LockOldSession, InsertSession, CheckForeignKey
<1>7. CASE GetPackForSession(r) \/ GetPack(r) \/ ConsumeNonce(r)
           \/ LoseNonce(r)
  <2>1. outcome[r] = None /\ pc[r] # "done" /\ tx[r] = "none"
    BY <1>1, <1>7
    DEF GetPackForSession, GetPack, ConsumeNonce, LoseNonce, Progress
  <2> QED
    BY <1>1, <1>7, <2>1
    DEF GetPackForSession, GetPack, ConsumeNonce, LoseNonce
<1>8. CASE Reject(r)
  BY <1>1, <1>8 DEF Reject, Progress
<1>9. CASE LoseBegin(r) \/ GiveUp(r) \/ Fail(r) \/ Reply(r) \/ Rollback(r)
  BY <1>1, <1>9 DEF LoseBegin, GiveUp, Fail, Reply, Rollback
<1> QED
  BY <1>2, <1>3, <1>4, <1>5, <1>6, <1>7, <1>8, <1>9
  DEF Moves, Handle, Server, Faulty

\* The life of a transaction.
LEMMA NewTx ==
    ASSUME SafeInv, NEW r \in Req, Moves(r)
    PROVE  \/ tx'[r] = tx[r]
           \/ OpenTransaction(r) /\ tx[r] = "none" /\ tx'[r] = "open"
           \/ SendCommit(r) /\ tx[r] = "open" /\ tx'[r] = "committing"
           \/ DbCommit(r) /\ tx[r] = "committing" /\ tx'[r] = "committed"
           \/ /\ DbAbort(r) \/ NoticeDiscard(r) \/ Rollback(r)
              /\ Live(r) /\ tx'[r] = "aborted"
           \/ GiveUp(r) /\ tx[r] = "open" /\ tx'[r] = "dropped"
           \/ LoseBegin(r) /\ tx[r] = "none" /\ tx'[r] \in {"dropped", "left"}
<1> USE DEF Refuse
<1>1. /\ DOMAIN tx = Req /\ Progress(r)
  BY DEF SafeInv, TypeOK
<1>2. CASE Start(r) \/ Reject(r) \/ LoseNonce(r)
           \/ Fail(r) \/ Reply(r) \/ GetPackForSession(r) \/ GetPack(r)
           \/ ConsumeNonce(r)
  BY <1>2
  DEF Start, Reject, LoseNonce, Fail, Reply, GetPackForSession, GetPack,
      ConsumeNonce
<1>5. CASE GiveUp(r) \/ LoseBegin(r)
  BY <1>1, <1>5 DEF GiveUp, LoseBegin, Progress, At
<1>3. CASE LockPack(r) \/ DeleteSession(r) \/ LockOldSession(r)
           \/ InsertSession(r) \/ FindConsumption(r) \/ LockPackSession(r)
           \/ RevokePackSession(r) \/ RevokePack(r) \/ CheckForeignKey(r)
  BY <1>3
  DEF LockPack, DeleteSession, LockOldSession, InsertSession, FindConsumption,
      LockPackSession, RevokePackSession, RevokePack, CheckForeignKey
<1>4. CASE OpenTransaction(r) \/ SendCommit(r) \/ Rollback(r) \/ DbCommit(r)
           \/ DbAbort(r) \/ NoticeDiscard(r)
  BY <1>1, <1>4
  DEF OpenTransaction, SendCommit, Rollback, DbCommit, DbAbort, NoticeDiscard,
      Abort, Progress, InTx, At, Live
<1> QED
  BY <1>2, <1>3, <1>4, <1>5 DEF Moves, Handle, Server, Faulty

\* What r found goes with what is recorded, and with what r answered.
Truthful(r) ==
    /\ reply[r] # None => pc[r] = "done"
    /\ outcome[r] = "Consumed" => row[r].id = r
    /\ outcome[r] \in {"Consumed", "Replayed"} =>
         row[r].key = job[r].key /\ row[r].resource = job[r].resource
    /\ outcome[r] = "Consumed" /\ tx[r] = "committed" => row[r] \in uses
    /\ outcome[r] = "Replayed" => row[r] \in uses
    /\ \A u \in uses: u.id = r => outcome[r] = "Consumed" /\ tx[r] = "committed"
    /\ reply[r] = "ok" /\ job[r] \in ConsumeJob =>
         \/ outcome[r] = "Replayed"
         \/ outcome[r] = "Consumed" /\ tx[r] = "committed"
    /\ reply[r] \notin {"ok", "Internal", None} => outcome[r] # "Consumed"

\* A commit records its own use, or none.
LEMMA CommitsOwnUse ==
    ASSUME SafeInv, NEW r \in Req, DbCommit(r), Truthful(r)
    PROVE  \/ /\ outcome[r] = "Consumed" /\ row[r].id = r
              /\ uses' = uses \cup {row[r]}
           \/ outcome[r] # "Consumed" /\ uses' = uses
<1>1. Progress(r) /\ tx[r] = "committing" /\ JobOfLabel(r)
  BY DEF SafeInv, DbCommit
<1>2. CASE outcome[r] = "Consumed"
  <2>1. job[r] \in ConsumeJob /\ job[r].op = "consume"
    BY <1>1, <1>2 DEF Progress, ConsumeJob
  <2>2. CommitUse(r)
    BY <1>2, <2>1
    DEF DbCommit, CommitSession, CommitLogout, CommitRevoke, CommitNothing
  <2> QED
    BY <1>2, <2>2 DEF CommitUse, Truthful
<1>3. CASE outcome[r] # "Consumed"
  BY <1>3
  DEF DbCommit, CommitUse, CommitSession, CommitLogout, CommitRevoke,
      CommitNothing
<1> QED
  BY <1>2, <1>3

\* The lookup of a key finds a recorded row, or makes one up.
LEMMA FindingIsTrue ==
    ASSUME SafeInv, NEW r \in Req, FindConsumption(r), Truthful(r)
    PROVE  Truthful(r)'
<1> USE DEF Settle, tables
<1>1. /\ Progress(r) /\ tx[r] = "open" /\ pc[r] = "findConsumption"
      /\ outcome[r] = None /\ reply[r] = None
  BY DEF SafeInv, FindConsumption, InTx, At, Progress, Truthful
<1>2. /\ tx'[r] = "open" /\ reply'[r] = None /\ uses' = uses
      /\ job'[r] = job[r]
  BY <1>1 DEF FindConsumption
<1>3. DOMAIN outcome = Req /\ DOMAIN row = Req
  BY DEF SafeInv, TypeOK
<1>4. \/ /\ outcome'[r] = "Replayed" /\ row'[r] \in uses
         /\ row'[r].key = job[r].key /\ row'[r].resource = job[r].resource
      \/ outcome'[r] = "Conflict"
      \/ outcome'[r] = FreshOutcome(r) /\ FreshOutcome(r) # "Consumed"
      \/ outcome'[r] = "Consumed" /\ row'[r] = NewUse(r)
  BY <1>3 DEF FindConsumption, Earlier
<1>5. FreshOutcome(r) # "Replayed"
  BY DEF FreshOutcome
<1>6. \A u \in uses: u.id # r
  BY <1>1, NoneAssumption DEF Truthful, Outcomes
<1> QED
  BY <1>1, <1>2, <1>4, <1>5, <1>6 DEF Truthful, NewUse

\* So does every other step of r.
LEMMA MoverTruthful ==
    ASSUME SafeInv, NEW r \in Req, Moves(r), Truthful(r)
    PROVE  Truthful(r)'
<1>1. CASE FindConsumption(r)
  BY <1>1, FindingIsTrue
<1>2. CASE DbCommit(r)
  <2>1. /\ UNCHANGED <<pc, job, row, outcome, reply>> /\ tx'[r] = "committed"
        /\ tx[r] = "committing"
    BY <1>2 DEF DbCommit, SafeInv, TypeOK, scratch
  <2> QED
    BY <1>2, <2>1, CommitsOwnUse DEF Truthful
<1>3. CASE ~FindConsumption(r) /\ ~DbCommit(r)
  <2>1. uses' = uses
    BY <1>3, OnlyCommitsWrite
  <2>2. \/ row'[r] = row[r] /\ outcome'[r] = outcome[r]
        \/ /\ row'[r] = row[r] /\ outcome[r] = None /\ reply'[r] = reply[r]
           /\ outcome'[r] \in {"NotFound", "Done"} /\ pc[r] # "done"
    BY <1>3, NewOutcome
  <2>3. outcome[r] # None => job'[r] = job[r]
    <3>1. outcome[r] # None => ~Start(r) /\ ~GetPackForSession(r)
      BY DEF SafeInv, Progress, Start, GetPackForSession, At
    <3> QED
      BY <3>1, JobIsKept
  <2>4. tx[r] = "committed" <=> tx'[r] = "committed"
    BY <1>3, NewTx DEF Live
  <2>5. CASE reply'[r] = reply[r] /\ (pc[r] = "done" <=> pc'[r] = "done")
    <3>1. CASE row'[r] = row[r] /\ outcome'[r] = outcome[r]
      <4>1. CASE outcome[r] = None
        <5>1. outcome[r] \notin {"Consumed", "Replayed"}
          BY <4>1, NoneAssumption DEF Outcomes
        <5>2. reply[r] = "ok" => job'[r] = job[r]
          <6>1. reply[r] = "ok" => pc[r] = "done"
            BY NoneAssumption DEF Truthful, Replies
          <6>2. pc[r] = "done" => ~Start(r) /\ ~GetPackForSession(r)
            BY DEF Start, GetPackForSession, At
          <6> QED
            BY <6>1, <6>2, JobIsKept
        <5> QED
          BY <2>1, <2>4, <2>5, <3>1, <5>1, <5>2 DEF Truthful
      <4>2. CASE outcome[r] # None
        BY <2>1, <2>3, <2>4, <2>5, <3>1, <4>2 DEF Truthful
      <4> QED
        BY <4>1, <4>2
    <3>2. CASE ~(row'[r] = row[r] /\ outcome'[r] = outcome[r])
      <4>1. reply[r] = None /\ reply'[r] = None
        BY <2>2, <2>5, <3>2 DEF Truthful
      <4>2. \A u \in uses: u.id # r
        BY <2>2, <3>2, NoneAssumption DEF Truthful, Outcomes
      <4>3. outcome'[r] \in {"NotFound", "Done"}
        BY <2>2, <3>2
      <4>4. None \notin {"ok", "Internal"}
        BY NoneAssumption DEF Replies
      <4> QED
        BY <2>1, <4>1, <4>2, <4>3, <4>4 DEF Truthful
    <3> QED
      BY <3>1, <3>2
  <2>6. CASE /\ pc'[r] = "done" /\ UNCHANGED <<job, row, outcome>>
             /\ \/ reply'[r] = "Internal"
                \/ reply'[r] # "ok" /\ outcome[r] = None
                \/ reply'[r] = AnswerOf(r) /\ At(r, "awaitCommit")
                   /\ tx[r] = "committed"
    <3>1. outcome[r] = None => outcome[r] # "Consumed"
      BY NoneAssumption DEF Outcomes
    <3>2. /\ At(r, "awaitCommit") => outcome[r] \in Outcomes
          /\ outcome[r] = "Done" => job[r] \notin ConsumeJob
      BY DEF SafeInv, TypeOK, Progress, At
    <3>3. ASSUME outcome[r] \in Outcomes
          PROVE  /\ AnswerOf(r) = "ok" =>
                      outcome[r] \in {"Consumed", "Replayed", "Done"}
                 /\ outcome[r] = "Consumed" => AnswerOf(r) = "ok"
      BY <3>3 DEF AnswerOf, Outcomes
    <3> QED
      BY <2>1, <2>4, <2>6, <3>1, <3>2, <3>3 DEF Truthful
  <2>7. CASE reply'[r] = "Internal" /\ pc'[r] = "done" /\ Rollback(r)
    <3>1. UNCHANGED <<job, row, outcome>>
      BY <2>7 DEF Rollback, scratch
    <3> QED
      BY <2>1, <2>4, <2>7, <3>1 DEF Truthful
  <2> QED
    BY <2>5, <2>6, <2>7, NewReply
<1> QED
  BY <1>1, <1>2, <1>3

\* Another request's step adds at most a use of its own.
LEMMA TruthfulStep ==
    ASSUME SafeInv, [Next]_vars, \A r \in Req: Truthful(r)
    PROVE  \A r \in Req: Truthful(r)'
<1> SUFFICES ASSUME NEW r \in Req PROVE Truthful(r)'
  OBVIOUS
<1>1. CASE UNCHANGED <<uses, pc, tx, job, row, outcome, reply>>
  BY <1>1 DEF Truthful
<1>2. ASSUME NEW q \in Req \ {r}, Moves(q)
      PROVE  Truthful(r)'
  <2>1. Untouched(r)
    BY <1>2, OthersUntouched
  <2>2. uses' = uses \/ (uses' = uses \cup {row[q]} /\ row[q].id = q)
    BY <1>2, OnlyCommitsWrite, CommitsOwnUse
  <2> QED
    BY <1>2, <2>1, <2>2 DEF Truthful, Untouched
<1>3. CASE Moves(r)
  BY <1>3, MoverTruthful
<1> QED
  BY <1>1, <1>2, <1>3, WhoMoves

LEMMA TruthfulAtFirst ==
    ASSUME Init, NEW r \in Req
    PROVE  Truthful(r)
<1>1. /\ reply[r] = None /\ outcome[r] = None /\ uses = {}
  BY DEF Init
<1>2. None \notin {"Consumed", "Replayed", "ok"}
  BY NoneAssumption DEF Outcomes, Replies
<1> QED
  BY <1>1, <1>2 DEF Truthful

\* A consume that is answered ok has its use recorded, one that is refused
\* never was charged and never will be; only Internal leaves it open.
THEOREM AnswersTellTheTruth == Spec => []AnswersAreTrue
<1> DEFINE Inv == \A r \in Req: Truthful(r)
<1>1. Init => Inv
  BY TruthfulAtFirst
<1>2. SafeInv /\ Inv /\ [Next]_vars => Inv'
  BY TruthfulStep
<1>3. ASSUME SafeInv, Inv
      PROVE  AnswersAreTrue
  <2> SUFFICES ASSUME NEW r \in Req, reply[r] # None, job[r] # None
               PROVE  /\ reply[r] = "ok" /\ job[r].op = "consume" =>
                           /\ row[r] \in uses
                           /\ row[r].key = job[r].key
                           /\ row[r].resource = job[r].resource
                      /\ reply[r] \notin {"ok", "Internal"} =>
                           /\ \A u \in uses: u.id # r
                           /\ outcome[r] # "Consumed"
    BY DEF AnswersAreTrue
  <2>1. job[r] \in Job
    BY <1>3 DEF SafeInv, TypeOK
  <2>2. job[r].op = "consume" => job[r] \in ConsumeJob
    BY <2>1, JobFields
  <2> QED
    BY <1>3, <2>2 DEF Truthful
<1>4. SafeInv /\ Inv => AnswersAreTrue
  BY <1>3
<1> QED
  BY <1>1, <1>2, <1>4, Safety, PTL DEF Spec

-----------------------------------------------------------------------------
\* Refusals.

\* Nothing can charge a pack any more.
Hopeless(p) == revoked[p] \/ Expiry[p] <= now \/ used[p] >= Total[p]

\* r is about to charge its pack.
Charger(r) == Live(r) /\ outcome[r] = "Consumed"

Refusal == {"Revoked", "Expired", "Exhausted"}

\* r was refused for its pack, which is beyond use: its key was never charged
\* for it, and nobody is about to charge anything to it.
RefusedForGood(r) ==
    outcome[r] \in Refusal =>
        /\ job[r] \in ConsumeJob /\ jti[r] \in Pack /\ tx[r] # "none"
        /\ Hopeless(jti[r])
        /\ \A u \in uses: ~(u.jti = jti[r] /\ u.key = job[r].key)
        /\ \A q \in Req: Charger(q) => jti[q] # jti[r]

\* A pack stays beyond use.
LEMMA HopelessStays ==
    ASSUME SafeInv, [Next]_vars, NEW p \in Pack, Hopeless(p)
    PROVE  Hopeless(p)'
<1>1. /\ used[p] \in Nat /\ used'[p] \in Nat /\ now \in Nat /\ now' \in Nat
      /\ Expiry[p] \in Nat /\ Total[p] \in Nat
  <2>1. SafeInv'
    BY StepInv
  <2>2. \A t \in Time: t \in Nat
    BY TimeAssumption DEF Time
  <2> QED
    BY <2>1, <2>2, PackAssumption DEF SafeInv, TypeOK
<1>2. used'[p] >= used[p]
  <2>1. CASE UNCHANGED <<uses, used>>
    BY <1>1, <2>1
  <2>2. ASSUME NEW q \in Req, Charging(q)
        PROVE  used'[p] >= used[p]
    <3>1. used'[p] = used[p] \/ used'[p] = used[p] + 1
      BY <2>2 DEF Charging, SafeInv, TypeOK
    <3> QED
      BY <1>1, <3>1
  <2> QED
    BY <2>1, <2>2, WhoCharges
<1>3. revoked[p] => revoked'[p]
  <2>1. ASSUME NEW q \in Req, DbCommit(q)
        PROVE  revoked[p] => revoked'[p]
    BY <2>1
    DEF DbCommit, CommitUse, CommitSession, CommitLogout, CommitRevoke,
        CommitNothing, SafeInv, TypeOK
  <2> QED
    BY <2>1, WhoMoves, OnlyCommitsWrite
<1>4. now' >= now
  <2>1. now' \in {now, now + 1}
    BY WhoMoves, OnlyCommitsWrite
  <2> QED
    BY <1>1, <2>1
<1> QED
  BY <1>1, <1>2, <1>3, <1>4 DEF Hopeless

\* What consume_pack_in_open_tx finds for a fresh key, under the pack's lock.
LEMMA FreshFinding ==
    ASSUME SafeInv, NEW r \in Req, FindConsumption(r),
           outcome'[r] \in Refusal \cup {"Consumed"}
    PROVE  /\ job[r] \in ConsumeJob /\ jti[r] \in Pack
           /\ <<"update", jti[r]>> \in held[r]
           /\ outcome'[r] = "Consumed" => ~Hopeless(jti[r])
           /\ outcome'[r] # "Consumed" => Hopeless(jti[r])
           /\ \A u \in uses: ~(u.jti = jti[r] /\ u.key = job[r].key)
<1>1. /\ tx[r] = "open" /\ pc[r] = "findConsumption"
      /\ Protected(r) /\ JobOfLabel(r)
  BY DEF FindConsumption, InTx, At, SafeInv
<1>2. job[r] \in ConsumeJob /\ jti[r] \in Pack
  BY <1>1 DEF JobOfLabel
<1>3. /\ <<"update", jti[r]>> \in held[r]
      /\ seen[r].used = used[jti[r]] /\ seen[r].revoked = revoked[jti[r]]
  BY <1>1 DEF Protected, Live
<1>4. outcome'[r] = FreshOutcome(r) /\ Earlier(r) = {}
  BY DEF FindConsumption, Settle, Refusal, SafeInv, TypeOK
<1>5. /\ used[jti[r]] \in Nat /\ Total[jti[r]] \in Nat /\ now \in Nat
      /\ Expiry[jti[r]] \in Nat /\ revoked[jti[r]] \in BOOLEAN
  <2>1. \A t \in Time: t \in Nat
    BY TimeAssumption DEF Time
  <2> QED
    BY <1>2, <2>1, PackAssumption DEF SafeInv, TypeOK
<1>6. /\ FreshOutcome(r) = "Consumed" => ~Hopeless(jti[r])
      /\ FreshOutcome(r) # "Consumed" => Hopeless(jti[r])
  BY <1>3, <1>5 DEF FreshOutcome, Hopeless
<1> QED
  BY <1>2, <1>3, <1>4, <1>6 DEF Earlier

\* Who is newly about to charge found its pack fit for use.
LEMMA NewCharger ==
    ASSUME SafeInv, [Next]_vars, NEW r \in Req, Charger(r)'
    PROVE  /\ jti'[r] = jti[r] /\ jti[r] \in Pack
           /\ Charger(r) \/ ~Hopeless(jti[r])
<1>1. Charger(r) => jti[r] \in Pack
  BY DEF Charger, Live, SafeInv, Progress, JobOfLabel
<1>2. CASE Untouched(r)
  BY <1>1, <1>2 DEF Untouched, Charger, Live
<1>3. CASE Moves(r) /\ FindConsumption(r)
  BY <1>3, FreshFinding DEF Charger, FindConsumption
<1>4. CASE Moves(r) /\ ~FindConsumption(r)
  <2>1. outcome[r] = "Consumed"
    BY <1>4, NewOutcome DEF Charger
  <2>2. pc[r] \in {"commit", "awaitCommit", "done"}
    BY <2>1, NoneAssumption DEF SafeInv, Progress, Outcomes
  <2>3. jti'[r] = jti[r] /\ ~OpenTransaction(r) /\ ~LoseBegin(r)
    BY <1>4, <2>2, JobIsKept
    DEF Start, GetPackForSession, OpenTransaction, LoseBegin, At
  <2>4. Live(r)
    BY <1>4, <2>3, NewTx DEF Charger, Live
  <2> QED
    BY <1>1, <2>1, <2>3, <2>4 DEF Charger
<1> QED
  BY <1>2, <1>3, <1>4, WhoMoves, OthersUntouched DEF Untouched

\* A refusal is found under the pack's lock, so nobody is about to charge.
LEMMA RefusalFound ==
    ASSUME SafeInv, [Next]_vars, NEW r \in Req, FindConsumption(r),
           outcome'[r] \in Refusal
    PROVE  RefusedForGood(r)'
<1>1. /\ job[r] \in ConsumeJob /\ jti[r] \in Pack
      /\ <<"update", jti[r]>> \in held[r] /\ Hopeless(jti[r])
      /\ \A u \in uses: ~(u.jti = jti[r] /\ u.key = job[r].key)
  BY FreshFinding DEF Refusal
<1>2. /\ UNCHANGED <<now, used, revoked, uses, tx, job, jti>>
      /\ tx[r] = "open"
      /\ \A q \in Req \ {r}: outcome'[q] = outcome[q]
  BY DEF FindConsumption, Settle, InTx, SafeInv, TypeOK, tables
<1>3. ASSUME NEW q \in Req, Charger(q)'
      PROVE  jti[q] # jti[r]
  <2>1. q # r
    BY <1>3 DEF Charger, Refusal
  <2>2. Live(q) /\ outcome[q] = "Consumed"
    BY <1>2, <1>3, <2>1 DEF Charger, Live
  <2>3. <<"update", jti[q]>> \in held[q]
    BY <2>2 DEF SafeInv, Protected
  <2> QED
    BY <1>1, <2>1, <2>3, OthersLocks
<1> QED
  BY <1>1, <1>2, <1>3, HopelessStays DEF RefusedForGood

LEMMA RefusedStep ==
    ASSUME SafeInv, [Next]_vars, NEW r \in Req, RefusedForGood(r)
    PROVE  RefusedForGood(r)'
<1> SUFFICES ASSUME outcome'[r] \in Refusal PROVE RefusedForGood(r)'
  BY DEF RefusedForGood
<1>1. CASE FindConsumption(r)
  BY <1>1, RefusalFound
<1>2. CASE /\ outcome[r] = outcome'[r] /\ job'[r] = job[r] /\ jti'[r] = jti[r]
           /\ tx[r] # "none" => tx'[r] # "none"
  <2>1. /\ job[r] \in ConsumeJob /\ jti[r] \in Pack /\ tx'[r] # "none"
        /\ Hopeless(jti[r])
        /\ \A u \in uses: ~(u.jti = jti[r] /\ u.key = job[r].key)
        /\ \A q \in Req: Charger(q) => jti[q] # jti[r]
    BY <1>2 DEF RefusedForGood
  <2>2. \A u \in uses': ~(u.jti = jti[r] /\ u.key = job[r].key)
    <3>1. CASE UNCHANGED <<uses, used>>
      BY <2>1, <3>1
    <3>2. ASSUME NEW q \in Req, Charging(q)
          PROVE  \A u \in uses': ~(u.jti = jti[r] /\ u.key = job[r].key)
      BY <2>1, <3>2 DEF Charging, Charger
    <3> QED
      BY <3>1, <3>2, WhoCharges
  <2>3. ASSUME NEW q \in Req, Charger(q)'
        PROVE  jti'[q] # jti[r]
    BY <2>1, <2>3, NewCharger
  <2> QED
    BY <1>2, <2>1, <2>2, <2>3, HopelessStays DEF RefusedForGood
<1>3. CASE Untouched(r)
  BY <1>2, <1>3 DEF Untouched
<1>4. CASE Moves(r) /\ ~FindConsumption(r)
  <2>1. outcome[r] = outcome'[r]
    BY <1>4, NewOutcome DEF Refusal
  <2>2. pc[r] \in {"commit", "awaitCommit", "done"}
    BY <2>1, NoneAssumption DEF SafeInv, Progress, Outcomes, Refusal
  <2>3. job'[r] = job[r] /\ jti'[r] = jti[r]
    BY <1>4, <2>2, JobIsKept DEF Start, GetPackForSession, At
  <2>4. tx[r] # "none" => tx'[r] # "none"
    BY <1>4, NewTx
  <2> QED
    BY <1>2, <2>1, <2>3, <2>4
<1> QED
  BY <1>1, <1>3, <1>4, WhoMoves, OthersUntouched DEF Untouched

\* A client told that its pack is revoked, expired or used up was not charged
\* for that key by any try of it, because the key is looked up first and the
\* pack stays locked until the transaction is over.
THEOREM RefusalsAreFree == Spec => []RefusedKeyNeverCharged
<1> DEFINE Inv == \A r \in Req: RefusedForGood(r)
<1>1. Init => Inv
  BY NoneAssumption DEF Init, RefusedForGood, Refusal, Outcomes
<1>2. SafeInv /\ Inv /\ [Next]_vars => Inv'
  BY RefusedStep
<1>3. Inv => RefusedKeyNeverCharged
  BY DEF RefusedForGood, RefusedKeyNeverCharged, Refusal
<1> QED
  BY <1>1, <1>2, <1>3, Safety, PTL DEF Spec

-----------------------------------------------------------------------------
\* Failures.

\* Another activation of r's pack has committed.
LostRace(r) ==
    \E q \in Req \ {r}:
        /\ job[r] \in SessionJob /\ job[q] \in SessionJob
        /\ jti[q] = jti[r] /\ tx[q] = "committed"

\* While nothing fails: no transaction is left behind, only an activation is
\* rolled back, and then because the session it ran into is another request's.
OnlyLosersFail(r) ==
    /\ Live(r) => pc[r] # "done"
    /\ tx[r] = "aborted" => pc[r] = "done"
    /\ pc[r] = "rollback" \/ reply[r] = "Internal" => LostRace(r)
    /\ pc[r] \in {"lockOldSession", "insertSession"} =>
         \A c \in Cookie:
            sessions[c] # None /\ sessions[c].jti = jti[r] => old[r] = c

\* What a lost race is made of does not change.
LEMMA LostRaceStays ==
    ASSUME SafeInv, [Next]_vars, NEW r \in Req, LostRace(r)
    PROVE  LostRace(r)'
<1>1. PICK q \in Req \ {r}:
        /\ job[r] \in SessionJob /\ job[q] \in SessionJob
        /\ jti[q] = jti[r] /\ tx[q] = "committed"
  BY DEF LostRace
<1>2. ASSUME NEW p \in Req, job[p] \in SessionJob
      PROVE  /\ job'[p] = job[p] /\ jti'[p] = jti[p]
             /\ tx[p] = "committed" => tx'[p] = "committed"
  <2>1. CASE Untouched(p)
    BY <2>1 DEF Untouched
  <2>2. CASE Moves(p)
    <3>1. job[p] # None /\ job[p] \notin ConsumeJob
      BY <1>2, JobFields DEF Job
    <3>2. ~Start(p) /\ ~GetPackForSession(p)
      BY <3>1
      DEF Start, GetPackForSession, At, SafeInv, Progress, JobOfLabel
    <3>3. tx[p] = "committed" => tx'[p] = "committed"
      BY <2>2, NewTx DEF Live
    <3> QED
      BY <2>2, <3>2, <3>3, JobIsKept
  <2> QED
    BY <2>1, <2>2, WhoMoves, OthersUntouched DEF Untouched
<1> QED
  BY <1>1, <1>2 DEF LostRace

\* Where an activation can be at its old session, or fail.
LEMMA ActivationPlaces ==
    ASSUME SafeInv, NEW r \in Req, Moves(r)
    PROVE  \/ pc'[r] \notin {"lockOldSession", "insertSession", "rollback"}
           \/ pc'[r] = pc[r] /\ old'[r] = old[r]
           \/ DeleteSession(r) \/ LockOldSession(r) \/ InsertSession(r)
<1> USE DEF Goto, Answer, Settle, Refuse, tables, scratch
<1>1. DOMAIN pc = Req
  BY DEF SafeInv, TypeOK
<1>2. CASE Reject(r) \/ LoseNonce(r) \/ LoseBegin(r) \/ GiveUp(r) \/ Fail(r)
           \/ Reply(r) \/ GetPack(r) \/ ConsumeNonce(r) \/ GetPackForSession(r)
  BY <1>1, <1>2
  DEF Reject, LoseNonce, LoseBegin, GiveUp, Fail, Reply, GetPack, ConsumeNonce,
      GetPackForSession
<1>3. CASE Start(r)
  <2>1. PICK j \in Job:
          pc' = [pc EXCEPT ![r] =
             CASE j.op = "consume" -> "getPackForSession"
               [] j.op = "logout" -> "begin"
               [] j.op = "session" -> "getPack"
               [] j.op = "revoke" -> "consumeNonce"]
    BY <1>3 DEF Start
  <2>2. j.op \in {"consume", "logout", "session", "revoke"}
    BY JobFields
  <2> QED
    BY <1>1, <2>1, <2>2
<1>4. CASE OpenTransaction(r)
  <2>1. job[r].op \in {"consume", "logout", "session", "revoke"}
    BY <1>4, JobFields DEF OpenTransaction, At, SafeInv, JobOfLabel
  <2> QED
    BY <1>1, <1>4, <2>1 DEF OpenTransaction, FirstStatement
<1>5. CASE LockPackSession(r) \/ LockPack(r) \/ FindConsumption(r)
           \/ RevokePackSession(r) \/ RevokePack(r) \/ CheckForeignKey(r)
           \/ SendCommit(r) \/ Rollback(r)
  BY <1>1, <1>5
  DEF LockPackSession, LockPack, FindConsumption, RevokePackSession,
      RevokePack, CheckForeignKey, SendCommit, Rollback
<1>6. CASE Server(r) \/ DbAbort(r)
  BY <1>6 DEF Server, DbAbort, NoticeDiscard, Abort, DbCommit
<1> QED
  BY <1>2, <1>3, <1>4, <1>5, <1>6 DEF Moves, Handle, Faulty

\* The session an INSERT runs into belongs to a request that activated.
LEMMA InsertLosesToActivation ==
    ASSUME SafeInv, NEW r \in Req, InsertSession(r), pc'[r] = "rollback",
           \A q \in Req: Authorised(q), OnlyLosersFail(r)
    PROVE  LostRace(r)
<1>1. /\ tx[r] = "open" /\ pc[r] = "insertSession" /\ job[r] \in SessionJob
  BY DEF InsertSession, InTx, At, SafeInv, JobOfLabel
<1>2. PICK s \in Secret: /\ sessions[s] # None /\ sessions[s].jti = jti[r]
                         /\ s # old[r]
  BY DEF InsertSession, Goto, SafeInv, TypeOK, SessionsOf
<1>3. s \in Req
  BY <1>1, <1>2 DEF OnlyLosersFail, Secret
<1>4. job[s] \in SessionJob /\ tx[s] = "committed" /\ jti[s] = jti[r]
  BY <1>2, <1>3 DEF Authorised
<1> QED
  BY <1>1, <1>3, <1>4 DEF LostRace

LEMMA MoverFailsByRace ==
    ASSUME ~Faults, SafeInv, [Next]_vars, NEW r \in Req, Moves(r),
           \A q \in Req: Authorised(q), OnlyLosersFail(r)
    PROVE  OnlyLosersFail(r)'
<1>1. /\ ~LoseNonce(r) /\ ~LoseBegin(r) /\ ~GiveUp(r) /\ ~Fail(r)
      /\ ~DbAbort(r) /\ ~NoticeDiscard(r)
  BY DEF LoseNonce, LoseBegin, GiveUp, Fail, DbAbort, NoticeDiscard,
         OnlyLosersFail, Live, At, SafeInv, Progress
<1>2. Rollback(r) => pc'[r] = "done" /\ tx'[r] = "aborted"
  BY DEF Rollback, Answer, Goto, SafeInv, TypeOK
<1>3. pc[r] = "done" => pc'[r] = "done"
  BY NewReply
<1>4. tx'[r] = "aborted" => pc'[r] = "done"
  BY <1>1, <1>2, <1>3, NewTx DEF OnlyLosersFail
<1>5. ASSUME Live(r)', pc'[r] = "done"
      PROVE  FALSE
  <2>1. Live(r) \/ OpenTransaction(r)
    BY <1>1, <1>5, NewTx DEF Live
  <2>2. pc[r] # "done"
    BY <2>1 DEF OnlyLosersFail, OpenTransaction, At
  <2>3. UNCHANGED tx /\ (tx[r] = "none" \/ tx[r] = "committed")
    <3>1. ~Rollback(r)
      BY <1>2, <1>5 DEF Live
    <3> QED
      BY <1>1, <1>5, <2>2, <3>1, NewReply
  <2> QED
    BY <1>5, <2>3 DEF Live
<1>6. reply'[r] = "Internal" => LostRace(r)'
  <2>1. ASSUME reply'[r] = "Internal", reply[r] # "Internal"
        PROVE  Rollback(r)
    <3>1. reply'[r] # AnswerOf(r) \/ ~At(r, "awaitCommit")
      <4>1. At(r, "awaitCommit") => outcome[r] \in Outcomes
        BY DEF SafeInv, TypeOK, Progress, At
      <4>2. outcome[r] \in Outcomes => AnswerOf(r) # "Internal"
        BY DEF AnswerOf, Outcomes
      <4> QED
        BY <2>1, <4>1, <4>2
    <3> QED
      BY <1>1, <2>1, <3>1, NewReply
  <2>2. Rollback(r) => pc[r] = "rollback"
    BY DEF Rollback, InTx, At
  <2> QED
    BY <2>1, <2>2, LostRaceStays DEF OnlyLosersFail
<1>7. pc'[r] = "rollback" => LostRace(r)'
  <2>1. CASE pc[r] = "rollback"
    BY <2>1, LostRaceStays DEF OnlyLosersFail
  <2>2. CASE pc[r] # "rollback"
    <3>1. pc'[r] = "rollback" =>
            DeleteSession(r) \/ LockOldSession(r) \/ InsertSession(r)
      BY <2>2, ActivationPlaces
    <3>2. DeleteSession(r) \/ LockOldSession(r) => pc'[r] # "rollback"
      BY DEF DeleteSession, LockOldSession, Goto, SafeInv, TypeOK
    <3> QED
      BY <3>1, <3>2, InsertLosesToActivation, LostRaceStays
  <2> QED
    BY <2>1, <2>2
<1>8. ASSUME pc'[r] \in {"lockOldSession", "insertSession"}, NEW c \in Cookie,
             sessions'[c] # None, sessions'[c].jti = jti'[r]
      PROVE  old'[r] = c
  <2>1. c \in Secret /\ c # r
    BY NameAssumption DEF Secret
  <2>2. sessions[c] # None /\ sessions'[c].jti = sessions[c].jti
    BY <1>8, <2>1, SessionRows
  <2>3. DOMAIN pc = Req /\ DOMAIN old = Req /\ OneSession /\ JobOfLabel(r)
    BY DEF SafeInv, TypeOK
  <2>4. CASE DeleteSession(r)
    <3>1. jti'[r] = jti[r] /\ c \in SessionsOf(jti[r])
      BY <1>8, <2>1, <2>2, <2>4 DEF DeleteSession, SessionsOf
    <3>2. old'[r] \in SessionsOf(jti[r])
      BY <2>3, <2>4, <3>1 DEF DeleteSession
    <3> QED
      BY <2>1, <2>3, <3>1, <3>2 DEF OneSession, SessionsOf
  <2>5. CASE LockOldSession(r)
    <3>1. jti'[r] = jti[r] /\ old[r] = c
      BY <1>8, <2>2, <2>5 DEF LockOldSession, OnlyLosersFail, InTx, At
    <3> QED
      BY <2>2, <2>5, <3>1 DEF LockOldSession
  <2>6. CASE InsertSession(r)
    BY <1>8, <2>3, <2>6 DEF InsertSession, Goto
  <2>7. CASE pc'[r] = pc[r] /\ old'[r] = old[r]
    <3>1. ~Start(r) /\ ~GetPackForSession(r)
      BY <1>8, <2>7 DEF Start, GetPackForSession, At
    <3>2. jti'[r] = jti[r]
      BY <3>1, JobIsKept
    <3> QED
      BY <1>8, <2>2, <2>7, <3>2 DEF OnlyLosersFail
  <2> QED
    BY <1>8, <2>4, <2>5, <2>6, <2>7, ActivationPlaces
<1> QED
  BY <1>4, <1>5, <1>6, <1>7, <1>8 DEF OnlyLosersFail

LEMMA OnlyLosersFailStep ==
    ASSUME ~Faults, SafeInv, [Next]_vars, \A r \in Req: Authorised(r),
           \A r \in Req: OnlyLosersFail(r)
    PROVE  \A r \in Req: OnlyLosersFail(r)'
<1> SUFFICES ASSUME NEW r \in Req PROVE OnlyLosersFail(r)'
  OBVIOUS
<1>1. ASSUME Untouched(r),
             \A c \in Cookie: sessions'[c] # None =>
                sessions[c] # None /\ sessions'[c].jti = sessions[c].jti
      PROVE  OnlyLosersFail(r)'
  <2>1. LostRace(r) => LostRace(r)'
    BY LostRaceStays
  <2> QED
    BY <1>1, <2>1 DEF Untouched, OnlyLosersFail, Live
<1>2. CASE UNCHANGED <<sessions, pc, tx, job, jti, old, row, outcome, reply>>
  BY <1>1, <1>2 DEF Untouched
<1>3. ASSUME NEW q \in Req \ {r}, Moves(q)
      PROVE  OnlyLosersFail(r)'
  <2>1. ASSUME NEW c \in Cookie, sessions'[c] # None
        PROVE  sessions[c] # None /\ sessions'[c].jti = sessions[c].jti
    <3>1. c \in Secret /\ c # q
      BY NameAssumption DEF Secret
    <3> QED
      BY <1>3, <2>1, <3>1, SessionRows
  <2> QED
    BY <1>1, <1>3, <2>1, OthersUntouched
<1>4. CASE Moves(r)
  BY <1>4, MoverFailsByRace
<1> QED
  BY <1>2, <1>3, <1>4, WhoMoves

\* While nothing fails, Internal is the answer of an activation that lost to
\* another: an INSERT meets no other row than one that was just committed.
THEOREM FailuresAreRaces == Spec => []OnlyRacesFail
<1> DEFINE Inv == /\ \A r \in Req: Authorised(r)
                  /\ ~Faults => \A r \in Req: OnlyLosersFail(r)
<1>1. Init => Inv
  <2> SUFFICES ASSUME Init, NEW r \in Req
               PROVE  Authorised(r) /\ OnlyLosersFail(r)
    OBVIOUS
  <2>1. /\ pc[r] = "idle" /\ tx[r] = "none" /\ sessions[r] = None
        /\ reply[r] = None /\ None # "Internal"
    BY NameAssumption, NoneAssumption DEF Init, Secret, Replies
  <2> QED
    BY <2>1 DEF Authorised, Burned, OnlyLosersFail, Live
<1>2. SafeInv /\ Inv /\ [Next]_vars => Inv'
  BY AuthorisedStep, OnlyLosersFailStep
<1>3. ASSUME Inv
      PROVE  OnlyRacesFail
  <2> SUFFICES ASSUME ~Faults, NEW r \in Req, reply[r] = "Internal"
               PROVE  \E q \in Req \ {r}:
                        /\ job[r].op = "session" /\ job[q] # None
                        /\ job[q].op = "session"
                        /\ jti[r] = jti[q] /\ tx[q] = "committed"
    BY DEF OnlyRacesFail
  <2>1. LostRace(r)
    BY <1>3 DEF OnlyLosersFail
  <2>2. \A j \in SessionJob: j.op = "session" /\ j # None
    BY JobFields DEF Job
  <2> QED
    BY <2>1, <2>2 DEF LostRace
<1>4. Inv => OnlyRacesFail
  BY <1>3
<1> QED
  BY <1>1, <1>2, <1>4, Safety, PTL DEF Spec

-----------------------------------------------------------------------------
\* The ledger.  A commit is one of PackLedger's operations.

\* s is a session of p that spends, among the session rows ss.
IsOpen(ss, p, s) == ss[s] # None /\ ss[s].jti = p /\ ~ss[s].revoked

\* The session of p that OpenSession names.
OpenAmong(ss, p) ==
    IF \E s \in {t \in Secret: ss[t] # None /\ ss[t].jti = p}: ~ss[s].revoked
    THEN CHOOSE s \in {t \in Secret: ss[t] # None /\ ss[t].jti = p}:
           ~ss[s].revoked
    ELSE None

\* It is the open one.
LEMMA OpenAmongIsOpen ==
    ASSUME NEW ss, NEW p,
           \A s, t \in Secret: IsOpen(ss, p, s) /\ IsOpen(ss, p, t) => s = t
    PROVE  /\ \A s \in Secret: OpenAmong(ss, p) = s <=> IsOpen(ss, p, s)
           /\ OpenAmong(ss, p) \in Secret \cup {None}
<1> DEFINE Of == {t \in Secret: ss[t] # None /\ ss[t].jti = p}
           c == CHOOSE s \in Of: ~ss[s].revoked
<1>1. CASE \E s \in Of: ~ss[s].revoked
  <2>1. c \in Of /\ ~ss[c].revoked
    BY <1>1
  <2>2. OpenAmong(ss, p) = c
    BY <1>1 DEF OpenAmong
  <2>3. c \in Secret /\ IsOpen(ss, p, c)
    BY <2>1 DEF IsOpen
  <2> QED
    BY <2>2, <2>3
<1>2. CASE ~\E s \in Of: ~ss[s].revoked
  <2>1. OpenAmong(ss, p) = None
    BY <1>2 DEF OpenAmong
  <2>2. \A s \in Secret: ~IsOpen(ss, p, s)
    BY <1>2 DEF IsOpen
  <2>3. None \notin Secret
    BY NoneAssumption
  <2> QED
    BY <2>1, <2>2, <2>3
<1> QED
  BY <1>1, <1>2

\* A pack's session before and after a step, and who it is.
LEMMA LedgerSessions ==
    ASSUME SafeInv, SafeInv'
    PROVE  /\ OpenSession = [p \in Pack |-> OpenAmong(sessions, p)]
           /\ OpenSession' = [p \in Pack |-> OpenAmong(sessions', p)]
           /\ \A p \in Pack:
                /\ OpenAmong(sessions, p) \in Secret \cup {None}
                /\ OpenAmong(sessions', p) \in Secret \cup {None}
                /\ \A s \in Secret:
                     /\ OpenAmong(sessions, p) = s <=> IsOpen(sessions, p, s)
                     /\ OpenAmong(sessions', p) = s <=> IsOpen(sessions', p, s)
<1>1. /\ OpenSession = [p \in Pack |-> OpenAmong(sessions, p)]
      /\ OpenSession' = [p \in Pack |-> OpenAmong(sessions', p)]
  BY DEF OpenSession, OpenAmong, SessionsOf
<1>2. ASSUME NEW p \in Pack
      PROVE  \A s, t \in Secret:
               /\ IsOpen(sessions, p, s) /\ IsOpen(sessions, p, t) => s = t
               /\ IsOpen(sessions', p, s) /\ IsOpen(sessions', p, t) => s = t
  BY DEF SafeInv, OneSession, IsOpen
<1> QED
  BY <1>1, <1>2, OpenAmongIsOpen

\* PackLedger counts as PackStore does.
LEMMA LedgerCardinality ==
    ASSUME NEW S
    PROVE  Ledger!Cardinality(S) = Cardinality(S)
BY DEF Ledger!Cardinality, Cardinality

\* The charges of a pack are as many as its uses, since no two have one key.
LEMMA LedgerCounts ==
    ASSUME LedgerInv, OneChargePerKey, NEW p \in Pack
    PROVE  Cardinality(Ledger!ChargesOf(p)) = used[p]
<1> DEFINE Charge(u) == [jti |-> u.jti, key |-> u.key, resource |-> u.resource,
                         remaining |-> u.remaining]
           f == [u \in UsesOf(p) |-> Charge(u)]
           T == Ledger!ChargesOf(p)
<1>1. T = {Charge(u): u \in UsesOf(p)}
  BY DEF Ledger!ChargesOf, Charges, UsesOf
<1>2. IsFiniteSet(UsesOf(p))
  <2>1. UsesOf(p) \in SUBSET uses
    BY DEF UsesOf
  <2> QED
    BY <2>1, FS_Subset DEF LedgerInv
<1>3. f \in Surjection(UsesOf(p), T)
  BY <1>1 DEF Surjection
<1>4. f \in Injection(UsesOf(p), T)
  <2>1. f \in [UsesOf(p) -> T]
    BY <1>1
  <2>2. ASSUME NEW u \in UsesOf(p), NEW v \in UsesOf(p), Charge(u) = Charge(v)
        PROVE  u = v
    <3>1. u.jti = v.jti /\ u.key = v.key
      BY <2>2
    <3> QED
      BY <3>1 DEF OneChargePerKey, UsesOf
  <2> QED
    BY <2>1, <2>2 DEF Injection, IsInjective
<1> HIDE DEF f, T
<1>5. Cardinality(T) = Cardinality(UsesOf(p))
  BY <1>2, <1>3, <1>4, FS_Surjection
<1> QED
  BY <1>5 DEF T, LedgerInv, LedgerAgreement

\* A consume's commit spends a use.
LEMMA ChargeSpends ==
    ASSUME SafeInv, SafeInv', LedgerInv, OneChargePerKey,
           NEW r \in Req, Charging(r)
    PROVE  Ledger!Next
<1> DEFINE p == jti[r]
           k == job[r].key
           res == job[r].resource
<1>1. p \in Pack /\ k \in Key /\ res \in Resource /\ job[r].secret \in Secret
  BY DEF Charging, ConsumeJob
<1>2. /\ used[p] < Total[p] /\ ~revoked[p]
      /\ \A u \in uses: ~(u.jti = p /\ u.key = k)
  BY ChargingFacts
<1>3. Cardinality(Ledger!ChargesOf(p)) = used[p]
  BY <1>1, LedgerCounts
<1>4. OpenSession[p] # None
  <2>1. IsOpen(sessions, p, job[r].secret)
    BY DEF Charging, SafeInv, Protected, IsOpen
  <2> QED
    BY <1>1, <2>1, LedgerSessions, NoneAssumption
<1>5. UNCHANGED <<revoked, OpenSession>>
  BY LedgerSessions DEF Charging
<1>6. \A c \in Ledger!ChargesOf(p): c.key # k
  BY <1>2 DEF Ledger!ChargesOf, Charges
<1>7. Charges' = Charges \cup
        {[jti |-> p, key |-> k, resource |-> res,
          remaining |-> Total[p] - used[p] - 1]}
  BY DEF Charges, Charging
<1> HIDE DEF p, k, res
<1>8. Ledger!Spend(p, k, res)
  <2>1. Cardinality(Ledger!ChargesOf(p)) < Total[p]
    BY <1>2, <1>3
  <2>2. Charges' = Charges \cup
          {[jti |-> p, key |-> k, resource |-> res,
            remaining |-> Total[p] - Cardinality(Ledger!ChargesOf(p)) - 1]}
    BY <1>3, <1>7
  <2> QED
    BY <1>2, <1>4, <1>5, <1>6, <2>1, <2>2, LedgerCardinality
    DEF Ledger!Spend
<1> QED
  BY <1>1, <1>8 DEF Ledger!Next

\* An activation's commit opens a session.
LEMMA ActivationOpens ==
    ASSUME SafeInv, SafeInv', NEW r \in Req, DbCommit(r), CommitSession(r)
    PROVE  Ledger!Next
<1> DEFINE p == jti[r]
<1>1. /\ p \in Pack /\ r \in Secret /\ job[r] \in SessionJob
      /\ tx[r] = "committing"
  BY JobFields DEF DbCommit, CommitSession, SafeInv, JobOfLabel, Secret
<1>2. sessions[r] = None /\ Replacing(r)
  BY <1>1 DEF SafeInv, Protected
<1>3. /\ sessions'[r] # None /\ sessions'[r].jti = p /\ ~sessions'[r].revoked
  <2>1. sessions'[r] = [jti |-> p, wallet |-> job[r].challenge.wallet,
                        expires |-> expires[r], revoked |-> FALSE]
    BY <1>1 DEF CommitSession
  <2>2. p = sessions'[r].jti /\ ~sessions'[r].revoked
    BY <2>1
  <2>3. sessions'[r] \in Session
    BY <1>1, <2>1, JobFields DEF Session, SafeInv, TypeOK, Job
  <2>4. None \notin Session
    BY NoneAssumption
  <2> QED
    BY <2>2, <2>3, <2>4
<1>4. UNCHANGED <<used, revoked, uses>>
  BY DEF CommitSession
<1>5. ASSUME NEW q \in Pack \ {p}, NEW s \in Secret
      PROVE  IsOpen(sessions', q, s) <=> IsOpen(sessions, q, s)
  <2>1. CASE s = r
    BY <1>2, <1>3, <2>1 DEF IsOpen
  <2>2. CASE s # r /\ s = old[r]
    <3>1. sessions'[s] = None
      BY <2>2 DEF CommitSession
    <3>2. sessions[s] # None => sessions[s].jti = p
      BY <1>2, <2>2, NoneAssumption DEF Replacing
    <3> QED
      BY <3>1, <3>2 DEF IsOpen
  <2>3. CASE s # r /\ s # old[r]
    <3>1. sessions'[s] = sessions[s]
      BY <2>3 DEF CommitSession
    <3> QED
      BY <3>1 DEF IsOpen
  <2> QED
    BY <2>1, <2>2, <2>3
<1>6. OpenSession[p] # r /\ OpenAmong(sessions', p) = r
  BY <1>1, <1>2, <1>3, LedgerSessions DEF IsOpen
<1>7. ASSUME NEW q \in Pack \ {p}
      PROVE  OpenAmong(sessions', q) = OpenAmong(sessions, q)
  BY <1>5, LedgerSessions
<1>8. OpenSession' = [OpenSession EXCEPT ![p] = r]
  BY <1>6, <1>7, LedgerSessions
<1>9. Charges' = Charges
  BY <1>4 DEF Charges
<1> HIDE DEF p
<1>10. Ledger!Open(p, r)
  BY <1>4, <1>6, <1>8, <1>9 DEF Ledger!Open
<1> QED
  BY <1>1, <1>10 DEF Ledger!Next

\* A logout locks the session it names and no other row.
LogoutLock(r) ==
    job[r] \in LogoutJob => \A l \in held[r]: l = <<"session", job[r].secret>>

LEMMA LogoutLockStep ==
    ASSUME SafeInv, [Next]_vars, NEW r \in Req, LogoutLock(r)
    PROVE  LogoutLock(r)'
<1> USE DEF Refuse, tables, scratch
<1>1. /\ held \in [Req -> SUBSET Lock] /\ JobOfLabel(r) /\ Progress(r)
  BY DEF SafeInv, TypeOK
<1>2. CASE held'[r] \subseteq held[r] /\ job'[r] = job[r]
  BY <1>2 DEF LogoutLock
<1>3. ASSUME NEW q \in Req \ {r}, Moves(q)
      PROVE  held'[r] = held[r]
  <2>1. CASE UNCHANGED held
    BY <2>1
  <2>2. CASE LockPackSession(q) \/ LockPack(q) \/ RevokePackSession(q)
             \/ RevokePack(q) \/ LockOldSession(q) \/ InsertSession(q)
             \/ CheckForeignKey(q)
    BY <1>1, <2>2
    DEF LockPackSession, LockPack, RevokePackSession, RevokePack,
        LockOldSession, InsertSession, CheckForeignKey, Acquire
  <2>3. CASE DbCommit(q) \/ DbAbort(q) \/ NoticeDiscard(q) \/ Rollback(q)
    BY <1>1, <2>3 DEF DbCommit, DbAbort, NoticeDiscard, Abort, Rollback
  <2> QED
    BY <1>3, <2>1, <2>2, <2>3
    DEF Moves, Handle, Server, Faulty, Start, Reject, LoseNonce, LoseBegin,
        GiveUp, Fail, Reply, GetPackForSession, GetPack, ConsumeNonce,
        OpenTransaction, FindConsumption, DeleteSession, SendCommit
<1>4. CASE Moves(r)
  <2>1. CASE Start(r)
    <3>1. held'[r] = {}
      BY <1>1, <2>1 DEF Start, Progress, At
    <3> QED
      BY <3>1 DEF LogoutLock
  <2>2. CASE job[r] \notin LogoutJob /\ ~Start(r)
    <3>1. job'[r] = job[r]
      BY <1>4, <2>2, JobIsKept DEF GetPackForSession
    <3> QED
      BY <2>2, <3>1 DEF LogoutLock
  <2>3. CASE job[r] \in LogoutJob /\ ~Start(r)
    <3>1. job'[r] = job[r]
      BY <1>4, <2>3, JobIsKept DEF GetPackForSession
    <3>2. job[r] \notin ConsumeJob \cup SessionJob \cup RevokeJob
      BY <2>3, JobFields DEF Job
    <3>3. /\ ~LockPackSession(r) /\ ~LockPack(r) /\ ~RevokePack(r)
          /\ ~LockOldSession(r) /\ ~InsertSession(r) /\ ~CheckForeignKey(r)
      BY <1>1, <3>2
      DEF LockPackSession, LockPack, RevokePack, LockOldSession, InsertSession,
          CheckForeignKey, InTx, At, JobOfLabel
    <3>4. CASE RevokePackSession(r)
      <4>1. held'[r] \subseteq held[r] \cup {<<"session", job[r].secret>>}
        BY <1>1, <3>4 DEF RevokePackSession, Acquire
      <4> QED
        BY <2>3, <3>1, <4>1 DEF LogoutLock
    <3>5. CASE DbCommit(r) \/ DbAbort(r) \/ NoticeDiscard(r) \/ Rollback(r)
      <4>1. held'[r] = {}
        BY <1>1, <3>5 DEF DbCommit, DbAbort, NoticeDiscard, Abort, Rollback
      <4> QED
        BY <4>1 DEF LogoutLock
    <3>6. CASE UNCHANGED held
      BY <1>2, <3>1, <3>6
    <3> QED
      BY <1>4, <2>3, <3>3, <3>4, <3>5, <3>6
      DEF Moves, Handle, Server, Faulty, Reject, LoseNonce, LoseBegin, GiveUp,
          Fail, Reply, GetPackForSession, GetPack, ConsumeNonce,
          OpenTransaction, FindConsumption, DeleteSession, SendCommit
  <2> QED
    BY <2>1, <2>2, <2>3
<1>5. CASE UNCHANGED held /\ UNCHANGED job
  BY <1>2, <1>5
<1> QED
  BY <1>2, <1>3, <1>4, <1>5, WhoMoves, OthersUntouched DEF Untouched

\* A logout's commit closes the session it named, if that was open.
LEMMA LogoutCloses ==
    ASSUME SafeInv, SafeInv', NEW r \in Req, DbCommit(r), CommitLogout(r),
           LogoutLock(r)
    PROVE  Ledger!Next \/ UNCHANGED Ledger!ledgerVars
<1> DEFINE s == job[r].secret
<1>1. job[r] \in LogoutJob /\ s \in Secret
  BY JobFields DEF DbCommit, CommitLogout, SafeInv, JobOfLabel
<1>2. UNCHANGED <<revoked, uses>> /\ Charges' = Charges
  BY DEF CommitLogout, Charges
<1>3. \A t \in Secret \ {s}: sessions'[t] = sessions[t]
  BY <1>1 DEF CommitLogout, LogoutLock
<1>4. /\ \/ sessions'[s] = sessions[s]
         \/ /\ sessions[s] # None /\ sessions'[s].revoked
            /\ sessions'[s].jti = sessions[s].jti
  <2>1. CASE <<"session", s>> \in held[r]
    <3>1. sessions[s] \in Session /\ sessions[s] # None
      BY <1>1, <2>1 DEF SafeInv, TypeOK, LockedRowsExist
    <3>2. sessions'[s] = [sessions[s] EXCEPT !.revoked = TRUE]
      BY <1>1, <2>1 DEF CommitLogout
    <3> QED
      BY <3>1, <3>2 DEF Session
  <2>2. CASE <<"session", s>> \notin held[r]
    BY <1>1, <2>2 DEF CommitLogout
  <2> QED
    BY <2>1, <2>2
<1>5. CASE \E p \in Pack: IsOpen(sessions, p, s) /\ ~IsOpen(sessions', p, s)
  <2>1. PICK p \in Pack: IsOpen(sessions, p, s) /\ ~IsOpen(sessions', p, s)
    BY <1>5
  <2>2. OpenSession[p] # None
    BY <1>1, <2>1, LedgerSessions, NoneAssumption
  <2>3. OpenAmong(sessions', p) = None
    <3>1. ASSUME NEW t \in Secret
          PROVE  ~IsOpen(sessions', p, t)
      <4>1. CASE t = s
        BY <2>1, <4>1
      <4>2. CASE t # s
        BY <1>1, <1>3, <2>1, <4>2, LedgerSessions DEF IsOpen
      <4> QED
        BY <4>1, <4>2
    <3> QED
      BY <3>1, LedgerSessions
  <2>4. ASSUME NEW q \in Pack \ {p}
        PROVE  OpenAmong(sessions', q) = OpenAmong(sessions, q)
    <3>1. ASSUME NEW t \in Secret
          PROVE  IsOpen(sessions', q, t) <=> IsOpen(sessions, q, t)
      BY <1>3, <1>4, <2>1, <3>1 DEF IsOpen
    <3> QED
      BY <3>1, LedgerSessions
  <2>5. OpenSession' = [OpenSession EXCEPT ![p] = None]
    BY <2>3, <2>4, LedgerSessions
  <2>6. Ledger!Close(p)
    BY <1>2, <2>2, <2>5 DEF Ledger!Close
  <2> QED
    BY <2>6 DEF Ledger!Next
<1>6. CASE \A p \in Pack: IsOpen(sessions, p, s) => IsOpen(sessions', p, s)
  <2>1. ASSUME NEW p \in Pack, NEW t \in Secret
        PROVE  IsOpen(sessions', p, t) <=> IsOpen(sessions, p, t)
    BY <1>3, <1>4, <1>6 DEF IsOpen
  <2>2. ASSUME NEW p \in Pack
        PROVE  OpenAmong(sessions', p) = OpenAmong(sessions, p)
    BY <2>1, LedgerSessions
  <2>3. OpenSession' = OpenSession
    BY <2>2, LedgerSessions
  <2> QED
    BY <1>2, <2>3 DEF Ledger!ledgerVars
<1> QED
  BY <1>5, <1>6

\* A revocation's commit revokes.
LEMMA RevocationRevokes ==
    ASSUME SafeInv, SafeInv', NEW r \in Req, DbCommit(r), CommitRevoke(r)
    PROVE  Ledger!Next
<1>1. /\ jti[r] \in Pack /\ job[r] \in RevokeJob /\ outcome[r] = "Done"
      /\ Live(r)
  BY JobFields DEF DbCommit, CommitRevoke, SafeInv, JobOfLabel, Live
<1>2. ~revoked[jti[r]]
  BY <1>1 DEF SafeInv, Protected
<1>3. /\ revoked' = [revoked EXCEPT ![jti[r]] = TRUE]
      /\ UNCHANGED <<uses, sessions>>
  BY DEF CommitRevoke
<1>4. Charges' = Charges /\ OpenSession' = OpenSession
  BY <1>3, LedgerSessions DEF Charges
<1>5. Ledger!Revoke(jti[r])
  BY <1>2, <1>3, <1>4 DEF Ledger!Revoke
<1> QED
  BY <1>1, <1>5 DEF Ledger!Next

\* Whatever requests, the server and failures do, a pack sees the ledger's
\* operations, one at a time and at commits only.
LEMMA LedgerStep ==
    ASSUME SafeInv, SafeInv', LedgerInv, OneChargePerKey,
           \A r \in Req: LogoutLock(r), [Next]_vars
    PROVE  Ledger!Next \/ UNCHANGED Ledger!ledgerVars
<1>1. CASE UNCHANGED <<used, revoked, uses, sessions>>
  <2>1. Charges' = Charges /\ OpenSession' = OpenSession
    BY <1>1, LedgerSessions DEF Charges
  <2> QED
    BY <1>1, <2>1 DEF Ledger!ledgerVars
<1>2. ASSUME NEW r \in Req, DbCommit(r)
      PROVE  Ledger!Next \/ UNCHANGED Ledger!ledgerVars
  <2>1. CASE CommitUse(r)
    <3>1. Charging(r)
      BY <1>2, <2>1
      DEF DbCommit, CommitUse, Charging, Live, SafeInv, JobOfLabel, Progress,
          Protected
    <3> QED
      BY <3>1, ChargeSpends
  <2>2. CASE CommitSession(r)
    BY <1>2, <2>2, ActivationOpens
  <2>3. CASE CommitLogout(r)
    BY <1>2, <2>3, LogoutCloses
  <2>4. CASE CommitRevoke(r)
    BY <1>2, <2>4, RevocationRevokes
  <2>5. CASE CommitNothing(r)
    BY <1>1, <2>5 DEF CommitNothing
  <2> QED
    BY <1>2, <2>1, <2>2, <2>3, <2>4, <2>5 DEF DbCommit
<1> QED
  BY <1>1, <1>2, WhoMoves, OnlyCommitsWrite

\* PackStore implements PackLedger, for every instance and with every failure.
THEOREM ImplementsLedger == Spec => LedgerSpec
<1> DEFINE Locks == \A r \in Req: LogoutLock(r)
<1>1. Init => Ledger!Init
  <2> SUFFICES ASSUME Init PROVE Ledger!Init
    OBVIOUS
  <2>1. Charges = {} /\ revoked = [p \in Pack |-> FALSE]
    BY DEF Init, Charges
  <2>2. ASSUME NEW p \in Pack
        PROVE  OpenAmong(sessions, p) \in Secret \cup {None}
    <3>1. SafeInv
      BY InitInv
    <3>2. \A s, t \in Secret:
            IsOpen(sessions, p, s) /\ IsOpen(sessions, p, t) => s = t
      BY <3>1 DEF SafeInv, OneSession, IsOpen
    <3> QED
      BY <3>2, OpenAmongIsOpen
  <2>3. OpenSession = [p \in Pack |-> OpenAmong(sessions, p)]
    BY DEF OpenSession, OpenAmong, SessionsOf
  <2> QED
    BY <2>1, <2>2, <2>3 DEF Ledger!Init
<1>2. Init => Locks
  BY DEF Init, LogoutLock
<1>3. SafeInv /\ Locks /\ [Next]_vars => Locks'
  BY LogoutLockStep
<1>4. SafeInv /\ SafeInv' /\ LedgerInv /\ OneChargePerKey /\ Locks /\ [Next]_vars
        => [Ledger!Next]_(Ledger!ledgerVars)
  BY LedgerStep
<1> HIDE DEF Locks
<1> QED
  BY <1>1, <1>2, <1>3, <1>4, Safety, LedgerHolds, ChargedOnce, PTL
  DEF Spec, LedgerSpec, Ledger!Spec
=============================================================================
