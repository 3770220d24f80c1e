------------------------ MODULE ChallengeStoreProofs ------------------------
(***************************************************************************)
(* Proofs about ChallengeStore, for any number of requests, wallets and     *)
(* sweeps, any limit and any clock.                                         *)
(***************************************************************************)
EXTENDS ChallengeStore, FiniteSetTheorems, TLAPS

\* The row of a challenge is there only after its INSERT has committed.
RowsAreInserted ==
    /\ IsFiniteSet(rows)
    /\ \A r \in rows: pc[r] \in {"inserted", "issued", "failed"}

\* Who presents a challenge presents one that was handed out, and who has
\* deleted its row has deleted it.
Presented ==
    \A c \in Caller:
        /\ pc[c] = "idle" => target[c] = None
        /\ pc[c] \in {"delete", "deleted", "accepted"} =>
             target[c] \in Req /\ pc[target[c]] = "issued"
        /\ pc[c] \in {"deleted", "accepted"} => target[c] \notin rows

\* GoodUntilPresented, from the moment the row is in the table.
GoodFromTheStart ==
    \A r \in Req:
        /\ pc[r] \in {"inserted", "issued"} /\ expires[r] > now
        /\ \A c \in Caller: target[c] # r
        => r \in rows

UseInv ==
    TypeOK /\ RowsAreInserted /\ Presented /\ GoodFromTheStart /\ AcceptedOnce

\* The INSERTs of w that have counted few enough rows to insert theirs.
Decided(w) == {r \in Req: pc[r] = "commit" /\ wallet[r] = w /\ BelowLimit(r)}

\* They are counted together with the rows: one that decides counts fewer than
\* Limit, and beside it there are fewer than Width others.
FewRequests == IsFiniteSet(InFlight) /\ Cardinality(InFlight) <= Width
RoomForDecided ==
    \A w \in Wallet:
        Cardinality(Pending(w, now)) + Cardinality(Decided(w)) <= Limit + Width - 1

\* NOW() of a transaction is not ahead of the clock.
BeganBefore == \A r \in Req: txNow[r] <= now

LimitInv == FewRequests /\ BeganBefore /\ RoomForDecided

-----------------------------------------------------------------------------
LEMMA UseInit == Init => UseInv
<1> SUFFICES ASSUME Init PROVE UseInv
  OBVIOUS
<1>1. TypeOK
  BY LimitAssumption DEF Init, TypeOK, Labels
<1>2. IsFiniteSet({})
  BY FS_EmptySet
<1>3. QED
  BY <1>1, <1>2, RequestAssumption
     DEF Init, UseInv, RowsAreInserted, Presented, GoodFromTheStart, AcceptedOnce

\* A request for a challenge goes on, in a step that leaves the table alone.
LEMMA RequestStep ==
    ASSUME UseInv, NEW r \in Req, NEW to \in Labels,
           pc' = [pc EXCEPT ![r] = to],
           pc[r] # "issued", to # "issued" \/ pc[r] = "inserted",
           to = "inserted" => pc[r] = "inserted",
           r \in rows => to \in {"issued", "failed"},
           rows' = rows, target' = target, now' = now, TypeOK',
           \A q \in Req: pc[q] \in {"inserted", "issued"} => expires'[q] = expires[q]
    PROVE  UseInv'
<1>1. /\ pc'[r] = to
      /\ \A q \in Req \cup Caller: q # r => pc'[q] = pc[q]
      /\ \A c \in Caller: pc'[c] = pc[c]
  BY RequestAssumption DEF UseInv, TypeOK
<1>2. RowsAreInserted'
  BY <1>1 DEF UseInv, TypeOK, RowsAreInserted
<1>3. Presented'
  BY <1>1 DEF UseInv, Presented
<1>4. GoodFromTheStart'
  <2> SUFFICES ASSUME NEW q \in Req, pc'[q] \in {"inserted", "issued"}, expires'[q] > now,
                      \A c \in Caller: target[c] # q
               PROVE  q \in rows
    BY DEF GoodFromTheStart
  <2>1. pc[q] \in {"inserted", "issued"}
    BY <1>1
  <2>2. QED
    BY <2>1 DEF UseInv, GoodFromTheStart
<1>5. AcceptedOnce'
  BY <1>1 DEF UseInv, AcceptedOnce
<1>6. QED
  BY <1>2, <1>3, <1>4, <1>5 DEF UseInv

LEMMA BuildChallengeStep ==
    ASSUME UseInv, NEW r \in Req, BuildChallenge(r) PROVE UseInv'
<1>1. /\ pc[r] = "idle" /\ pc' = [pc EXCEPT ![r] = "begin"]
      /\ expires' = [expires EXCEPT ![r] = now + Ttl]
      /\ \E w \in Wallet: wallet' = [wallet EXCEPT ![r] = w]
      /\ UNCHANGED <<now, rows, txNow, counted, target, sweeping>>
  BY DEF BuildChallenge, Step, ExpiresAt
<1>2. r \notin rows
  BY <1>1 DEF UseInv, RowsAreInserted
<1>3. now + Ttl \in 0..(MaxTime + Ttl)
  BY LimitAssumption DEF UseInv, TypeOK
<1>4. TypeOK'
  BY <1>1, <1>3 DEF UseInv, TypeOK, Labels
<1>5. \A q \in Req: pc[q] \in {"inserted", "issued"} => expires'[q] = expires[q]
  BY <1>1 DEF UseInv, TypeOK
<1>6. QED
  BY <1>1, <1>2, <1>4, <1>5, RequestStep DEF Labels

LEMMA OpenInsertStep ==
    ASSUME UseInv, NEW r \in Req, OpenInsert(r) PROVE UseInv'
<1>1. /\ pc[r] = "begin" /\ pc' = [pc EXCEPT ![r] = "insert"]
      /\ txNow' = [txNow EXCEPT ![r] = now]
      /\ UNCHANGED <<now, rows, wallet, expires, counted, target, sweeping>>
  BY DEF OpenInsert, Step
<1>2. r \notin rows
  BY <1>1 DEF UseInv, RowsAreInserted
<1>3. TypeOK'
  BY <1>1 DEF UseInv, TypeOK, Labels
<1>4. QED
  BY <1>1, <1>2, <1>3, RequestStep DEF Labels

LEMMA InsertNonceStep ==
    ASSUME UseInv, NEW r \in Req, InsertNonce(r) PROVE UseInv'
<1>1. /\ pc[r] = "insert" /\ pc' = [pc EXCEPT ![r] = "commit"]
      /\ counted' = [counted EXCEPT ![r] = Cardinality(Pending(wallet[r], txNow[r]))]
      /\ UNCHANGED <<now, rows, wallet, expires, txNow, target, sweeping>>
  BY DEF InsertNonce, Step
<1>2. r \notin rows
  BY <1>1 DEF UseInv, RowsAreInserted
<1>3. Cardinality(Pending(wallet[r], txNow[r])) \in Nat
  BY FS_Subset, FS_CardinalityType DEF UseInv, RowsAreInserted, Pending
<1>4. TypeOK'
  BY <1>1, <1>3 DEF UseInv, TypeOK, Labels
<1>5. QED
  BY <1>1, <1>2, <1>4, RequestStep DEF Labels

LEMMA CommitNonceStep ==
    ASSUME UseInv, NEW r \in Req, CommitNonce(r) PROVE UseInv'
<1>1. /\ pc[r] = "commit"
      /\ UNCHANGED <<now, wallet, expires, txNow, counted, target, sweeping>>
  BY DEF CommitNonce, Step
<1>2. CASE BelowLimit(r)
  <2>1. pc' = [pc EXCEPT ![r] = "inserted"] /\ rows' = rows \cup {r}
    BY <1>2 DEF CommitNonce, Step
  <2>2. /\ pc'[r] = "inserted"
        /\ \A q \in Req: q # r => pc'[q] = pc[q]
        /\ \A c \in Caller: pc'[c] = pc[c]
    BY <2>1, RequestAssumption DEF UseInv, TypeOK
  <2>3. TypeOK'
    BY <1>1, <2>1 DEF UseInv, TypeOK, Labels
  <2>4. RowsAreInserted'
    BY <2>1, <2>2, FS_AddElement DEF UseInv, TypeOK, RowsAreInserted
  <2>5. Presented'
    BY <1>1, <2>1, <2>2 DEF UseInv, Presented
  <2>6. GoodFromTheStart'
    BY <1>1, <2>1, <2>2 DEF UseInv, GoodFromTheStart
  <2>7. AcceptedOnce'
    BY <1>1, <2>2 DEF UseInv, AcceptedOnce
  <2>8. QED
    BY <2>3, <2>4, <2>5, <2>6, <2>7 DEF UseInv
<1>3. CASE ~BelowLimit(r)
  <2>1. pc' = [pc EXCEPT ![r] = "limited"] /\ rows' = rows
    BY <1>3 DEF CommitNonce, Step
  <2>2. r \notin rows
    BY <1>1 DEF UseInv, RowsAreInserted
  <2>3. TypeOK'
    BY <1>1, <2>1 DEF UseInv, TypeOK, Labels
  <2>4. QED
    BY <1>1, <2>1, <2>2, <2>3, RequestStep DEF Labels
<1>4. QED
  BY <1>2, <1>3

LEMMA ReturnChallengeStep ==
    ASSUME UseInv, NEW r \in Req, ReturnChallenge(r) PROVE UseInv'
<1>1. /\ pc[r] = "inserted" /\ pc' = [pc EXCEPT ![r] = "issued"]
      /\ sweeping' \subseteq sweeping \cup {r}
      /\ UNCHANGED <<now, rows, wallet, expires, txNow, counted, target>>
  BY DEF ReturnChallenge, Step
<1>2. TypeOK'
  BY <1>1 DEF UseInv, TypeOK, Labels
<1>3. QED
  BY <1>1, <1>2, RequestStep DEF Labels

\* A sweep takes no challenge that is still good.
LEMMA CleanupStep ==
    ASSUME UseInv, NEW r \in Req, CleanupExpiredNonces(r) PROVE UseInv'
<1>1. /\ sweeping' \subseteq sweeping
      /\ rows' = {q \in rows: ~(expires[q] + Grace < now)}
      /\ UNCHANGED <<now, wallet, expires, txNow, counted, target, pc>>
  BY DEF CleanupExpiredNonces, Swept
<1>2. TypeOK'
  BY <1>1 DEF UseInv, TypeOK
<1>3. RowsAreInserted'
  BY <1>1, FS_Subset DEF UseInv, RowsAreInserted
<1>4. Presented'
  BY <1>1 DEF UseInv, Presented
<1>5. GoodFromTheStart'
  <2>1. \A q \in Req: expires[q] \in Nat /\ now \in Nat
    BY LimitAssumption DEF UseInv, TypeOK
  <2>2. QED
    BY <1>1, <2>1, LimitAssumption DEF UseInv, GoodFromTheStart
<1>6. AcceptedOnce'
  BY <1>1 DEF UseInv, AcceptedOnce
<1>7. QED
  BY <1>2, <1>3, <1>4, <1>5, <1>6 DEF UseInv

\* A caller that does not touch the table: it is refused, gives up, or is
\* accepted after its DELETE.
LEMMA CallerStep ==
    ASSUME UseInv, NEW c \in Caller, NEW to \in {"refused", "failed", "accepted"},
           pc' = [pc EXCEPT ![c] = to],
           to = "accepted" => pc[c] = "deleted",
           \/ target' = target
           \/ pc[c] = "idle" /\ \E r \in Req: target' = [target EXCEPT ![c] = r],
           UNCHANGED <<now, rows, wallet, expires, txNow, counted, sweeping>>
    PROVE  UseInv'
<1>1. /\ pc'[c] = to
      /\ \A q \in Caller: q # c => pc'[q] = pc[q] /\ target'[q] = target[q]
      /\ \A q \in Req: pc'[q] = pc[q]
      /\ target'[c] = target[c] \/ (pc[c] = "idle" /\ target'[c] \in Req)
  BY RequestAssumption DEF UseInv, TypeOK
<1>2. TypeOK'
  BY DEF UseInv, TypeOK, Labels
<1>3. RowsAreInserted'
  BY <1>1 DEF UseInv, TypeOK, RowsAreInserted
<1>4. Presented'
  BY <1>1 DEF UseInv, Presented
<1>5. GoodFromTheStart'
  <2>1. \A r \in Req: (\A d \in Caller: target'[d] # r) => \A d \in Caller: target[d] # r
    BY <1>1, RequestAssumption DEF UseInv, Presented
  <2>2. QED
    BY <1>1, <2>1 DEF UseInv, GoodFromTheStart
<1>6. AcceptedOnce'
  BY <1>1 DEF UseInv, AcceptedOnce
<1>7. QED
  BY <1>2, <1>3, <1>4, <1>5, <1>6 DEF UseInv

LEMMA VerifySubmissionStep ==
    ASSUME UseInv, NEW c \in Caller, VerifySubmission(c) PROVE UseInv'
<1>1. PICK r \in Req:
        /\ pc[r] = "issued" /\ pc[c] = "idle"
        /\ target' = [target EXCEPT ![c] = r]
        /\ \/ pc' = [pc EXCEPT ![c] = "delete"] /\ txNow' = [txNow EXCEPT ![c] = now]
           \/ pc' = [pc EXCEPT ![c] = "refused"] /\ txNow' = txNow
        /\ UNCHANGED <<now, rows, wallet, expires, counted, sweeping>>
  BY DEF VerifySubmission, Step
<1>2. CASE pc' = [pc EXCEPT ![c] = "refused"] /\ txNow' = txNow
  BY <1>1, <1>2, CallerStep
<1>3. CASE pc' = [pc EXCEPT ![c] = "delete"] /\ txNow' = [txNow EXCEPT ![c] = now]
  <2>1. /\ pc'[c] = "delete" /\ target'[c] = r
        /\ \A q \in Caller: q # c => pc'[q] = pc[q] /\ target'[q] = target[q]
        /\ \A q \in Req: pc'[q] = pc[q]
    BY <1>1, <1>3, RequestAssumption DEF UseInv, TypeOK
  <2>2. TypeOK'
    BY <1>1, <1>3 DEF UseInv, TypeOK, Labels
  <2>3. RowsAreInserted'
    BY <1>1, <2>1 DEF UseInv, TypeOK, RowsAreInserted
  <2>4. Presented'
    BY <1>1, <2>1 DEF UseInv, Presented
  <2>5. GoodFromTheStart'
    <3>1. \A q \in Req: (\A d \in Caller: target'[d] # q) => \A d \in Caller: target[d] # q
      BY <1>1, <2>1, RequestAssumption DEF UseInv, Presented
    <3>2. QED
      BY <1>1, <2>1, <3>1 DEF UseInv, GoodFromTheStart
  <2>6. AcceptedOnce'
    BY <2>1 DEF UseInv, AcceptedOnce
  <2>7. QED
    BY <2>2, <2>3, <2>4, <2>5, <2>6 DEF UseInv
<1>4. QED
  BY <1>1, <1>2, <1>3

\* Only the first DELETE of a row removes it.
LEMMA ConsumeNonceStep ==
    ASSUME UseInv, NEW c \in Caller, ConsumeNonce(c) PROVE UseInv'
<1>1. /\ pc[c] = "delete"
      /\ UNCHANGED <<now, wallet, expires, txNow, counted, target, sweeping>>
  BY DEF ConsumeNonce
<1>2. CASE Deletable(c)
  <2>1. /\ pc' = [pc EXCEPT ![c] = "deleted"] /\ rows' = rows \ {target[c]}
        /\ target[c] \in rows
    BY <1>2 DEF ConsumeNonce, Step, Deletable
  <2>2. /\ pc'[c] = "deleted"
        /\ \A q \in Caller: q # c => pc'[q] = pc[q]
        /\ \A q \in Req: pc'[q] = pc[q]
    BY <2>1, RequestAssumption DEF UseInv, TypeOK
  <2>3. TypeOK'
    BY <1>1, <2>1 DEF UseInv, TypeOK, Labels
  <2>4. RowsAreInserted'
    BY <2>1, <2>2, FS_Subset DEF UseInv, TypeOK, RowsAreInserted
  <2>5. Presented'
    BY <1>1, <2>1, <2>2 DEF UseInv, Presented
  <2>6. GoodFromTheStart'
    BY <1>1, <2>1, <2>2 DEF UseInv, GoodFromTheStart
  <2>7. AcceptedOnce'
    BY <1>1, <2>1, <2>2 DEF UseInv, Presented, AcceptedOnce
  <2>8. QED
    BY <2>3, <2>4, <2>5, <2>6, <2>7 DEF UseInv
<1>3. CASE ~Deletable(c)
  BY <1>1, <1>3, CallerStep DEF ConsumeNonce, Step
<1>4. QED
  BY <1>2, <1>3

LEMMA GiveUpStep ==
    ASSUME UseInv, NEW r \in Req \cup Caller, GiveUp(r) PROVE UseInv'
<1>1. /\ pc[r] \in {"begin", "insert", "commit", "inserted", "delete", "deleted"}
      /\ pc' = [pc EXCEPT ![r] = "failed"]
      /\ UNCHANGED <<now, rows, wallet, expires, txNow, counted, target, sweeping>>
  BY DEF GiveUp, Step
<1>2. CASE r \in Caller
  BY <1>1, <1>2, CallerStep
<1>3. CASE r \in Req
  <2>1. TypeOK'
    BY <1>1 DEF UseInv, TypeOK, Labels
  <2>2. QED
    BY <1>1, <1>3, <2>1, RequestStep DEF Labels
<1>4. QED
  BY <1>2, <1>3

LEMMA TickStep ==
    ASSUME UseInv, Tick PROVE UseInv'
<1>1. /\ now < MaxTime /\ now' = now + 1
      /\ UNCHANGED <<rows, wallet, expires, txNow, counted, target, sweeping, pc>>
  BY DEF Tick
<1>2. TypeOK'
  BY <1>1, LimitAssumption DEF UseInv, TypeOK
<1>3. GoodFromTheStart'
  <2>1. \A r \in Req: now \in Nat /\ expires[r] \in Nat
    BY LimitAssumption DEF UseInv, TypeOK
  <2>2. \A r \in Req: expires[r] > now + 1 => expires[r] > now
    BY <2>1
  <2>3. QED
    BY <1>1, <2>2 DEF UseInv, GoodFromTheStart
<1>4. RowsAreInserted' /\ Presented' /\ AcceptedOnce'
  BY <1>1 DEF UseInv, RowsAreInserted, Presented, AcceptedOnce
<1>5. QED
  BY <1>2, <1>3, <1>4 DEF UseInv

LEMMA UseStep == UseInv /\ [Next]_vars => UseInv'
<1> SUFFICES ASSUME UseInv, [Next]_vars PROVE UseInv'
  OBVIOUS
<1>1. CASE UNCHANGED vars
  BY <1>1 DEF vars, UseInv, TypeOK, RowsAreInserted, Presented, GoodFromTheStart, AcceptedOnce
<1>2. ASSUME NEW c \in Caller, RefuseSubmission(c) \/ Accept(c)
      PROVE  UseInv'
  BY <1>2, CallerStep DEF RefuseSubmission, Accept, Step
<1>3. QED
  BY <1>1, <1>2, BuildChallengeStep, OpenInsertStep, InsertNonceStep, CommitNonceStep,
     ReturnChallengeStep, CleanupStep, VerifySubmissionStep, ConsumeNonceStep, GiveUpStep,
     TickStep DEF Next, Quiet

LEMMA UseInvariant == Spec => []UseInv
BY UseInit, UseStep, PTL DEF Spec

\* All state has its type.
THEOREM TypeCorrect == Spec => []TypeOK
<1>1. UseInv => TypeOK
  BY DEF UseInv
<1>2. QED
  BY <1>1, UseInvariant, PTL

\* A challenge lets one request through, however many present it.
THEOREM ChallengesAreSpent == Spec => []AcceptedOnce
<1>1. UseInv => AcceptedOnce
  BY DEF UseInv
<1>2. QED
  BY <1>1, UseInvariant, PTL

\* A challenge that was handed out is good until it expires or is presented.
THEOREM ChallengesStayGood == Spec => []GoodUntilPresented
<1>1. UseInv => GoodUntilPresented
  BY DEF UseInv, GoodFromTheStart, GoodUntilPresented
<1>2. QED
  BY <1>1, UseInvariant, PTL

-----------------------------------------------------------------------------
LEMMA OneMore ==
    ASSUME NEW S, IsFiniteSet(S), NEW x
    PROVE  /\ Cardinality(S) \in Nat
           /\ IsFiniteSet(S \cup {x})
           /\ Cardinality(S \cup {x}) <= Cardinality(S) + 1
           /\ Cardinality(S \cup {x}) \in Nat
<1>1. Cardinality(S) \in Nat
  BY FS_CardinalityType
<1>2. /\ IsFiniteSet(S \cup {x})
      /\ \/ Cardinality(S \cup {x}) = Cardinality(S)
         \/ Cardinality(S \cup {x}) = Cardinality(S) + 1
  BY FS_AddElement
<1>3. QED
  BY <1>1, <1>2

\* Rows and decided INSERTs are finitely many.
LEMMA CountsAreNumbers ==
    ASSUME UseInv, LimitInv, NEW w
    PROVE  /\ IsFiniteSet(Pending(w, now)) /\ Cardinality(Pending(w, now)) \in Nat
           /\ IsFiniteSet(Decided(w)) /\ Cardinality(Decided(w)) \in Nat
           /\ Cardinality(Decided(w)) <= Cardinality(InFlight)
<1>1. Pending(w, now) \subseteq rows /\ Decided(w) \subseteq InFlight
  BY DEF Pending, Decided, InFlight
<1>2. QED
  BY <1>1, FS_Subset, FS_CardinalityType
     DEF UseInv, RowsAreInserted, LimitInv, FewRequests

\* Where neither the rows of a wallet nor its decided INSERTs become more.
LEMMA NoMore ==
    ASSUME UseInv, LimitInv, NEW w \in Wallet, NEW P, NEW D,
           P \subseteq Pending(w, now), D \subseteq Decided(w)
    PROVE  Cardinality(P) + Cardinality(D) <= Limit + Width - 1
<1>1. /\ Cardinality(P) \in Nat /\ Cardinality(P) <= Cardinality(Pending(w, now))
      /\ Cardinality(D) \in Nat /\ Cardinality(D) <= Cardinality(Decided(w))
  BY CountsAreNumbers, FS_Subset, FS_CardinalityType
<1>2. QED
  BY <1>1, CountsAreNumbers, LimitAssumption DEF LimitInv, RoomForDecided

LEMMA NoMoreInFlight ==
    ASSUME FewRequests, InFlight' \subseteq InFlight
    PROVE  FewRequests'
<1>1. /\ IsFiniteSet(InFlight') /\ Cardinality(InFlight') <= Cardinality(InFlight)
      /\ Cardinality(InFlight') \in Nat /\ Cardinality(InFlight) \in Nat
  BY FS_Subset, FS_CardinalityType DEF FewRequests
<1>2. QED
  BY <1>1, LimitAssumption DEF FewRequests

\* What does not count, insert or begin an INSERT.
LEMMA OtherSteps ==
    ASSUME UseInv, LimitInv, now' \in Nat, now <= now', rows' \subseteq rows,
           \A r \in Req: /\ pc'[r] \in {"insert", "commit"} => pc'[r] = pc[r]
                         /\ pc[r] # "idle" => /\ wallet'[r] = wallet[r]
                                              /\ expires'[r] = expires[r],
           UNCHANGED counted,
           \A r \in Req: txNow'[r] = txNow[r]
    PROVE  LimitInv'
<1>1. now \in Nat /\ \A r \in Req: expires[r] \in Nat /\ txNow[r] \in Nat
  BY LimitAssumption DEF UseInv, TypeOK
<1>2. FewRequests'
  BY NoMoreInFlight DEF LimitInv, InFlight
<1>3. BeganBefore'
  BY <1>1 DEF LimitInv, BeganBefore
<1>4. ASSUME NEW w \in Wallet
      PROVE  Pending(w, now)' \subseteq Pending(w, now) /\ Decided(w)' \subseteq Decided(w)
  <2>1. \A r \in rows: r \in Req /\ pc[r] # "idle"
    BY DEF UseInv, TypeOK, RowsAreInserted
  <2>2. ASSUME NEW r \in Pending(w, now)' PROVE r \in Pending(w, now)
    <3>1. r \in rows /\ wallet[r] = w /\ expires[r] > now'
      BY <2>1, <2>2 DEF Pending
    <3>2. QED
      BY <1>1, <2>1, <3>1 DEF Pending
  <2>3. Decided(w)' \subseteq Decided(w)
    BY DEF Decided, BelowLimit
  <2>4. QED
    BY <2>2, <2>3
<1>5. RoomForDecided'
  <2>1. ASSUME NEW w \in Wallet
        PROVE  Cardinality(Pending(w, now)') + Cardinality(Decided(w)') <= Limit + Width - 1
    BY <1>4, NoMore
  <2>2. QED
    BY <2>1 DEF RoomForDecided
<1>6. QED
  BY <1>2, <1>3, <1>5 DEF LimitInv

LEMMA LimitOpenInsert ==
    ASSUME UseInv, LimitInv, NEW r \in Req, OpenInsert(r) PROVE LimitInv'
<1>1. /\ pc' = [pc EXCEPT ![r] = "insert"] /\ Cardinality(InFlight) < Width
      /\ txNow' = [txNow EXCEPT ![r] = now]
      /\ UNCHANGED <<now, rows, wallet, expires, counted>>
  BY DEF OpenInsert, Step
<1>2. /\ pc'[r] = "insert" /\ \A q \in Req: q # r => pc'[q] = pc[q]
      /\ txNow'[r] = now /\ \A q \in Req: q # r => txNow'[q] = txNow[q]
  BY <1>1 DEF UseInv, TypeOK
<1>3. FewRequests'
  <2>1. InFlight' \subseteq InFlight \cup {r}
    BY <1>2 DEF InFlight
  <2>2. /\ IsFiniteSet(InFlight) /\ Cardinality(InFlight) \in Nat
        /\ IsFiniteSet(InFlight \cup {r})
        /\ Cardinality(InFlight \cup {r}) <= Cardinality(InFlight) + 1
        /\ Cardinality(InFlight \cup {r}) \in Nat
    BY OneMore DEF LimitInv, FewRequests
  <2>3. /\ IsFiniteSet(InFlight') /\ Cardinality(InFlight') \in Nat
        /\ Cardinality(InFlight') <= Cardinality(InFlight \cup {r})
    BY <2>1, <2>2, FS_Subset, FS_CardinalityType
  <2>4. QED
    BY <1>1, <2>2, <2>3, LimitAssumption DEF FewRequests
<1>4. BeganBefore'
  BY <1>1, <1>2, LimitAssumption DEF UseInv, TypeOK, LimitInv, BeganBefore
<1>5. RoomForDecided'
  <2>1. ASSUME NEW w \in Wallet
        PROVE  Cardinality(Pending(w, now)') + Cardinality(Decided(w)') <= Limit + Width - 1
    <3>1. Pending(w, now)' \subseteq Pending(w, now) /\ Decided(w)' \subseteq Decided(w)
      BY <1>1, <1>2 DEF Pending, Decided, BelowLimit
    <3>2. QED
      BY <3>1, NoMore
  <2>2. QED
    BY <2>1 DEF RoomForDecided
<1>6. QED
  BY <1>3, <1>4, <1>5 DEF LimitInv

\* An INSERT that decides to insert has counted fewer than Limit rows, and now
\* there are no more than it counted; decided are at most Width.
LEMMA LimitInsertNonce ==
    ASSUME UseInv, LimitInv, NEW r \in Req, InsertNonce(r) PROVE LimitInv'
<1> DEFINE count == Cardinality(Pending(wallet[r], txNow[r]))
<1>1. /\ pc[r] = "insert" /\ pc' = [pc EXCEPT ![r] = "commit"]
      /\ counted' = [counted EXCEPT ![r] = count]
      /\ UNCHANGED <<now, rows, wallet, expires, txNow>>
  BY DEF InsertNonce, Step
<1>2. /\ pc'[r] = "commit" /\ \A q \in Req: q # r => pc'[q] = pc[q]
      /\ counted'[r] = count /\ \A q \in Req: q # r => counted'[q] = counted[q]
  BY <1>1 DEF UseInv, TypeOK
<1>3. FewRequests'
  BY <1>1, <1>2, NoMoreInFlight DEF LimitInv, InFlight
<1>4. BeganBefore'
  BY <1>1 DEF LimitInv, BeganBefore
<1>5. RoomForDecided'
  <2>1. ASSUME NEW w \in Wallet
        PROVE  Cardinality(Pending(w, now)') + Cardinality(Decided(w)') <= Limit + Width - 1
    <3>1. Pending(w, now)' = Pending(w, now)
      BY <1>1 DEF Pending
    <3>2. CASE Decided(w)' \subseteq Decided(w)
      BY <3>1, <3>2, NoMore
    <3>3. CASE ~(Decided(w)' \subseteq Decided(w))
      <4>1. wallet[r] = w /\ count < Limit
        BY <1>1, <1>2, <3>3 DEF Decided, BelowLimit
      <4>2. Pending(w, now) \subseteq Pending(w, txNow[r])
        <5>1. now \in Nat /\ txNow[r] \in Nat /\ txNow[r] <= now
              /\ \A q \in Req: expires[q] \in Nat
          BY LimitAssumption DEF UseInv, TypeOK, LimitInv, BeganBefore
        <5>2. QED
          BY <5>1 DEF Pending, UseInv, TypeOK
      <4>3. IsFiniteSet(Pending(w, txNow[r]))
        BY FS_Subset DEF Pending, UseInv, RowsAreInserted
      <4>4. /\ Cardinality(Pending(w, now)) <= Limit - 1
            /\ Cardinality(Pending(w, now)) \in Nat
        <5>1. count \in Nat /\ Cardinality(Pending(w, now)) \in Nat
              /\ Cardinality(Pending(w, now)) <= count
          BY <4>1, <4>2, <4>3, FS_Subset, FS_CardinalityType
        <5> HIDE DEF count
        <5>2. QED
          BY <4>1, <5>1, LimitAssumption
      <4>5. /\ Cardinality(Decided(w)') <= Width
            /\ Cardinality(Decided(w)') \in Nat
        <5>1. Decided(w)' \subseteq InFlight'
          BY DEF Decided, InFlight
        <5>2. /\ IsFiniteSet(InFlight') /\ Cardinality(InFlight') \in Nat
              /\ Cardinality(InFlight') <= Width
          BY <1>3, FS_CardinalityType DEF FewRequests
        <5>3. /\ Cardinality(Decided(w)') \in Nat
              /\ Cardinality(Decided(w)') <= Cardinality(InFlight')
          BY <5>1, <5>2, FS_Subset, FS_CardinalityType
        <5>4. QED
          BY <5>2, <5>3, LimitAssumption
      <4>6. QED
        BY <3>1, <4>4, <4>5, LimitAssumption
    <3>4. QED
      BY <3>2, <3>3
  <2>2. QED
    BY <2>1 DEF RoomForDecided
<1>6. QED
  BY <1>3, <1>4, <1>5 DEF LimitInv

\* A decided INSERT becomes a row.
LEMMA LimitCommitNonce ==
    ASSUME UseInv, LimitInv, NEW r \in Req, CommitNonce(r) PROVE LimitInv'
<1>1. /\ pc[r] = "commit" /\ UNCHANGED <<now, wallet, expires, txNow, counted>>
      /\ now \in Nat
  BY LimitAssumption DEF CommitNonce, Step, UseInv, TypeOK
<1>2. CASE BelowLimit(r)
  <2>1. pc' = [pc EXCEPT ![r] = "inserted"] /\ rows' = rows \cup {r}
    BY <1>2 DEF CommitNonce, Step
  <2>2. pc'[r] = "inserted" /\ \A q \in Req: q # r => pc'[q] = pc[q]
    BY <2>1 DEF UseInv, TypeOK
  <2>3. FewRequests'
    BY <2>2, NoMoreInFlight DEF LimitInv, InFlight
  <2>4. BeganBefore'
    BY <1>1 DEF LimitInv, BeganBefore
  <2>5. ASSUME NEW w \in Wallet
        PROVE  Cardinality(Pending(w, now)') + Cardinality(Decided(w)') <= Limit + Width - 1
    <3>1. CASE wallet[r] # w
      <4>1. Pending(w, now)' \subseteq Pending(w, now) /\ Decided(w)' \subseteq Decided(w)
        BY <1>1, <2>1, <2>2, <3>1 DEF Pending, Decided, BelowLimit
      <4>2. QED
        BY <4>1, NoMore
    <3>2. CASE wallet[r] = w
      <4>1. r \in Decided(w) /\ Decided(w)' \subseteq Decided(w) \ {r}
        BY <1>1, <1>2, <2>2, <3>2 DEF Decided, BelowLimit
      <4>2. Pending(w, now)' \subseteq Pending(w, now) \cup {r}
        BY <1>1, <2>1 DEF Pending
      <4>3. /\ Cardinality(Decided(w)') \in Nat
            /\ Cardinality(Decided(w)') <= Cardinality(Decided(w)) - 1
        <5>1. /\ Cardinality(Decided(w) \ {r}) = Cardinality(Decided(w)) - 1
              /\ IsFiniteSet(Decided(w) \ {r})
          BY <4>1, CountsAreNumbers, FS_RemoveElement
        <5>2. QED
          BY <4>1, <5>1, FS_Subset, FS_CardinalityType
      <4>4. /\ Cardinality(Pending(w, now)') \in Nat
            /\ Cardinality(Pending(w, now)') <= Cardinality(Pending(w, now)) + 1
        <5>1. /\ IsFiniteSet(Pending(w, now) \cup {r})
              /\ Cardinality(Pending(w, now) \cup {r}) <= Cardinality(Pending(w, now)) + 1
              /\ Cardinality(Pending(w, now) \cup {r}) \in Nat
          BY CountsAreNumbers, OneMore
        <5>2. /\ Cardinality(Pending(w, now)') \in Nat
              /\ Cardinality(Pending(w, now)') <= Cardinality(Pending(w, now) \cup {r})
          BY <4>2, <5>1, FS_Subset, FS_CardinalityType
        <5>3. QED
          BY <5>1, <5>2, CountsAreNumbers
      <4>5. Cardinality(Pending(w, now)) + Cardinality(Decided(w)) <= Limit + Width - 1
        BY DEF LimitInv, RoomForDecided
      <4>6. QED
        BY <4>3, <4>4, <4>5, CountsAreNumbers, LimitAssumption
    <3>3. QED
      BY <3>1, <3>2
  <2>6. QED
    BY <2>3, <2>4, <2>5 DEF LimitInv, RoomForDecided
<1>3. CASE ~BelowLimit(r)
  <2>1. pc' = [pc EXCEPT ![r] = "limited"] /\ rows' = rows
    BY <1>3 DEF CommitNonce, Step
  <2>2. \A q \in Req: pc'[q] \in {"insert", "commit"} => pc'[q] = pc[q]
    BY <2>1 DEF UseInv, TypeOK
  <2>3. QED
    BY <1>1, <2>1, <2>2, OtherSteps
<1>4. QED
  BY <1>2, <1>3

LEMMA LimitStep == UseInv /\ LimitInv /\ [Next]_vars => LimitInv'
<1> SUFFICES ASSUME UseInv, LimitInv, [Next]_vars PROVE LimitInv'
  OBVIOUS
<1>1. now \in Nat /\ now <= now
  BY LimitAssumption DEF UseInv, TypeOK
<1>2. ASSUME NEW r \in Req, BuildChallenge(r)
      PROVE  LimitInv'
  <2>1. /\ pc[r] = "idle" /\ pc' = [pc EXCEPT ![r] = "begin"]
        /\ expires' = [expires EXCEPT ![r] = ExpiresAt(now)]
        /\ \E w \in Wallet: wallet' = [wallet EXCEPT ![r] = w]
        /\ UNCHANGED <<now, rows, txNow, counted>>
    BY <1>2 DEF BuildChallenge, Step
  <2>2. \A q \in Req: /\ pc'[q] \in {"insert", "commit"} => pc'[q] = pc[q]
                      /\ pc[q] # "idle" => /\ wallet'[q] = wallet[q]
                                           /\ expires'[q] = expires[q]
    BY <2>1 DEF UseInv, TypeOK
  <2>3. QED
    BY <1>1, <2>1, <2>2, OtherSteps
<1>3. ASSUME NEW r \in Req, ReturnChallenge(r) \/ CleanupExpiredNonces(r)
      PROVE  LimitInv'
  <2>1. /\ rows' \subseteq rows /\ UNCHANGED <<now, wallet, expires, txNow, counted>>
        /\ pc' = pc \/ pc' = [pc EXCEPT ![r] = "issued"]
    BY <1>3 DEF ReturnChallenge, CleanupExpiredNonces, Step
  <2>2. \A q \in Req: pc'[q] \in {"insert", "commit"} => pc'[q] = pc[q]
    BY <2>1 DEF UseInv, TypeOK
  <2>3. QED
    BY <1>1, <2>1, <2>2, OtherSteps
<1>4. ASSUME NEW c \in Caller,
             VerifySubmission(c) \/ RefuseSubmission(c) \/ ConsumeNonce(c) \/ Accept(c)
      PROVE  LimitInv'
  <2>1. /\ rows' \subseteq rows /\ UNCHANGED <<now, wallet, expires, counted>>
        /\ txNow' = txNow \/ txNow' = [txNow EXCEPT ![c] = now]
        /\ \E to \in Labels: pc' = [pc EXCEPT ![c] = to]
    BY <1>4 DEF VerifySubmission, RefuseSubmission, ConsumeNonce, Accept, Step, Labels
  <2>2. \A q \in Req: pc'[q] = pc[q] /\ txNow'[q] = txNow[q]
    BY <2>1, RequestAssumption DEF UseInv, TypeOK
  <2>3. QED
    BY <1>1, <2>1, <2>2, OtherSteps
<1>5. ASSUME NEW r \in Req \cup Caller, GiveUp(r)
      PROVE  LimitInv'
  <2>1. /\ pc' = [pc EXCEPT ![r] = "failed"]
        /\ UNCHANGED <<now, rows, wallet, expires, txNow, counted>>
    BY <1>5 DEF GiveUp, Step
  <2>2. \A q \in Req: pc'[q] \in {"insert", "commit"} => pc'[q] = pc[q]
    BY <2>1 DEF UseInv, TypeOK
  <2>3. QED
    BY <1>1, <2>1, <2>2, OtherSteps
<1>6. CASE Tick
  BY <1>1, <1>6, OtherSteps DEF Tick
<1>7. CASE UNCHANGED vars
  BY <1>1, <1>7, OtherSteps DEF vars
<1>8. QED
  BY <1>2, <1>3, <1>4, <1>5, <1>6, <1>7, LimitOpenInsert, LimitInsertNonce,
     LimitCommitNonce DEF Next, Quiet

LEMMA LimitInit == Init => LimitInv
<1> SUFFICES ASSUME Init PROVE LimitInv
  OBVIOUS
<1>1. IsFiniteSet({}) /\ Cardinality({}) = 0
  BY FS_EmptySet
<1>2. /\ InFlight = {}
      /\ \A w \in Wallet: Pending(w, now) = {} /\ Decided(w) = {}
  BY DEF Init, InFlight, Pending, Decided
<1>3. QED
  BY <1>1, <1>2, LimitAssumption DEF Init, LimitInv, FewRequests, BeganBefore, RoomForDecided

\* A wallet never has more challenges pending than the limit and the requests
\* that ran beside the last one.
THEOREM OverlapBoundsPending == Spec => []PendingBounded
<1>1. ASSUME UseInv, LimitInv PROVE PendingBounded
  <2>1. ASSUME NEW w \in Wallet
        PROVE  Cardinality(Pending(w, now)) <= Limit + Width - 1
    BY <1>1, CountsAreNumbers, LimitAssumption DEF LimitInv, RoomForDecided
  <2>2. QED
    BY <2>1 DEF PendingBounded
<1>2. Spec => []LimitInv
  BY LimitInit, LimitStep, UseInvariant, PTL DEF Spec
<1>3. QED
  BY <1>1, <1>2, UseInvariant, PTL
=============================================================================
