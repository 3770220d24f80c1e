------------------------ MODULE RevocationFeedProofs ------------------------
(***************************************************************************)
(* Proofs about RevocationFeed, for any packs, window, limit and clock.     *)
(***************************************************************************)
EXTENDS RevocationFeed, FiniteSetTheorems, WellFoundedInduction, TLAPS

\* TypeOK, with no stamp ahead of the database's clock; a revocation is under way or in the
\* table, and so far there are finitely many.
Types ==
    /\ now \in (Window + Skew)..MaxTime
    /\ begun \in [Pack -> (0..now) \cup {None}]
    /\ revokedAt \in [Pack -> (0..now) \cup {None}]
    /\ IsFiniteSet(Revoked \cup Open) /\ Revoked \cap Open = {}
    /\ pc \in {"idle", "query", "answer"}
    /\ since \in 0..(now + Skew)
    /\ fetched \subseteq Revoked /\ Cardinality(fetched) <= Limit + 1
    /\ cursor \in (0..(now + Skew)) \cup {None}
    /\ complete \in BOOLEAN
    /\ got \subseteq Revoked
    /\ matched \subseteq Revoked
    /\ raced \subseteq Pack /\ behind \subseteq Pack /\ aged \subseteq Revoked

Excused == raced \cup behind \cup Tied \cup aged

\* A revocation that commits behind the cursor is excused: it overlapped the
\* request that brought the cursor, or began behind it.
CrossedIsExcused ==
    cursor # None => \A p \in Open: begun[p] <= cursor => p \in raced \cup behind

\* While a request is under way, what it does not ask for is excused, and so is
\* what may be committed behind its back.
AskedForTheRest ==
    pc # "idle" =>
        /\ ~complete
        /\ Open \subseteq raced
        /\ \A p \in Revoked \ got: revokedAt[p] <= since => p \in Excused

\* The answer is made of what matched, and what matched not is excused.
FetchedTheFirst ==
    pc = "answer" =>
        /\ fetched \in First(matched, Limit + 1)
        /\ \A p \in Revoked: revokedAt[p] > since => p \in matched \cup raced

FeedInv ==
    /\ Types /\ CrossedIsExcused /\ AskedForTheRest /\ FetchedTheFirst
    /\ OnlyRacesAreMissed /\ CompleteMeansAll

-----------------------------------------------------------------------------
\* The library's Max and Min.
LEMMA TwoNumbers ==
    ASSUME NEW m \in Nat, NEW n \in Nat
    PROVE  /\ Max({m, n}) = IF m >= n THEN m ELSE n
           /\ Min({m, n}) = IF m <= n THEN m ELSE n
<1>1. \A x \in {m, n}: (\A y \in {m, n}: x >= y) <=> x = IF m >= n THEN m ELSE n
  OBVIOUS
<1>2. \A x \in {m, n}: (\A y \in {m, n}: x <= y) <=> x = IF m <= n THEN m ELSE n
  OBVIOUS
<1>3. QED
  BY <1>1, <1>2 DEF Max, Min

LEMMA MaxOfBounded ==
    ASSUME NEW n \in Nat, NEW T, T \subseteq 0..n, T # {}
    PROVE  Max(T) \in T /\ \A t \in T: t <= Max(T)
<1> DEFINE Distance == {n - t: t \in T}
<1>1. Distance \subseteq Nat /\ Distance # {}
  OBVIOUS
<1> HIDE DEF Distance
<1>2. PICK d \in Distance: \A e \in Distance: ~(<<e, d>> \in OpToRel(<, Nat))
  BY <1>1, NatLessThanWellFounded, WFMin
<1>3. \A e \in Distance: ~(e < d)
  BY <1>1, <1>2 DEF OpToRel
<1>4. PICK t \in T: d = n - t
  BY DEF Distance
<1>5. \A u \in T: u <= t
  <2>1. ASSUME NEW u \in T PROVE u <= t
    <3>1. n - u \in Distance
      BY DEF Distance
    <3>2. ~(n - u < n - t)
      BY <1>3, <1>4, <3>1
    <3>3. QED
      BY <3>2
  <2>2. QED
    BY <2>1
<1>6. \E x \in T: \A y \in T: x >= y
  BY <1>5
<1>7. Max(T) \in T /\ \A y \in T: Max(T) >= y
  BY <1>6 DEF Max
<1>8. QED
  BY <1>7

\* The first n of a set: no more than n, and all of them if there are fewer.
LEMMA FirstOnes ==
    ASSUME NEW n \in Nat, NEW set, IsFiniteSet(set), NEW s \in First(set, n)
    PROVE  /\ s \subseteq set /\ IsFiniteSet(s)
           /\ Cardinality(s) \in Nat /\ Cardinality(s) <= n
           /\ Cardinality(s) < n => s = set
           /\ \A p \in s, q \in set \ s: revokedAt[p] <= revokedAt[q]
<1>1. /\ s \subseteq set
      /\ Cardinality(s) = Min({n, Cardinality(set)})
      /\ \A p \in s, q \in set \ s: revokedAt[p] <= revokedAt[q]
  BY DEF First
<1>2. Cardinality(set) \in Nat /\ IsFiniteSet(s)
  BY <1>1, FS_Subset, FS_CardinalityType
<1>3. Cardinality(s) = IF n <= Cardinality(set) THEN n ELSE Cardinality(set)
  BY <1>1, <1>2, TwoNumbers
<1>4. Cardinality(s) < n => Cardinality(s) = Cardinality(set)
  BY <1>2, <1>3
<1>5. Cardinality(s) < n => s = set
  BY <1>1, <1>2, <1>4, FS_Subset
<1>6. QED
  BY <1>1, <1>2, <1>3, <1>5

LEMMA Constants ==
    /\ Limit \in Nat \ {0} /\ Window \in Nat \ {0} /\ Skew \in Nat
    /\ MaxTime \in Nat /\ MaxTime >= Window + Skew
    /\ None \notin 0..(MaxTime + Skew)
BY FeedAssumption

\* What Types says of times.
LEMMA Times ==
    ASSUME Types
    PROVE  /\ now \in Nat /\ Window + Skew <= now /\ None \notin 0..now
           /\ cursor # None => cursor \in 0..(now + Skew)
           /\ \A p \in Revoked: p \in Pack /\ revokedAt[p] \in 0..now
           /\ \A p \in Open: p \in Pack /\ begun[p] \in 0..now
           /\ IsFiniteSet(Revoked)
<1>1. now \in Nat /\ Window + Skew <= now /\ None \notin 0..now
  BY Constants DEF Types
<1>2. IsFiniteSet(Revoked)
  BY FS_Subset DEF Types
<1>3. QED
  BY <1>1, <1>2 DEF Types, Revoked, Open

LEMMA FeedInit == Init => FeedInv
<1> SUFFICES ASSUME Init PROVE FeedInv
  OBVIOUS
<1>1. Revoked = {} /\ Open = {}
  BY DEF Init, Revoked, Open
<1>2. IsFiniteSet({}) /\ Cardinality({}) = 0
  BY FS_EmptySet
<1>3. Types
  <2>1. now \in (Window + Skew)..MaxTime /\ since \in 0..(now + Skew)
    BY Constants DEF Init
  <2>2. IsFiniteSet(Revoked \cup Open) /\ Revoked \cap Open = {}
    BY <1>1, <1>2
  <2>3. fetched \subseteq Revoked /\ Cardinality(fetched) <= Limit + 1
    BY <1>2, Constants DEF Init
  <2>4. QED
    BY <2>1, <2>2, <2>3 DEF Init, Types
<1>4. QED
  BY <1>1, <1>3 DEF Init, FeedInv, CrossedIsExcused, AskedForTheRest, FetchedTheFirst,
     OnlyRacesAreMissed, Missed, CompleteMeansAll

\* What a revocation may do: begin, commit or fail.
LEMMA BeginRevokeStep ==
    ASSUME FeedInv, NEW p \in Pack, BeginRevoke(p) PROVE FeedInv'
<1>1. /\ p \notin Revoked \cup Open
      /\ begun' = [begun EXCEPT ![p] = now]
      /\ raced' = IF pc # "idle" THEN raced \cup {p} ELSE raced
      /\ behind' = IF cursor # None /\ now <= cursor THEN behind \cup {p} ELSE behind
      /\ now' = now /\ revokedAt' = revokedAt
      /\ pc' = pc /\ since' = since /\ fetched' = fetched /\ cursor' = cursor
      /\ complete' = complete /\ got' = got /\ matched' = matched /\ aged' = aged
  BY DEF BeginRevoke, feed
<1>2. Types
  BY DEF FeedInv
<1>3. /\ begun'[p] = now /\ \A q \in Pack: q # p => begun'[q] = begun[q]
      /\ now # None
  BY <1>1, <1>2, Times DEF Types
<1>4. Revoked' = Revoked /\ Open' = Open \cup {p}
  BY <1>1, <1>3 DEF Revoked, Open
<1>5. Types'
  <2>1. IsFiniteSet(Revoked' \cup Open')
    <3>1. Revoked' \cup Open' = (Revoked \cup Open) \cup {p}
      BY <1>4
    <3>2. QED
      BY <1>2, <3>1, FS_AddElement DEF Types
  <2>2. Revoked' \cap Open' = {}
    BY <1>1, <1>2, <1>4 DEF Types
  <2>3. begun' \in [Pack -> (0..now) \cup {None}]
    BY <1>1, <1>2, Times DEF Types
  <2>4. raced' \subseteq Pack /\ behind' \subseteq Pack
    BY <1>1, <1>2 DEF Types
  <2>5. QED
    BY <1>1, <1>2, <1>4, <2>1, <2>2, <2>3, <2>4 DEF Types
<1>6. CrossedIsExcused'
  BY <1>1, <1>2, <1>3, <1>4, Times DEF FeedInv, CrossedIsExcused
<1>7. Tied' = Tied /\ Excused \subseteq Excused'
  BY <1>1, <1>4 DEF Tied, Excused
<1>8. AskedForTheRest' /\ FetchedTheFirst'
  BY <1>1, <1>4, <1>7 DEF FeedInv, AskedForTheRest, FetchedTheFirst, First
<1>9. OnlyRacesAreMissed' /\ CompleteMeansAll'
  BY <1>1, <1>4, <1>7 DEF FeedInv, OnlyRacesAreMissed, Missed, Excused, CompleteMeansAll
<1>10. QED
  BY <1>5, <1>6, <1>8, <1>9 DEF FeedInv

LEMMA CommitRevokeStep ==
    ASSUME FeedInv, NEW p \in Pack, CommitRevoke(p) PROVE FeedInv'
<1>1. /\ p \in Open
      /\ revokedAt' = [revokedAt EXCEPT ![p] = begun[p]]
      /\ begun' = [begun EXCEPT ![p] = None]
      /\ now' = now /\ raced' = raced /\ behind' = behind
      /\ pc' = pc /\ since' = since /\ fetched' = fetched /\ cursor' = cursor
      /\ complete' = complete /\ got' = got /\ matched' = matched /\ aged' = aged
  BY DEF CommitRevoke, feed
<1>2. Types
  BY DEF FeedInv
<1>3. /\ begun[p] \in 0..now /\ begun[p] # None /\ p \notin Revoked
  BY <1>1, <1>2, Times DEF Types
<1>4. /\ revokedAt'[p] = begun[p] /\ begun'[p] = None
      /\ \A q \in Pack: q # p => revokedAt'[q] = revokedAt[q] /\ begun'[q] = begun[q]
  BY <1>1, <1>2 DEF Types
<1>5. /\ Revoked' = Revoked \cup {p} /\ Open' = Open \ {p}
      /\ \A q \in Revoked: revokedAt'[q] = revokedAt[q]
  BY <1>3, <1>4 DEF Revoked, Open
<1>6. Types'
  <2>1. Revoked' \cup Open' = Revoked \cup Open
    BY <1>1, <1>5
  <2>2. IsFiniteSet(Revoked' \cup Open') /\ Revoked' \cap Open' = {}
    BY <1>2, <1>3, <1>5, <2>1 DEF Types
  <2>3. /\ begun' \in [Pack -> (0..now) \cup {None}]
        /\ revokedAt' \in [Pack -> (0..now) \cup {None}]
    BY <1>1, <1>2, <1>3 DEF Types
  <2>4. QED
    BY <1>1, <1>2, <1>5, <2>2, <2>3 DEF Types
<1>7. CrossedIsExcused'
  BY <1>1, <1>2, <1>4, <1>5, Times DEF FeedInv, CrossedIsExcused
<1>8. Excused \subseteq Excused'
  <2>1. Tied \subseteq Tied'
    BY <1>1, <1>2, <1>5 DEF Tied, Types
  <2>2. QED
    BY <1>1, <2>1 DEF Excused
<1>9. AskedForTheRest'
  BY <1>1, <1>5, <1>8 DEF FeedInv, AskedForTheRest, Excused
<1>10. FetchedTheFirst'
  <2> SUFFICES ASSUME pc = "answer" PROVE FetchedTheFirst'
    BY <1>1 DEF FetchedTheFirst
  <2>1. (fetched \in First(matched, Limit + 1))'
    <3>1. /\ fetched \in First(matched, Limit + 1) /\ matched \subseteq Revoked
          /\ fetched \subseteq matched
      BY <1>2 DEF FeedInv, FetchedTheFirst, First, Types
    <3>2. \A x, y \in matched: (revokedAt[x] <= revokedAt[y])' <=> revokedAt[x] <= revokedAt[y]
      BY <1>5, <3>1
    <3>3. QED
      BY <1>1, <3>1, <3>2 DEF First
  <2>2. p \in raced
    BY <1>1 DEF FeedInv, AskedForTheRest
  <2>3. QED
    <3>1. \A q \in Revoked': revokedAt'[q] > since' => q \in matched' \cup raced'
      BY <1>1, <1>5, <2>2 DEF FeedInv, FetchedTheFirst
    <3>2. QED
      BY <2>1, <3>1 DEF FetchedTheFirst
<1>11. OnlyRacesAreMissed'
  BY <1>1, <1>4, <1>5, <1>8 DEF FeedInv, CrossedIsExcused, OnlyRacesAreMissed, Missed, Excused
<1>12. CompleteMeansAll'
  BY <1>1 DEF FeedInv, CompleteMeansAll
<1>13. QED
  BY <1>6, <1>7, <1>9, <1>10, <1>11, <1>12 DEF FeedInv

LEMMA AbortRevokeStep ==
    ASSUME FeedInv, NEW p \in Pack, AbortRevoke(p) PROVE FeedInv'
<1>1. /\ p \in Open
      /\ begun' = [begun EXCEPT ![p] = None]
      /\ raced' = raced \ {p} /\ behind' = behind \ {p}
      /\ now' = now /\ revokedAt' = revokedAt
      /\ pc' = pc /\ since' = since /\ fetched' = fetched /\ cursor' = cursor
      /\ complete' = complete /\ got' = got /\ matched' = matched /\ aged' = aged
  BY DEF AbortRevoke, feed
<1>2. Types
  BY DEF FeedInv
<1>3. /\ begun'[p] = None /\ \A q \in Pack: q # p => begun'[q] = begun[q]
      /\ p \notin Revoked
  BY <1>1, <1>2 DEF Types
<1>4. Revoked' = Revoked /\ Open' = Open \ {p}
  BY <1>1, <1>3 DEF Revoked, Open
<1>5. Types'
  <2>1. IsFiniteSet(Revoked' \cup Open')
    <3>1. Revoked' \cup Open' \subseteq Revoked \cup Open
      BY <1>4
    <3>2. QED
      BY <1>2, <3>1, FS_Subset DEF Types
  <2>2. /\ begun' \in [Pack -> (0..now) \cup {None}]
        /\ raced' \subseteq Pack /\ behind' \subseteq Pack
    BY <1>1, <1>2 DEF Types
  <2>3. QED
    BY <1>1, <1>2, <1>4, <2>1, <2>2 DEF Types
<1>6. CrossedIsExcused'
  BY <1>1, <1>2, <1>3, <1>4, Times DEF FeedInv, CrossedIsExcused
<1>7. Excused \cap Revoked \subseteq Excused'
  BY <1>1, <1>3, <1>4 DEF Tied, Excused
<1>8. AskedForTheRest' /\ FetchedTheFirst'
  BY <1>1, <1>3, <1>4, <1>7 DEF FeedInv, AskedForTheRest, FetchedTheFirst, First
<1>9. OnlyRacesAreMissed' /\ CompleteMeansAll'
  BY <1>1, <1>4, <1>7 DEF FeedInv, OnlyRacesAreMissed, Missed, Excused, CompleteMeansAll
<1>10. QED
  BY <1>5, <1>6, <1>8, <1>9 DEF FeedInv

\* What a request does not ask for: what is behind the cursor, and what is older
\* than the window.
LEMMA AskStep ==
    ASSUME FeedInv, Ask PROVE FeedInv'
<1>0. PICK time \in InstanceTimes:
        /\ since' = IF cursor = None THEN WindowStart(time)
                    ELSE Max({cursor, WindowStart(time)})
        /\ aged' = aged \cup {q \in Revoked: revokedAt[q] <= WindowStart(time)}
  BY DEF Ask
<1> DEFINE start == WindowStart(time)
<1>1. /\ pc = "idle" /\ pc' = "query" /\ complete' = FALSE
      /\ since' = IF cursor = None THEN start ELSE Max({cursor, start})
      /\ raced' = raced \cup Open /\ behind' = behind
      /\ aged' = aged \cup {q \in Revoked: revokedAt[q] <= start}
      /\ now' = now /\ begun' = begun /\ revokedAt' = revokedAt /\ fetched' = fetched
      /\ cursor' = cursor /\ got' = got /\ matched' = matched
  BY <1>0 DEF Ask
<1>2. Types
  BY DEF FeedInv
<1>3. Revoked' = Revoked /\ Open' = Open
  BY <1>1 DEF Revoked, Open
<1>4. start \in 0..(now + Skew)
  BY <1>2, Times, Constants DEF WindowStart, InstanceTimes
<1> HIDE DEF start
<1>5. /\ cursor = None => since' = start
      /\ cursor # None => since' = IF cursor >= start THEN cursor ELSE start
  <2>1. cursor # None => cursor \in Nat
    BY <1>2, Times
  <2>2. start \in Nat
    BY <1>2, <1>4, Times, Constants
  <2>3. QED
    BY <1>1, <2>1, <2>2, TwoNumbers
<1>6. Types'
  <2>1. since' \in 0..(now + Skew)
    BY <1>2, <1>4, <1>5, Times
  <2>2. raced' \subseteq Pack /\ aged' \subseteq Revoked
    BY <1>1, <1>2, Times DEF Types
  <2>3. QED
    BY <1>1, <1>2, <1>3, <2>1, <2>2 DEF Types
<1>7. CrossedIsExcused'
  BY <1>1, <1>3 DEF FeedInv, CrossedIsExcused
<1>8. Excused \subseteq Excused'
  BY <1>1, <1>3 DEF Tied, Excused
<1>9. OnlyRacesAreMissed'
  BY <1>1, <1>3, <1>8 DEF FeedInv, OnlyRacesAreMissed, Missed, Excused
<1>10. AskedForTheRest'
  <2>1. ASSUME NEW q \in Revoked \ got, revokedAt[q] <= since'
        PROVE  q \in Excused'
    <3>1. CASE revokedAt[q] <= start
      BY <1>1, <2>1, <3>1 DEF Excused
    <3>2. CASE cursor # None /\ revokedAt[q] <= cursor
      BY <1>8, <2>1, <3>2 DEF FeedInv, OnlyRacesAreMissed, Missed, Excused
    <3>3. QED
      BY <1>5, <2>1, <3>1, <3>2
  <2>2. QED
    BY <1>1, <1>3, <2>1 DEF AskedForTheRest
<1>11. FetchedTheFirst' /\ CompleteMeansAll'
  BY <1>1 DEF FetchedTheFirst, CompleteMeansAll
<1>12. QED
  BY <1>6, <1>7, <1>9, <1>10, <1>11 DEF FeedInv

LEMMA ListRevocationsStep ==
    ASSUME FeedInv, ListRevocations PROVE FeedInv'
<1>1. /\ pc = "query" /\ pc' = "answer"
      /\ matched' = After(since)
      /\ fetched' \in First(After(since), Limit + 1)
      /\ now' = now /\ begun' = begun /\ revokedAt' = revokedAt /\ since' = since
      /\ cursor' = cursor /\ complete' = complete /\ got' = got /\ raced' = raced
      /\ behind' = behind /\ aged' = aged
  BY DEF ListRevocations, QueryLimit
<1>2. Types
  BY DEF FeedInv
<1>3. Revoked' = Revoked /\ Open' = Open
  BY <1>1 DEF Revoked, Open
<1>4. After(since) \subseteq Revoked /\ IsFiniteSet(After(since))
  BY <1>2, Times, FS_Subset DEF After
<1>5. fetched' \subseteq After(since) /\ Cardinality(fetched') <= Limit + 1
  BY <1>1, <1>4, Constants, FirstOnes
<1>6. Types'
  BY <1>1, <1>2, <1>3, <1>4, <1>5 DEF Types
<1>7. CrossedIsExcused'
  BY <1>1, <1>3 DEF FeedInv, CrossedIsExcused
<1>8. Excused' = Excused
  BY <1>1, <1>3 DEF Tied, Excused
<1>9. AskedForTheRest'
  BY <1>1, <1>3, <1>8 DEF FeedInv, AskedForTheRest
<1>10. FetchedTheFirst'
  BY <1>1, <1>3 DEF FetchedTheFirst, First, After
<1>11. OnlyRacesAreMissed'
  BY <1>1, <1>3, <1>8 DEF FeedInv, OnlyRacesAreMissed, Missed, Excused
<1>12. CompleteMeansAll'
  BY <1>1 DEF FeedInv, AskedForTheRest, CompleteMeansAll
<1>13. QED
  BY <1>6, <1>7, <1>9, <1>10, <1>11, <1>12 DEF FeedInv

\* What the cursor passes: everything of the batch is told, what is not of the
\* batch and not later than its last shares its time, and what the query did
\* not see is excused.
LEMMA AnswerRevocationsStep ==
    ASSUME FeedInv, AnswerRevocations PROVE FeedInv'
<1>1. PICK batch \in First(fetched, Limit), time \in InstanceTimes:
        /\ pc = "answer" /\ pc' = "idle"
        /\ got' = got \cup batch
        /\ cursor' = IF batch = {} THEN time ELSE Max({revokedAt[p]: p \in batch})
        /\ complete' = (Cardinality(fetched) <= Limit)
        /\ now' = now /\ begun' = begun /\ revokedAt' = revokedAt /\ since' = since
        /\ fetched' = fetched /\ matched' = matched
        /\ raced' = raced /\ behind' = behind /\ aged' = aged
  BY DEF AnswerRevocations
<1>2. Types
  BY DEF FeedInv
<1>3. Revoked' = Revoked /\ Open' = Open
  BY <1>1 DEF Revoked, Open
<1>4. /\ matched \subseteq Revoked /\ IsFiniteSet(matched)
      /\ fetched \in First(matched, Limit + 1)
      /\ \A p \in Revoked: revokedAt[p] > since => p \in matched \cup raced
  BY <1>1, <1>2, Times, FS_Subset DEF Types, FeedInv, FetchedTheFirst
<1>5. /\ fetched \subseteq matched /\ IsFiniteSet(fetched)
      /\ Cardinality(fetched) \in Nat
      /\ Cardinality(fetched) < Limit + 1 => fetched = matched
      /\ \A p \in fetched, q \in matched \ fetched: revokedAt[p] <= revokedAt[q]
  BY <1>4, Constants, FirstOnes
<1>6. /\ batch \subseteq fetched /\ IsFiniteSet(batch)
      /\ Cardinality(batch) \in Nat /\ Cardinality(batch) <= Limit
      /\ Cardinality(batch) < Limit => batch = fetched
      /\ \A p \in batch, q \in fetched \ batch: revokedAt[p] <= revokedAt[q]
  BY <1>1, <1>5, Constants, FirstOnes
<1>7. batch \subseteq Revoked
  BY <1>4, <1>5, <1>6
<1>8. /\ cursor' \in 0..(now + Skew)
      /\ batch # {} => \E q \in batch: cursor' = revokedAt[q]
  <2>1. CASE batch = {}
    <3>1. time \in 0..(now + Skew)
      BY <1>1, <1>2, Times, Constants DEF InstanceTimes
    <3>2. QED
      BY <1>1, <2>1, <3>1
  <2>2. CASE batch # {}
    <3> DEFINE times == {revokedAt[p]: p \in batch}
    <3>1. times \subseteq 0..now /\ times # {}
      BY <1>2, <1>7, <2>2, Times
    <3>2. cursor' = Max(times)
      BY <1>1, <2>2
    <3>3. now \in Nat
      BY <1>2, Times
    <3> HIDE DEF times
    <3>4. cursor' \in times
      BY <3>1, <3>2, <3>3, MaxOfBounded
    <3>5. 0..now \subseteq 0..(now + Skew)
      BY <3>3, Constants
    <3>6. QED
      BY <3>1, <3>4, <3>5 DEF times
  <2>3. QED
    BY <2>1, <2>2
<1>9. Types'
  BY <1>1, <1>2, <1>3, <1>7, <1>8 DEF Types
<1>10. Open \subseteq raced
  BY <1>1 DEF FeedInv, AskedForTheRest
<1>11. CrossedIsExcused'
  BY <1>1, <1>3, <1>10 DEF CrossedIsExcused
<1>12. Excused \subseteq Excused'
  BY <1>1, <1>3 DEF Tied, Excused
<1>13. ASSUME NEW p \in Revoked, p \notin got', revokedAt[p] <= cursor'
       PROVE  p \in Excused'
  <2>1. p \notin got /\ p \notin batch
    BY <1>1, <1>13
  <2>2. /\ since \in Nat /\ revokedAt[p] \in Nat
        /\ \A q \in batch: revokedAt[q] \in Nat
    BY <1>2, <1>7, Times, Constants DEF Types
  <2>3. CASE revokedAt[p] <= since
    BY <1>1, <1>12, <2>1, <2>3 DEF FeedInv, AskedForTheRest
  <2>4. CASE revokedAt[p] > since
    <3>1. CASE p \in raced
      BY <1>1, <3>1 DEF Excused
    <3>2. CASE p \in matched
      <4>1. batch # {}
        <5>1. SUFFICES ASSUME batch = {} PROVE FALSE
          OBVIOUS
        <5>2. Cardinality(batch) = 0
          BY <5>1, FS_EmptySet
        <5>3. batch = fetched
          BY <1>6, <5>2, Constants
        <5>4. fetched = matched
          BY <1>5, <5>2, <5>3, Constants
        <5>5. QED
          BY <3>2, <5>1, <5>3, <5>4
      <4>2. PICK q \in batch: cursor' = revokedAt[q]
        BY <1>8, <4>1
      <4>3. revokedAt[q] <= revokedAt[p]
        BY <1>5, <1>6, <2>1, <3>2
      <4>4. revokedAt[q] = revokedAt[p]
        BY <1>13, <2>2, <4>2, <4>3
      <4>5. p \in Tied'
        BY <1>1, <1>3, <4>4 DEF Tied
      <4>6. QED
        BY <4>5 DEF Excused
    <3>3. QED
      BY <1>4, <2>4, <3>1, <3>2
  <2>5. QED
    BY <2>2, <2>3, <2>4
<1>14. OnlyRacesAreMissed'
  BY <1>1, <1>3, <1>13 DEF OnlyRacesAreMissed, Missed, Excused
<1>15. CompleteMeansAll'
  <2>1. ASSUME Cardinality(fetched) <= Limit PROVE matched \subseteq got'
    <3>1. fetched = matched
      BY <1>5, <2>1, Constants
    <3>2. batch = fetched
      <4>1. CASE Cardinality(batch) < Limit
        BY <1>6, <4>1
      <4>2. CASE Cardinality(batch) = Limit
        <5>1. Cardinality(batch) <= Cardinality(fetched)
          BY <1>5, <1>6, FS_Subset
        <5>2. Cardinality(batch) = Cardinality(fetched)
          BY <1>5, <1>6, <2>1, <4>2, <5>1, Constants
        <5>3. QED
          BY <1>5, <1>6, <5>2, FS_Subset
      <4>3. QED
        BY <1>6, <4>1, <4>2, Constants
    <3>3. QED
      BY <1>1, <3>1, <3>2
  <2>2. QED
    BY <1>1, <2>1 DEF CompleteMeansAll
<1>16. AskedForTheRest' /\ FetchedTheFirst'
  BY <1>1 DEF AskedForTheRest, FetchedTheFirst
<1>17. QED
  BY <1>9, <1>11, <1>14, <1>15, <1>16 DEF FeedInv

LEMMA LoseAnswerStep ==
    ASSUME FeedInv, LoseAnswer PROVE FeedInv'
<1>1. /\ pc # "idle" /\ pc' = "idle"
      /\ now' = now /\ begun' = begun /\ revokedAt' = revokedAt /\ since' = since
      /\ fetched' = fetched /\ cursor' = cursor /\ complete' = complete /\ got' = got
      /\ matched' = matched /\ raced' = raced /\ behind' = behind /\ aged' = aged
  BY DEF LoseAnswer
<1>2. Revoked' = Revoked /\ Open' = Open /\ Tied' = Tied /\ Missed' = Missed
  BY <1>1 DEF Revoked, Open, Tied, Missed
<1>3. QED
  BY <1>1, <1>2 DEF FeedInv, Types, CrossedIsExcused, AskedForTheRest, FetchedTheFirst,
     OnlyRacesAreMissed, CompleteMeansAll

LEMMA TickStep ==
    ASSUME FeedInv, Tick PROVE FeedInv'
<1>1. /\ now < MaxTime /\ now' = now + 1
      /\ begun' = begun /\ revokedAt' = revokedAt /\ raced' = raced /\ behind' = behind
      /\ pc' = pc /\ since' = since /\ fetched' = fetched /\ cursor' = cursor
      /\ complete' = complete /\ got' = got /\ matched' = matched /\ aged' = aged
  BY DEF Tick, feed
<1>2. Types
  BY DEF FeedInv
<1>3. Revoked' = Revoked /\ Open' = Open /\ Tied' = Tied /\ Missed' = Missed
  BY <1>1 DEF Revoked, Open, Tied, Missed
<1>4. Types'
  <2>1. /\ now' \in (Window + Skew)..MaxTime /\ 0..now \subseteq 0..now'
        /\ 0..(now + Skew) \subseteq 0..(now' + Skew)
    BY <1>1, <1>2, Constants DEF Types
  <2>2. QED
    BY <1>1, <1>2, <1>3, <2>1 DEF Types
<1>5. CrossedIsExcused' /\ AskedForTheRest'
  BY <1>1, <1>3 DEF FeedInv, CrossedIsExcused, AskedForTheRest, Excused
<1>6. FetchedTheFirst' /\ OnlyRacesAreMissed' /\ CompleteMeansAll'
  BY <1>1, <1>3 DEF FeedInv, FetchedTheFirst, First, OnlyRacesAreMissed, CompleteMeansAll
<1>7. QED
  BY <1>4, <1>5, <1>6 DEF FeedInv

LEMMA FeedStep == FeedInv /\ [Next]_vars => FeedInv'
<1>1. ASSUME FeedInv, UNCHANGED vars PROVE FeedInv'
  <2>1. /\ now' = now /\ begun' = begun /\ revokedAt' = revokedAt
        /\ raced' = raced /\ behind' = behind
        /\ pc' = pc /\ since' = since /\ fetched' = fetched /\ cursor' = cursor
        /\ complete' = complete /\ got' = got /\ matched' = matched /\ aged' = aged
    BY <1>1 DEF vars, feed
  <2>2. Revoked' = Revoked /\ Open' = Open /\ Tied' = Tied /\ Missed' = Missed
    BY <2>1 DEF Revoked, Open, Tied, Missed
  <2>3. QED
    BY <1>1, <2>1, <2>2 DEF FeedInv, Types, CrossedIsExcused, AskedForTheRest, Excused,
       FetchedTheFirst, First, OnlyRacesAreMissed, CompleteMeansAll
<1>2. QED
  BY <1>1, BeginRevokeStep, CommitRevokeStep, AbortRevokeStep, AskStep,
     ListRevocationsStep, AnswerRevocationsStep, LoseAnswerStep, TickStep DEF Next

LEMMA FeedInvariant == Spec => []FeedInv
BY FeedInit, FeedStep, PTL DEF Spec

\* All state has its type: no cursor is further ahead of the database's clock
\* than an instance's is, and no query is for more rows than tell whether there
\* are more.
THEOREM TypeCorrect == Spec => []TypeOK
<1>1. ASSUME FeedInv PROVE TypeOK
  <2>1. Types
    BY <1>1 DEF FeedInv
  <2>2. 0..now \subseteq Time /\ now \in Time
    BY <2>1, Constants DEF Types, Time
  <2>3. QED
    BY <2>1, <2>2 DEF Types, TypeOK
<1>2. QED
  BY <1>1, FeedInvariant, PTL

\* However far the clocks of the instances are from the database's, the feed loses
\* only revocations that overlapped a request, that began behind a cursor whose
\* instance was ahead, that the limit cut off from another of the same time, or
\* that were older than the window.
THEOREM RestIsDelivered == Spec => []OnlyRacesAreMissed
<1>1. FeedInv => OnlyRacesAreMissed
  BY DEF FeedInv
<1>2. QED
  BY <1>1, FeedInvariant, PTL

\* An answer that says it is complete is.
THEOREM CompleteIsTrue == Spec => []CompleteMeansAll
<1>1. FeedInv => CompleteMeansAll
  BY DEF FeedInv
<1>2. QED
  BY <1>1, FeedInvariant, PTL
=============================================================================
