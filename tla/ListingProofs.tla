--------------------------- MODULE ListingProofs ----------------------------
(***************************************************************************)
(* Proofs about Listing, for every set of rows, every number of requests,   *)
(* every page size and every clock.                                         *)
(***************************************************************************)
EXTENDS Listing, FiniteSetTheorems, TLAPS

Request == [op: Ops, row: Row, matches: BOOLEAN, time: Time]

\* The types of all variables.
Types ==
    /\ kind \in {"marketplace", "packs"}
    /\ now \in Time
    /\ time \in [Row -> Time \cup {None}]
    /\ active \in [Row -> BOOLEAN] /\ matches \in [Row -> BOOLEAN]
    /\ writing \in [Writer -> Request \cup {None, Over}]
    /\ walk \in {"before", "on", "over"}
    /\ cursor \in Cursor \cup {None}
    /\ page \subseteq Row /\ Cardinality(page) <= Limit
    /\ listed \in [Row -> Nat]
    /\ first \subseteq Row /\ touched \subseteq Row /\ sunk \subseteq Row

\* A walk has a cursor between its first answer and its last, and no row was
\* listed before it.
WalkHasCursor ==
    /\ walk = "on" => cursor # None
    /\ walk = "before" => cursor = None /\ \A s \in Row: listed[s] = 0

\* What was listed and can still be listed is not below the cursor, unless its
\* time went back.
ListedIsAbove ==
    walk = "on" => \A s \in Row:
        listed[s] > 0 /\ s \notin sunk => time[s] # None /\ (active[s] => ~Below(s))

\* What has to be listed can still be reached, or its page ended inside a tie.
RestIsBelow ==
    walk = "on" => \A s \in first \ touched:
        /\ s \in Shown
        /\ \/ listed[s] > 0
           \/ Below(s)
           \/ kind = "packs" /\ time[s] \in cuts

WalkInv == WalkHasCursor /\ ListedIsAbove /\ OnlySunkRowsRepeat
RestInv == WalkHasCursor /\ RestIsBelow /\ UntouchedRowsListed

-----------------------------------------------------------------------------
\* The first n rows of a set are rows of it, and no more than n.
LEMMA LeadingIsPart ==
    ASSUME NEW n \in Nat, NEW set, IsFiniteSet(set), NEW p \in Leading(n, set)
    PROVE  /\ p \subseteq set
           /\ IsFiniteSet(p)
           /\ Cardinality(p) <= n
           /\ \A s \in p, t \in set \ p: ~Precedes(t, s)
<1>1. /\ p \subseteq set
      /\ Cardinality(p) = IF Cardinality(set) < n THEN Cardinality(set) ELSE n
      /\ \A s \in p, t \in set \ p: ~Precedes(t, s)
  BY DEF Leading
<1>2. IsFiniteSet(p) /\ Cardinality(set) \in Nat
  BY <1>1, FS_Subset, FS_CardinalityType
<1>3. QED
  BY <1>1, <1>2

\* If they are fewer than n they are all.
LEMMA LeadingIsAll ==
    ASSUME NEW n \in Nat, NEW set, IsFiniteSet(set), NEW p \in Leading(n, set),
           Cardinality(p) < n
    PROVE  p = set
<1>1. /\ p \subseteq set
      /\ Cardinality(p) = IF Cardinality(set) < n THEN Cardinality(set) ELSE n
  BY DEF Leading
<1>2. Cardinality(p) = Cardinality(set)
  BY <1>1
<1>3. QED
  BY <1>1, <1>2, FS_Subset

LEMMA MatchingIsFinite == IsFiniteSet(Matching)
<1>1. Matching \subseteq Row
  BY DEF Matching, Shown
<1>2. QED
  BY <1>1, RowAssumption, FS_Subset

\* A page: rows that match, no more than Limit, the rest of which follow it; if
\* it is the last, there is no rest.
LEMMA PageOfMatching ==
    ASSUME NEW fetched \in Leading(Fetch, Matching), NEW p \in Keep(fetched)
    PROVE  /\ p \subseteq Matching
           /\ Cardinality(p) <= Limit
           /\ \A s \in p, t \in Matching \ p: ~Precedes(t, s)
           /\ ~HasMore(fetched) => p = Matching
<1>1. Fetch \in Nat /\ Limit \in Nat /\ Fetch = Limit + 1
  BY LimitAssumption DEF Fetch
<1>2. /\ fetched \subseteq Matching
      /\ IsFiniteSet(fetched)
      /\ \A s \in fetched, t \in Matching \ fetched: ~Precedes(t, s)
  BY <1>1, LeadingIsPart, MatchingIsFinite
<1>3. p \in Leading(Limit, fetched)
  BY DEF Keep
<1>4. /\ p \subseteq fetched
      /\ Cardinality(p) <= Limit
      /\ \A s \in p, t \in fetched \ p: ~Precedes(t, s)
  BY <1>1, <1>2, <1>3, LeadingIsPart
<1>5. ASSUME ~HasMore(fetched)
      PROVE  p = Matching
  <2>1. Cardinality(fetched) \in Nat /\ Cardinality(fetched) <= Limit
    BY <1>2, <1>1, <1>5, FS_CardinalityType DEF HasMore
  <2>2. fetched = Matching
    BY <1>1, <2>1, LeadingIsAll, MatchingIsFinite
  <2>3. CASE Cardinality(p) < Limit
    BY <1>1, <1>2, <1>3, <2>2, <2>3, LeadingIsAll
  <2>4. CASE Cardinality(p) = Limit
    <3>1. Cardinality(p) = Cardinality(fetched)
      BY <1>1, <1>2, <1>4, <2>1, <2>4, FS_Subset
    <3>2. QED
      BY <1>2, <1>4, <3>1, <2>2, FS_Subset
  <2>5. Cardinality(p) \in Nat
    BY <1>2, <1>4, FS_Subset, FS_CardinalityType
  <2>6. QED
    BY <1>1, <1>4, <2>3, <2>4, <2>5
<1>6. QED
  BY <1>2, <1>4, <1>5

-----------------------------------------------------------------------------
LEMMA TypesInit == Init => Types
<1> SUFFICES ASSUME Init PROVE Types
  OBVIOUS
<1>1. 0 \in Time /\ 1 \in Time
  BY LimitAssumption DEF Time
<1>2. Cardinality({}) = 0 /\ Limit \in Nat
  BY FS_EmptySet, LimitAssumption
<1>3. QED
  BY <1>1, <1>2 DEF Init, Types

LEMMA TypesStep == Types /\ [Next]_vars => Types'
<1> SUFFICES ASSUME Types, [Next]_vars PROVE Types'
  OBVIOUS
<1>1. ASSUME NEW w \in Writer, BeginWrite(w)
      PROVE  Types'
  <2>1. PICK op \in Ops, s \in Row, m \in BOOLEAN:
          writing' = [writing EXCEPT
            ![w] = [op |-> op, row |-> s, matches |-> m, time |-> now]]
    BY <1>1 DEF BeginWrite
  <2>2. [op |-> op, row |-> s, matches |-> m, time |-> now] \in Request
    BY DEF Types, Request
  <2>3. QED
    BY <1>1, <2>1, <2>2 DEF Types, BeginWrite, rows, answers
<1>2. ASSUME NEW w \in Writer, CommitWrite(w)
      PROVE  Types'
  <2> DEFINE t == writing[w]
  <2>1. t \in Request
    BY <1>2 DEF Types, CommitWrite
  <2>2. t.row \in Row /\ t.time \in Time /\ t.matches \in BOOLEAN
    BY <2>1 DEF Request
  <2>3. writing' \in [Writer -> Request \cup {None, Over}]
    BY <1>2 DEF Types, CommitWrite
  <2>4. UNCHANGED <<kind, now, answers>>
    BY <1>2 DEF CommitWrite
  <2>5. /\ time' \in [Row -> Time \cup {None}]
        /\ active' \in [Row -> BOOLEAN] /\ matches' \in [Row -> BOOLEAN]
        /\ touched' \subseteq Row /\ sunk' \subseteq Row
    <3>1. CASE Applies(t)
      BY <1>2, <2>2, <3>1 DEF Types, CommitWrite
    <3>2. CASE ~Applies(t)
      BY <1>2, <3>2 DEF Types, CommitWrite, rows
    <3>3. QED
      BY <3>1, <3>2
  <2>6. QED
    BY <2>3, <2>4, <2>5 DEF Types, answers
<1>3. ASSUME NEW w \in Writer, AbortWrite(w)
      PROVE  Types'
  BY <1>3 DEF Types, AbortWrite, rows, answers
<1>4. ASSUME List
      PROVE  Types'
  <2>1. PICK fetched \in Leading(Fetch, Matching):
        \E p \in Keep(fetched):
         /\ page' = p
         /\ listed' = [s \in Row |-> IF s \in p THEN listed[s] + 1 ELSE listed[s]]
         /\ IF HasMore(fetched)
            THEN /\ \E s \in Last(p): cursor' = [time |-> time[s], row |-> s]
                 /\ walk' = "on"
            ELSE walk' = "over" /\ cursor' = cursor
    BY <1>4 DEF List
  <2>2. PICK p \in Keep(fetched):
         /\ page' = p
         /\ listed' = [s \in Row |-> IF s \in p THEN listed[s] + 1 ELSE listed[s]]
         /\ IF HasMore(fetched)
            THEN /\ \E s \in Last(p): cursor' = [time |-> time[s], row |-> s]
                 /\ walk' = "on"
            ELSE walk' = "over" /\ cursor' = cursor
    BY <2>1
  <2>3. p \subseteq Matching /\ Cardinality(p) <= Limit
    BY PageOfMatching
  <2>4. p \subseteq Row /\ \A s \in p: time[s] \in Time
    BY <2>3 DEF Matching, Shown, Types
  <2>5. \A s \in Last(p): s \in p
    BY DEF Last
  <2>6. walk' \in {"before", "on", "over"} /\ cursor' \in Cursor \cup {None}
    BY <2>2, <2>4, <2>5 DEF Cursor, Types
  <2>7. listed' \in [Row -> Nat]
    BY <2>2 DEF Types
  <2>8. /\ first' \subseteq Row /\ touched' \subseteq Row /\ sunk' \subseteq Row
        /\ UNCHANGED <<kind, now, rows, writing>>
    BY <1>4 DEF List, Types, Shown
  <2>9. QED
    BY <2>2, <2>3, <2>4, <2>6, <2>7, <2>8 DEF Types, rows
<1>5. ASSUME Tick
      PROVE  Types'
  <2>1. now' \in Time
    BY <1>5, LimitAssumption DEF Tick, Types, Time
  <2>2. QED
    BY <1>5, <2>1 DEF Tick, Types, rows, answers
<1>6. ASSUME UNCHANGED vars
      PROVE  Types'
  BY <1>6 DEF vars, Types, rows, answers
<1>7. QED
  BY <1>1, <1>2, <1>3, <1>4, <1>5, <1>6 DEF Next

\* The types hold in every reachable state: an answer never has more rows than
\* a page, however many rows share a time (take(limit) after a fetch of limit+1).
THEOREM TypeCorrect == Spec => []TypeOK
<1>1. Types => TypeOK
  BY DEF Types, TypeOK
<1>2. QED
  BY <1>1, TypesInit, TypesStep, PTL DEF Spec

-----------------------------------------------------------------------------
\* Rows that come after the last row of a page, or are it, are not below it.
LEMMA PageIsAboveCursor ==
    ASSUME Types, NEW p \in SUBSET Matching, NEW l \in Last(p),
           NEW s \in p
    PROVE  ~(time[s] < time[l] \/ (kind = "marketplace" /\ time[s] = time[l] /\ s < l))
<1>1. l \in p /\ ~Precedes(l, s)
  BY DEF Last
<1>2. /\ s \in Nat /\ l \in Nat
      /\ time[s] \in Nat /\ time[l] \in Nat
  BY <1>1, RowAssumption DEF Matching, Shown, Types, Time
<1>3. QED
  BY <1>1, <1>2 DEF Precedes

-----------------------------------------------------------------------------
\* What an answer does, in one place.
LEMMA AnswerOfList ==
    ASSUME List
    PROVE  \E p \in SUBSET Matching:
             /\ \A s \in p, t \in Matching \ p: ~Precedes(t, s)
             /\ listed' = [s \in Row |-> IF s \in p THEN listed[s] + 1 ELSE listed[s]]
             /\ \/ walk' = "on" /\ \E l \in Last(p):
                     /\ cursor' = [time |-> time[l], row |-> l]
                     /\ cuts' = cuts \cup {time[l]}
                \/ walk' = "over" /\ p = Matching /\ cursor' = cursor
<1>1. PICK fetched \in Leading(Fetch, Matching):
      \E p \in Keep(fetched):
       /\ listed' = [s \in Row |-> IF s \in p THEN listed[s] + 1 ELSE listed[s]]
       /\ IF HasMore(fetched)
          THEN /\ \E l \in Last(p):
                    /\ cursor' = [time |-> time[l], row |-> l]
                    /\ cuts' = cuts \cup {time[l]}
               /\ walk' = "on"
          ELSE walk' = "over" /\ cursor' = cursor
  BY DEF List
<1>2. PICK p \in Keep(fetched):
       /\ listed' = [s \in Row |-> IF s \in p THEN listed[s] + 1 ELSE listed[s]]
       /\ IF HasMore(fetched)
          THEN /\ \E l \in Last(p):
                    /\ cursor' = [time |-> time[l], row |-> l]
                    /\ cuts' = cuts \cup {time[l]}
               /\ walk' = "on"
          ELSE walk' = "over" /\ cursor' = cursor
  BY <1>1
<1>3. /\ p \in SUBSET Matching
      /\ \A s \in p, t \in Matching \ p: ~Precedes(t, s)
      /\ ~HasMore(fetched) => p = Matching
  BY PageOfMatching
<1>4. QED
  BY <1>2, <1>3

LEMMA ListKeepsRows ==
    List => kind' = kind /\ time' = time /\ active' = active /\ matches' = matches
BY DEF List, rows

\* A cursor is no None.
LEMMA CursorIsSome ==
    ASSUME Types, NEW l \in Row, time[l] \in Time
    PROVE  [time |-> time[l], row |-> l] # None
<1>1. time[l] \in Nat /\ l \in Nat
  BY RowAssumption DEF Time
<1>2. [time |-> time[l], row |-> l] \in [time: Nat, row: Nat]
  BY <1>1
<1>3. QED
  BY <1>2, NoneAssumption

LEMMA CursorStep == Types /\ WalkHasCursor /\ [Next]_vars => WalkHasCursor'
<1> SUFFICES ASSUME Types, WalkHasCursor, [Next]_vars PROVE WalkHasCursor'
  OBVIOUS
<1>1. CASE List
  <2>1. PICK p \in SUBSET Matching:
             \/ walk' = "on" /\ \E l \in Last(p):
                     cursor' = [time |-> time[l], row |-> l]
             \/ walk' = "over"
    BY <1>1, AnswerOfList
  <2>2. ASSUME NEW l \in Last(p)
        PROVE  [time |-> time[l], row |-> l] # None
    <3>1. l \in Row /\ time[l] \in Time
      BY DEF Last, Matching, Shown, Types
    <3>2. QED
      BY <3>1, CursorIsSome
  <2>3. QED
    BY <2>1, <2>2 DEF WalkHasCursor
<1>2. CASE UNCHANGED answers
  BY <1>2 DEF WalkHasCursor, answers
<1>3. [Next]_vars => List \/ UNCHANGED answers
  BY DEF Next, BeginWrite, CommitWrite, AbortWrite, Tick, vars
<1>4. QED
  BY <1>1, <1>2, <1>3

\* An update that does not sink its row leaves it where it was or above.
LEMMA WriteRaises ==
    ASSUME Types, NEW w \in Writer, CommitWrite(w), NEW s \in Row,
           s \notin sunk', time[s] # None
    PROVE  /\ s \notin sunk
           /\ time'[s] # None
           /\ active'[s] => active[s] /\ time'[s] >= time[s]
<1> DEFINE t == writing[w]
<1>1. t \in Request
  BY DEF Types, CommitWrite
<1>2. t.row \in Row /\ t.time \in Time /\ t.op \in Ops
  BY <1>1 DEF Request
<1>3. time[s] \in Nat /\ t.time \in Nat
  BY <1>2 DEF Types, Time
<1>4. CASE ~Applies(t)
  BY <1>3, <1>4 DEF CommitWrite, rows
<1>5. CASE Applies(t)
  <2>1. /\ time' = [time EXCEPT ![t.row] = t.time]
        /\ active' = [active EXCEPT ![t.row] = t.op # "retire"]
        /\ sunk' = IF t.op = "update" /\ t.time < time[t.row]
                   THEN sunk \cup {t.row} ELSE sunk
    BY <1>5 DEF CommitWrite
  <2>2. CASE s # t.row
    BY <1>3, <2>1, <2>2 DEF Types
  <2>3. CASE s = t.row
    <3>1. t.op # "insert" /\ active[s]
      BY <1>5, <2>3 DEF Applies
    <3>2. time'[s] = t.time
      BY <1>2, <2>1, <2>3 DEF Types
    <3>3. active'[s] => t.op = "update"
      BY <1>2, <2>1, <2>3, <3>1 DEF Types, Ops
    <3>4. s \notin sunk /\ ~(t.op = "update" /\ t.time < time[s])
      BY <2>1, <2>3
    <3>5. t.time # None
      BY <1>3, NoneAssumption
    <3>6. QED
      BY <1>3, <3>1, <3>2, <3>3, <3>4, <3>5
  <2>4. QED
    BY <2>2, <2>3
<1>6. QED
  BY <1>4, <1>5

-----------------------------------------------------------------------------
LEMMA WalkInit == Init => WalkInv /\ RestInv
BY DEF Init, WalkInv, RestInv, WalkHasCursor, ListedIsAbove, RestIsBelow,
       OnlySunkRowsRepeat, UntouchedRowsListed

LEMMA WalkStep == Types /\ WalkInv /\ [Next]_vars => WalkInv'
<1> SUFFICES ASSUME Types, WalkInv, [Next]_vars PROVE WalkInv'
  OBVIOUS
<1>1. WalkHasCursor'
  BY CursorStep DEF WalkInv
<1>2. CASE UNCHANGED <<kind, rows, answers, sunk>>
  BY <1>1, <1>2 DEF WalkInv, rows, answers, ListedIsAbove, Below, OnlySunkRowsRepeat
<1>3. ASSUME NEW w \in Writer, CommitWrite(w)
      PROVE  ListedIsAbove' /\ OnlySunkRowsRepeat'
  <2>1. UNCHANGED <<kind, walk, cursor, listed>> /\ sunk \subseteq sunk'
    BY <1>3 DEF CommitWrite, answers
  <2>2. OnlySunkRowsRepeat'
    BY <2>1 DEF WalkInv, OnlySunkRowsRepeat
  <2>3. ASSUME walk' = "on", NEW s \in Row, listed'[s] > 0, s \notin sunk'
        PROVE  time'[s] # None /\ (active'[s] => ~Below(s)')
    <3>1. walk = "on" /\ listed[s] > 0 /\ s \notin sunk
      BY <2>1, <2>3
    <3>2. time[s] # None /\ (active[s] => ~Below(s))
      BY <3>1 DEF WalkInv, ListedIsAbove
    <3>3. time'[s] # None /\ (active'[s] => active[s] /\ time'[s] >= time[s])
      BY <1>3, <2>3, <3>2, WriteRaises
    <3>4. ASSUME active'[s]
          PROVE  ~Below(s)'
      <4>1. ~Below(s) /\ time'[s] >= time[s]
        BY <3>2, <3>3, <3>4
      <4>2. /\ cursor # None /\ cursor.time \in Nat
            /\ time[s] >= cursor.time
            /\ ~(kind = "marketplace" /\ time[s] = cursor.time /\ s < cursor.row)
        BY <3>2, <4>1 DEF Below, Types, Cursor, Time
      <4>3. time[s] \in Nat
        BY <3>2 DEF Types, Time
      <4>4. time'[s] \in Nat
        BY <3>3, TypesStep DEF Types, Time
      <4> DEFINE u == time'[s]
      <4>5. /\ ~(u < cursor.time)
            /\ ~(kind = "marketplace" /\ u = cursor.time /\ s < cursor.row)
        <5> u \in Nat /\ u >= time[s]
          BY <4>1, <4>4
        <5> HIDE DEF u
        <5> QED
          BY <4>2, <4>3
      <4>6. QED
        BY <2>1, <4>2, <4>5 DEF Below
    <3>5. QED
      BY <3>3, <3>4
  <2>4. QED
    BY <2>2, <2>3 DEF ListedIsAbove
<1>4. ASSUME List
      PROVE  ListedIsAbove' /\ OnlySunkRowsRepeat'
  <2>1. PICK p \in SUBSET Matching:
          /\ listed' = [s \in Row |-> IF s \in p THEN listed[s] + 1 ELSE listed[s]]
          /\ \/ walk' = "on" /\ \E l \in Last(p):
                  cursor' = [time |-> time[l], row |-> l]
             \/ walk' = "over"
    BY <1>4, AnswerOfList
  <2>2. /\ kind' = kind /\ time' = time /\ active' = active
        /\ walk = "before" \/ (walk = "on" /\ sunk' = sunk)
    <3>1. walk # "over" /\ (walk # "before" => sunk' = sunk)
      BY <1>4 DEF List
    <3>2. walk \in {"before", "on", "over"}
      BY DEF Types
    <3>3. QED
      BY <1>4, <3>1, <3>2, ListKeepsRows
  <2>3. \A s \in p: s \in Row /\ time[s] # None /\ active[s] /\ Below(s)
    BY DEF Matching, Shown
  <2>4. \A s \in Row: listed[s] \in Nat
    BY DEF Types
  <2>5. OnlySunkRowsRepeat'
    <3>1. ASSUME NEW s \in Row, listed'[s] > 1
          PROVE  s \in sunk'
      <4>1. CASE walk = "before"
        BY <2>1, <2>4, <3>1, <4>1 DEF WalkInv, WalkHasCursor
      <4>2. CASE walk = "on" /\ sunk' = sunk
        <5>1. CASE s \in p
          <6>1. listed[s] > 0
            BY <2>1, <2>4, <3>1, <5>1
          <6>2. QED
            BY <2>3, <4>2, <5>1, <6>1 DEF WalkInv, ListedIsAbove
        <5>2. CASE s \notin p
          BY <2>1, <2>4, <3>1, <4>2, <5>2 DEF WalkInv, OnlySunkRowsRepeat
        <5>3. QED
          BY <5>1, <5>2
      <4>3. QED
        BY <2>2, <4>1, <4>2
    <3>2. QED
      BY <3>1 DEF OnlySunkRowsRepeat
  <2>6. ListedIsAbove'
    <3> SUFFICES ASSUME walk' = "on", NEW s \in Row, listed'[s] > 0, s \notin sunk'
                 PROVE  time[s] # None /\ (active[s] => ~Below(s)')
      BY <2>2 DEF ListedIsAbove
    <3>1. PICK l \in Last(p): cursor' = [time |-> time[l], row |-> l]
      BY <2>1
    <3>2. l \in p /\ l \in Row /\ time[l] \in Nat /\ l \in Nat /\ s \in Nat
      <4>1. l \in p
        BY DEF Last
      <4>2. l \in Row /\ time[l] \in Time
        BY <2>3, <4>1 DEF Types
      <4>3. QED
        BY <4>1, <4>2, RowAssumption DEF Time
    <3>3. /\ cursor' # None /\ cursor'.time = time[l] /\ cursor'.row = l
      BY <1>1, <3>1 DEF WalkHasCursor
    <3>4. Below(s)' =>
            time[s] < time[l] \/ (kind = "marketplace" /\ time[s] = time[l] /\ s < l)
      BY <2>2, <3>3 DEF Below
    <3>5. CASE s \in p
      BY <2>3, <3>4, <3>5, PageIsAboveCursor
    <3>6. CASE s \notin p
      <4>1. listed[s] > 0 /\ walk = "on" /\ s \notin sunk
        BY <2>1, <2>2, <3>6 DEF WalkInv, WalkHasCursor
      <4>2. time[s] # None /\ (active[s] => ~Below(s))
        BY <4>1 DEF WalkInv, ListedIsAbove
      <4>3. Below(l) /\ cursor # None
        BY <2>3, <3>2, <4>1 DEF WalkInv, WalkHasCursor
      <4>4. time[s] \in Nat /\ cursor.time \in Nat /\ cursor.row \in Nat
        <5>1. time \in [Row -> Time \cup {None}] /\ cursor \in Cursor \cup {None}
          BY DEF Types
        <5>2. time[s] \in Time /\ cursor \in Cursor
          BY <4>2, <4>3, <5>1
        <5>3. cursor.time \in Time /\ cursor.row \in Row
          BY <5>2 DEF Cursor
        <5>4. \A t \in Time: t \in Nat
          BY DEF Time
        <5>5. cursor.row \in Nat
          BY <5>3, RowAssumption
        <5>6. QED
          BY <5>2, <5>3, <5>4, <5>5
      <4>5. QED
        BY <3>2, <3>4, <4>2, <4>3, <4>4 DEF Below
    <3>7. QED
      BY <3>5, <3>6
  <2>7. QED
    BY <2>5, <2>6
<1>5. QED
  BY <1>1, <1>2, <1>3, <1>4 DEF Next, BeginWrite, AbortWrite, Tick, vars, WalkInv

\* A walk lists a row twice only if an update with an earlier NOW() committed
\* after another one: handle_marketplace_list's keyset never repeats a service
\* that moves up, or a pack.
THEOREM NoRepeats == Spec => []OnlySunkRowsRepeat
<1>1. Types /\ WalkInv => OnlySunkRowsRepeat
  BY DEF WalkInv
<1>2. Init => Types /\ WalkInv
  BY TypesInit, WalkInit
<1>3. Types /\ WalkInv /\ [Next]_vars => (Types /\ WalkInv)'
  BY TypesStep, WalkStep
<1>4. QED
  BY <1>1, <1>2, <1>3, PTL DEF Spec

-----------------------------------------------------------------------------
\* A write changes one row, and says so.
LEMMA WriteTouches ==
    ASSUME Types, NEW w \in Writer, CommitWrite(w)
    PROVE  /\ touched \subseteq touched'
           /\ UNCHANGED <<kind, walk, cursor, listed, first, cuts>>
           /\ \A s \in Row \ touched':
                time'[s] = time[s] /\ active'[s] = active[s] /\ matches'[s] = matches[s]
<1> DEFINE t == writing[w]
<1>1. UNCHANGED <<kind, walk, cursor, listed, first, cuts>>
  BY DEF CommitWrite, answers
<1>2. CASE ~Applies(t)
  BY <1>1, <1>2 DEF CommitWrite, rows
<1>3. CASE Applies(t)
  <2>1. /\ time' = [time EXCEPT ![t.row] = t.time]
        /\ active' = [active EXCEPT ![t.row] = t.op # "retire"]
        /\ matches' = [matches EXCEPT ![t.row] = IF t.op = "retire" THEN @ ELSE t.matches]
        /\ touched' = touched \cup {t.row}
    BY <1>3 DEF CommitWrite
  <2>2. QED
    BY <1>1, <2>1 DEF Types
<1>4. QED
  BY <1>2, <1>3

LEMMA RestStep == Types /\ RestInv /\ [Next]_vars => RestInv'
<1> SUFFICES ASSUME Types, RestInv, [Next]_vars PROVE RestInv'
  OBVIOUS
<1>1. WalkHasCursor'
  BY CursorStep DEF RestInv
<1>2. CASE UNCHANGED <<kind, rows, answers, touched>>
  BY <1>1, <1>2 DEF RestInv, rows, answers, RestIsBelow, Shown, Below, UntouchedRowsListed
<1>3. ASSUME NEW w \in Writer, CommitWrite(w)
      PROVE  RestIsBelow' /\ UntouchedRowsListed'
  <2>1. /\ kind' = kind /\ walk' = walk /\ cursor' = cursor
        /\ listed' = listed /\ first' = first /\ cuts' = cuts
        /\ touched \subseteq touched'
    BY <1>3, WriteTouches
  <2>2. \A s \in first' \ touched':
          /\ s \in Row /\ s \in first \ touched
          /\ time'[s] = time[s] /\ active'[s] = active[s] /\ matches'[s] = matches[s]
    BY <1>3, <2>1, WriteTouches DEF Types
  <2>3. RestIsBelow'
    <3>1. ASSUME walk' = "on", NEW s \in first' \ touched'
          PROVE  /\ s \in Shown'
                 /\ \/ listed'[s] > 0
                    \/ Below(s)'
                    \/ kind' = "packs" /\ time'[s] \in cuts'
      <4>1. /\ s \in Shown
            /\ listed[s] > 0 \/ Below(s) \/ (kind = "packs" /\ time[s] \in cuts)
        BY <2>1, <2>2, <3>1 DEF RestInv, RestIsBelow
      <4>2. s \in Shown'
        BY <2>2, <4>1 DEF Shown
      <4>3. Below(s) => Below(s)'
        BY <2>1, <2>2 DEF Below
      <4>4. QED
        BY <2>1, <2>2, <4>1, <4>2, <4>3
    <3>2. QED
      BY <3>1 DEF RestIsBelow
  <2>4. UntouchedRowsListed'
    BY <2>1, <2>2 DEF RestInv, UntouchedRowsListed
  <2>5. QED
    BY <2>3, <2>4
<1>4. ASSUME List
      PROVE  RestIsBelow' /\ UntouchedRowsListed'
  <2>1. PICK p \in SUBSET Matching:
          /\ \A s \in p, t \in Matching \ p: ~Precedes(t, s)
          /\ listed' = [s \in Row |-> IF s \in p THEN listed[s] + 1 ELSE listed[s]]
          /\ \/ walk' = "on" /\ \E l \in Last(p):
                  /\ cursor' = [time |-> time[l], row |-> l]
                  /\ cuts' = cuts \cup {time[l]}
             \/ walk' = "over" /\ p = Matching /\ cursor' = cursor
    BY <1>4, AnswerOfList
  <2>2. /\ kind' = kind /\ time' = time /\ active' = active /\ matches' = matches
    BY <1>4, ListKeepsRows
  <2>3. Shown' = Shown
    BY <2>2 DEF Shown
  <2>4. \A s \in first' \ touched':
          /\ s \in Shown
          /\ listed[s] > 0 \/ Below(s) \/ (kind = "packs" /\ time[s] \in cuts)
    <3>1. CASE walk = "before"
      <4>1. first' = Shown /\ cursor = None
        BY <1>4, <3>1 DEF List, RestInv, WalkHasCursor
      <4>2. QED
        BY <4>1 DEF Below
    <3>2. CASE walk = "on"
      <4>1. first' = first /\ touched' = touched
        BY <1>4, <3>2 DEF List
      <4>2. QED
        BY <3>2, <4>1 DEF RestInv, RestIsBelow
    <3>3. walk \in {"before", "on", "over"} /\ walk # "over"
      BY <1>4 DEF List, Types
    <3>4. QED
      BY <3>1, <3>2, <3>3
  <2>5. ASSUME NEW s \in Shown, s \in p \/ listed[s] > 0
        PROVE  listed'[s] > 0
    <3>1. s \in Row /\ listed[s] \in Nat
      BY DEF Shown, Types
    <3>2. QED
      BY <2>1, <2>5, <3>1
  <2>6. CASE walk' = "over" /\ p = Matching /\ cuts \subseteq cuts'
    <3>1. ASSUME NEW s \in first' \ touched'
          PROVE  listed'[s] > 0 \/ (kind' = "packs" /\ time'[s] \in cuts')
      <4>1. Below(s) /\ s \in Shown => s \in p
        BY <2>6 DEF Matching
      <4>2. QED
        BY <2>2, <2>4, <2>5, <2>6, <4>1
    <3>2. QED
      BY <2>6, <3>1 DEF RestIsBelow, UntouchedRowsListed
  <2>7. ASSUME walk' = "on", NEW l \in Last(p),
               cursor' = [time |-> time[l], row |-> l], cuts' = cuts \cup {time[l]}
        PROVE  RestIsBelow' /\ UntouchedRowsListed'
    <3>1. l \in p
      BY DEF Last
    <3>2. l \in Row /\ time[l] \in Nat /\ l \in Nat
      BY <3>1, RowAssumption DEF Matching, Shown, Types, Time
    <3>3. ASSUME NEW s \in Matching \ p
          PROVE  Below(s)' \/ (kind = "packs" /\ time[s] = time[l])
      <4>1. ~Precedes(s, l) /\ s # l
        BY <2>1, <3>1, <3>3
      <4>2. s \in Nat /\ time[s] \in Nat
        BY RowAssumption DEF Matching, Shown, Types, Time
      <4>3. \/ time[s] < time[l]
            \/ kind = "marketplace" /\ time[s] = time[l] /\ s < l
            \/ kind = "packs" /\ time[s] = time[l]
        BY <3>2, <4>1, <4>2 DEF Precedes, Types
      <4>4. cursor'.time = time[l] /\ cursor'.row = l
        BY <2>7
      <4>5. QED
        BY <2>2, <4>3, <4>4 DEF Below
    <3>4. ASSUME NEW s \in first' \ touched'
          PROVE  /\ s \in Shown
                 /\ \/ listed'[s] > 0
                    \/ Below(s)'
                    \/ kind = "packs" /\ time[s] \in cuts'
      <4>1. Below(s) /\ s \in Shown => s \in Matching
        BY DEF Matching
      <4>2. QED
        BY <2>4, <2>5, <2>7, <3>3, <4>1
    <3>5. QED
      BY <2>2, <2>3, <2>7, <3>4 DEF RestIsBelow, UntouchedRowsListed
  <2>8. walk' = "over" => cuts \subseteq cuts'
    BY <1>4, <2>1 DEF List
  <2>9. QED
    BY <2>1, <2>6, <2>7, <2>8
<1>5. QED
  BY <1>1, <1>2, <1>3, <1>4 DEF Next, BeginWrite, AbortWrite, Tick, vars, RestInv

\* A walk to the end lists every row that was there when it began and that
\* nobody wrote meanwhile; only packs of one time that a page ended between can
\* be missed (handle_marketplace_list, handle_list_packs).
THEOREM NothingUntouchedIsSkipped == Spec => []UntouchedRowsListed
<1>1. Types /\ RestInv => UntouchedRowsListed
  BY DEF RestInv
<1>2. Init => Types /\ RestInv
  BY TypesInit, WalkInit
<1>3. Types /\ RestInv /\ [Next]_vars => (Types /\ RestInv)'
  BY TypesStep, RestStep
<1>4. QED
  BY <1>1, <1>2, <1>3, PTL DEF Spec
=============================================================================
