------------------------------ MODULE Listing -------------------------------
(***************************************************************************)
(* A client that pages through a list while it changes: the marketplace     *)
(* (handle_marketplace_list), newest update first, or a merchant's packs    *)
(* (handle_list_packs), newest first.  Each page is one statement, and the  *)
(* cursor between two of them is the key of the last row of a page.  A row  *)
(* becomes visible when its transaction commits; the time it is listed by   *)
(* was taken before: NOW() of the BEGIN for a service, the clock of the     *)
(* handler for a pack.                                                      *)
(***************************************************************************)
EXTENDS Naturals, FiniteSets

CONSTANTS
    Row,     \* services or packs; their order as numbers is that of their names
    Writer,  \* requests that change the list, once each
    Limit,   \* rows of a page
    MaxTime, \* bound on the clock
    None,
    Over     \* in place of a request that is over

ASSUME RowAssumption == Row \subseteq Nat /\ IsFiniteSet(Row)
ASSUME LimitAssumption == Limit \in Nat \ {0} /\ MaxTime \in Nat \ {0}
ASSUME NoneAssumption ==
    None \notin Nat \cup [time: Nat, row: Nat] /\ None # Over

VARIABLES
    kind,    \* the list that is walked: "marketplace" or "packs"
    now,     \* the clock
    time,    \* time[s]: updated_at or issued_at of a row, None without one
    active,  \* status='active'
    matches, \* whether the row has the category the client asks for
    writing, \* writing[w]: what the request of w is going to write, or Over
    walk,    \* "before", "on" or "over"
    cursor,  \* next_cursor of the last answer
    page,    \* the rows of the last answer
    listed,  \* history: how often each row was listed
    first,   \* history: the rows to be listed when the walk began
    touched, \* history: the rows written since
    sunk,    \* history: the rows whose time went back since
    cuts     \* history: the times of the cursors so far

rows == <<time, active, matches>>
answers == <<walk, cursor, page, listed, first, cuts>>
vars == <<kind, now, rows, writing, answers, touched, sunk>>

Time == 0..MaxTime
Cursor == [time: Time, row: Row]
Ops == {"insert", "update", "retire"}

Init ==
    /\ kind \in {"marketplace", "packs"}
    /\ now = 1
    /\ time \in [Row -> {None, 0, 1}]
    /\ active = [s \in Row |-> TRUE]
    /\ matches \in [Row -> BOOLEAN]
    /\ kind = "packs" => \A s \in Row: matches[s]
    /\ writing = [w \in Writer |-> None]
    /\ walk = "before"
    /\ cursor = None
    /\ page = {}
    /\ listed = [s \in Row |-> 0]
    /\ first = {} /\ touched = {} /\ sunk = {} /\ cuts = {}

-----------------------------------------------------------------------------
\* A request takes the time it will write: a register, update or retire at its
\* BEGIN, an issue before its INSERT.
BeginWrite(w) ==
    /\ writing[w] = None
    /\ \E op \in Ops, s \in Row, m \in BOOLEAN:
         /\ kind = "packs" => op = "insert" /\ m
         /\ writing' = [writing EXCEPT
              ![w] = [op |-> op, row |-> s, matches |-> m, time |-> now]]
    /\ UNCHANGED <<kind, now, rows, answers, touched, sunk>>

\* The statements touch what they find when they run: an INSERT a free name,
\* the UPDATEs an active service.
Applies(t) ==
    IF t.op = "insert" THEN time[t.row] = None
                       ELSE time[t.row] # None /\ active[t.row]

CommitWrite(w) ==
    /\ writing[w] \notin {None, Over}
    /\ writing' = [writing EXCEPT ![w] = Over]
    /\ LET t == writing[w] IN
       IF Applies(t)
       THEN /\ time' = [time EXCEPT ![t.row] = t.time]
            /\ active' = [active EXCEPT ![t.row] = t.op # "retire"]
            /\ matches' = [matches EXCEPT ![t.row] = IF t.op = "retire" THEN @ ELSE t.matches]
            /\ touched' = touched \cup {t.row}
            /\ sunk' = IF t.op = "update" /\ t.time < time[t.row]
                       THEN sunk \cup {t.row} ELSE sunk
       ELSE UNCHANGED <<rows, touched, sunk>>
    /\ UNCHANGED <<kind, now, answers>>

AbortWrite(w) ==
    /\ writing[w] \notin {None, Over}
    /\ writing' = [writing EXCEPT ![w] = Over]
    /\ UNCHANGED <<kind, now, rows, answers, touched, sunk>>

-----------------------------------------------------------------------------
\* Fault: the service is left out of the marketplace's cursor.
BelowByTime(s) == cursor = None \/ time[s] < cursor.time

\* Fault: the comparison with the cursor is not strict.
AtOrBelow(s) ==
    \/ cursor = None
    \/ time[s] < cursor.time
    \/ time[s] = cursor.time /\ (kind = "packs" \/ s <= cursor.row)

\* (updated_at, service_id) < cursor for services, issued_at < cursor for packs.
Below(s) ==
    \/ cursor = None
    \/ time[s] < cursor.time
    \/ kind = "marketplace" /\ time[s] = cursor.time /\ s < cursor.row

\* ORDER BY updated_at DESC, service_id DESC, or issued_at DESC and no more.
Precedes(s, t) ==
    \/ time[s] > time[t]
    \/ kind = "marketplace" /\ time[s] = time[t] /\ s > t

Shown == {s \in Row: time[s] # None /\ active[s] /\ matches[s]}
Matching == {s \in Shown: Below(s)}

\* The first n of a set of rows, in one of the orders that ORDER BY allows.
Leading(n, set) ==
    {p \in SUBSET set:
        /\ Cardinality(p) = IF Cardinality(set) < n THEN Cardinality(set) ELSE n
        /\ \A s \in p, t \in set \ p: ~Precedes(t, s)}

\* LIMIT: one row more than a page tells whether there is another.
Fetch == Limit + 1

\* take(limit)
Keep(fetched) == Leading(Limit, fetched)

HasMore(fetched) == Cardinality(fetched) > Limit

\* The last row of a page; among packs of one time, any of them.
Last(p) == {s \in p: \A t \in p: ~Precedes(s, t)}

\* One request of the client and its answer.  An answer that is lost changes
\* nothing: the client asks with the same cursor again.
List ==
    /\ walk # "over"
    /\ \E fetched \in Leading(Fetch, Matching):
       \E p \in Keep(fetched):
         /\ page' = p
         /\ listed' = [s \in Row |-> IF s \in p THEN listed[s] + 1 ELSE listed[s]]
         /\ IF HasMore(fetched)
            THEN /\ \E s \in Last(p):
                      /\ cursor' = [time |-> time[s], row |-> s]
                      /\ cuts' = cuts \cup {time[s]}
                 /\ walk' = "on"
            ELSE walk' = "over" /\ UNCHANGED <<cursor, cuts>>
    /\ IF walk = "before"
       THEN first' = Shown /\ touched' = {} /\ sunk' = {}
       ELSE UNCHANGED <<first, touched, sunk>>
    /\ UNCHANGED <<kind, now, rows, writing>>

Tick ==
    /\ now < MaxTime
    /\ now' = now + 1
    /\ UNCHANGED <<kind, rows, writing, answers, touched, sunk>>

Next ==
    \/ \E w \in Writer: BeginWrite(w) \/ CommitWrite(w) \/ AbortWrite(w)
    \/ List
    \/ Tick

Spec == Init /\ [][Next]_vars

-----------------------------------------------------------------------------
\* The types; an answer has at most a page of rows.
TypeOK ==
    /\ time \in [Row -> Time \cup {None}]
    /\ active \in [Row -> BOOLEAN] /\ matches \in [Row -> BOOLEAN]
    /\ cursor \in Cursor \cup {None}
    /\ page \subseteq Row /\ Cardinality(page) <= Limit
    /\ listed \in [Row -> Nat]
    /\ walk \in {"before", "on", "over"}

\* A walk to the end lists every row that was there when it began and that
\* nobody wrote meanwhile, whatever else is registered, updated, retired or
\* issued between its pages.  The one exception: the cursor of packs is a time
\* alone, and packs of one time that a page ends between are lost.
UntouchedRowsListed ==
    walk = "over" => \A s \in first \ touched:
        \/ listed[s] > 0
        \/ kind = "packs" /\ time[s] \in cuts

\* A walk lists a row twice only if an update that began before another one
\* committed after it, and so moved the service down the list: updated_at is
\* the time of BEGIN and can go back.
OnlySunkRowsRepeat == \A s \in Row: listed[s] > 1 => s \in sunk
=============================================================================
