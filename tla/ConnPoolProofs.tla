--------------------------- MODULE ConnPoolProofs ---------------------------
(***************************************************************************)
(* Proofs about ConnPool, for any number of requests and connections, any   *)
(* size of the pool, any programs and any number of faults.                 *)
(***************************************************************************)
EXTENDS ConnPool, FiniteSetTheorems, SequenceTheorems, TLAPS

Label == Messages \cup {"ROLLBACK_OPENING"}
Message == [by: Call, msg: Messages]

Types ==
    /\ queue \in Seq(Req)
    /\ DOMAIN prog = Req /\ \A r \in Req: prog[r] \in Programs[r] \cup {None}
    /\ at \in [Req -> Nat]
    /\ pc \in [Req -> {"idle", "queued", "done"} \cup Label]
    /\ heard \in [Req -> {None, "ok", "error"}]
    /\ conn \in [Req -> Conn \cup {None}]
    /\ place \in [Conn -> Req \cup {"unmade", "pool", "detached", "gone"}]
    /\ closed \in SUBSET Conn
    /\ wire \in [Conn -> Seq(Message)]
    /\ open \in [Conn -> Call \cup {None}]
    /\ wrote \in [Conn -> SUBSET Call]
    /\ lock \in Conn \cup {None}
    /\ lost \in SUBSET Call
    /\ faults \in Nat

\* A connection in use is its user's, and a request in a call has one.
Whose ==
    /\ \A r \in Req: conn[r] # None <=> pc[r] \in Label
    /\ \A r \in Req: conn[r] # None => place[conn[r]] = r
    /\ \A c \in Conn: place[c] \in Req => conn[place[c]] = c

InLine == \A r \in Req: pc[r] = "queued" => \E i \in 1..Len(queue): queue[i] = r

Programmed ==
    \A r \in Req: pc[r] # "idle" => prog[r] \in Programs[r] /\ at[r] >= 1

\* The call has been sent something.
Past(call) ==
    LET r == call[1] IN
    /\ pc[r] # "idle" /\ call[2] <= at[r]
    /\ call[2] = at[r] => pc[r] # "queued"

Senders(c) == {wire[c][i].by: i \in 1..Len(wire[c])}

PastCalls ==
    /\ \A c \in Conn: \A call \in Senders(c): Past(call)
    /\ \A call \in lost: Past(call)

ClientInv == Types /\ Whose /\ InLine /\ Programmed /\ PastCalls

-----------------------------------------------------------------------------
\* A connection that some fault has spoilt, or will when its user is done.
Failing(r) == heard[r] = "error" \/ pc[r] \in {"ROLLBACK", "ROLLBACK_OPENING"}
Spoilt ==
    {c \in Conn: \/ c \in closed \/ place[c] \in {"detached", "gone"}
                 \/ place[c] \in Req /\ Failing(place[c])}

CountInv ==
    /\ Cardinality(Spoilt) <= faults /\ faults <= MaxFaults
    /\ Cardinality(Out) <= MaxSize

-----------------------------------------------------------------------------
\* Activations that let go of a connection before their BEGIN was answered.
LostSessions == {call \in lost: KindOf(call) = "session"}

Unused(c) == wire[c] = <<>> /\ open[c] = None /\ wrote[c] = {} /\ lock # c

\* No write, no row, nothing under way that would change that.
Calm(c) ==
    /\ wrote[c] = {} /\ lock # c
    /\ \A i \in 1..Len(wire[c]): wire[c][i].msg \notin {"STATEMENT", "COMMIT"}

EndsSoon(c) == \E i \in 1..Len(wire[c]): wire[c][i].msg = "ROLLBACK"

\* The transactions that are open on c, or will be, are those of lost BEGINs, or
\* of the calls in own.
Harmless(c, own) ==
    /\ Calm(c)
    /\ open[c] \in {None} \cup own \cup LostSessions \/ EndsSoon(c)
    /\ \A i \in 1..Len(wire[c]):
         wire[c][i].msg = "BEGIN" => wire[c][i].by \in own \cup LostSessions

Begun(c, call) == open[c] \in {call} \cup LostSessions

\* What the wire of a connection may hold, whoever uses it: a statement is the
\* first message there is, in a transaction that has been begun; a COMMIT is, and
\* is for the writes of its own call.
WireInv(c) ==
    /\ \A i \in 1..Len(wire[c]): wire[c][i].msg \in {"STATEMENT", "COMMIT"} => i = 1
    /\ wire[c] # <<>> /\ wire[c][1].msg = "STATEMENT" =>
         Begun(c, wire[c][1].by) /\ wrote[c] = {}
    /\ wire[c] # <<>> /\ wire[c][1].msg = "COMMIT" => wrote[c] \subseteq {wire[c][1].by}
    /\ c \in closed \/ place[c] \in {"unmade", "gone"} => Unused(c)
    /\ place[c] = "pool" => Harmless(c, {})

Mine(r, message) == [by |-> Current(r), msg |-> message]

\* Nothing is on the wire but what r sent last, and nothing when it was answered.
OnlyMine(r, message) ==
    /\ wire[conn[r]] \in {<<>>, <<Mine(r, message)>>}
    /\ heard[r] = "ok" => wire[conn[r]] = <<>>

\* The connection of a request, by what the request waits for.
InBegin(r) ==
    LET w == wire[conn[r]] IN
    /\ Harmless(conn[r], {Current(r)})
    /\ heard[r] = None =>
         /\ w # <<>> /\ w[Len(w)] = Mine(r, "BEGIN")
         /\ \A i \in 1..(Len(w) - 1): w[i].by # Current(r)
    /\ heard[r] = "ok" => w = <<>> /\ Begun(conn[r], Current(r))
    /\ heard[r] = "error" => Current(r) \in lost

InSettings(r) ==
    /\ OnlyMine(r, "SETTINGS")
    /\ Calm(conn[r]) /\ Begun(conn[r], Current(r))

InStatement(r) ==
    /\ OnlyMine(r, "STATEMENT")
    /\ wrote[conn[r]] \subseteq {Current(r)} /\ Begun(conn[r], Current(r))

InCommit(r) ==
    /\ OnlyMine(r, "COMMIT")
    /\ wire[conn[r]] = <<>> => Unused(conn[r])

UserInv(r) ==
    conn[r] # None /\ conn[r] \notin closed =>
        /\ pc[r] = "BEGIN" => InBegin(r)
        /\ pc[r] = "SETTINGS" => InSettings(r)
        /\ pc[r] = "STATEMENT" => InStatement(r)
        /\ pc[r] = "COMMIT" => InCommit(r)
        /\ pc[r] \in {"SELECT_1", "ROLLBACK_OPENING"} => Harmless(conn[r], {})

History ==
    /\ \A s \in ran: s.in # s.by => s.in \in LostSessions
    /\ \A w \in kept: w.by = w.of

ServerInv ==
    (\A c \in Conn: WireInv(c)) /\ (\A r \in Req: UserInv(r)) /\ History

-----------------------------------------------------------------------------
\* The line is of those who wait in it, each at one place.
LineInv ==
    /\ \A i \in 1..Len(queue): pc[queue[i]] = "queued"
    /\ \A i, j \in 1..Len(queue): queue[i] = queue[j] => i = j

\* What a request waits to have answered is on its way.
Sent(r) == IF pc[r] = "ROLLBACK_OPENING" THEN "ROLLBACK" ELSE pc[r]

Awaited ==
    \A r \in Req: conn[r] # None /\ heard[r] = None =>
        \E i \in 1..Len(wire[conn[r]]): wire[conn[r]][i] = Mine(r, Sent(r))

PoolInv == ClientInv /\ CountInv /\ ServerInv /\ LineInv /\ Awaited

-----------------------------------------------------------------------------
\* Wires, and the steps that all of them take.

LEMMA AppendMessage ==
    ASSUME NEW w \in Seq(Message), NEW m \in Message
    PROVE  /\ Append(w, m) \in Seq(Message) /\ Append(w, m) # <<>>
           /\ Len(w) \in Nat /\ Len(Append(w, m)) = Len(w) + 1
           /\ Append(w, m)[Len(w) + 1] = m
           /\ \A i \in 1..Len(w): Append(w, m)[i] = w[i]
OBVIOUS

LEMMA TailElements ==
    ASSUME NEW S, NEW w \in Seq(S), w # <<>>
    PROVE  /\ Head(w) = w[1] /\ w[1] \in S /\ 1 \in 1..Len(w)
           /\ Tail(w) \in Seq(S) /\ Len(Tail(w)) = Len(w) - 1
           /\ \A i \in 1..Len(Tail(w)): Tail(w)[i] = w[i + 1] /\ i + 1 \in 1..Len(w)
           /\ \A i \in 1..Len(w): i = 1 \/ (i - 1 \in 1..Len(Tail(w)) /\ Tail(w)[i - 1] = w[i])
<1>1. Len(w) \in Nat /\ Len(w) >= 1
  OBVIOUS
<1>2. Head(w) = w[1] /\ w[1] \in S
  BY <1>1
<1>3. Tail(w) \in Seq(S) /\ Len(Tail(w)) = Len(w) - 1
  BY <1>1
<1>4. \A i \in 1..Len(Tail(w)): Tail(w)[i] = w[i + 1] /\ i + 1 \in 1..Len(w)
  BY <1>1, <1>3
<1>5. \A i \in 1..Len(w): i = 1 \/ (i - 1 \in 1..Len(Tail(w)) /\ (i - 1) + 1 = i)
  BY <1>1, <1>3
<1>6. QED
  BY <1>1, <1>2, <1>3, <1>4, <1>5

LEMMA SendersAreCalls ==
    ASSUME Types
    PROVE  \A c \in Conn: Senders(c) \subseteq Call
<1>1. ASSUME NEW c \in Conn, NEW i \in 1..Len(wire[c]) PROVE wire[c][i].by \in Call
  <2>1. wire[c] \in Seq(Message)
    BY DEF Types
  <2>2. wire[c][i] \in Message
    BY <2>1
  <2>3. QED
    BY <2>2 DEF Message
<1>2. QED
  BY <1>1 DEF Senders

\* The server takes the first message of c.
Serves(c) ==
    Begin(c) \/ Acknowledge(c) \/ Statement(c) \/ StatementFails(c)
    \/ Commit(c) \/ Rollback(c)

\* r hears what the server answers to the message it takes from c.
Hears(r, c) ==
    /\ conn[r] = c /\ heard[r] = None /\ Head(wire[c]).by = Current(r)
    /\ Head(wire[c]).msg = IF pc[r] = "ROLLBACK_OPENING" THEN "ROLLBACK" ELSE pc[r]

LEMMA ServesEffect ==
    ASSUME NEW c \in Conn, Serves(c)
    PROVE  /\ wire[c] # <<>> /\ wire' = [wire EXCEPT ![c] = Tail(@)]
           /\ queue' = queue /\ prog' = prog /\ at' = at /\ pc' = pc /\ conn' = conn
           /\ place' = place /\ closed' = closed /\ lost' = lost
           /\ \E answer \in {"ok", "error"}:
                /\ heard' = [r \in Req |-> IF Hears(r, c) THEN answer ELSE heard[r]]
                /\ answer = "error" => StatementFails(c)
           /\ faults' = IF StatementFails(c) THEN faults + 1 ELSE faults
           /\ StatementFails(c) => faults < MaxFaults
BY Zenon DEF Serves, Begin, Acknowledge, Statement, StatementFails, Commit, Rollback, Receives,
       Answered, Hears

LEMMA ServesKeepsTypes ==
    ASSUME Types, NEW c \in Conn, Serves(c)
    PROVE  Types'
<1>1. Head(wire[c]).by \in Call /\ wire' \in [Conn -> Seq(Message)]
  <2>1. wire[c] \in Seq(Message) /\ wire[c] # <<>>
    BY ServesEffect DEF Types
  <2>2. Head(wire[c]) \in Message /\ Tail(wire[c]) \in Seq(Message)
    BY <2>1, TailElements
  <2>3. Head(wire[c]).by \in Call
    BY <2>2 DEF Message
  <2>4. wire' = [wire EXCEPT ![c] = Tail(wire[c])]
    BY ServesEffect
  <2>5. QED
    BY <2>2, <2>3, <2>4 DEF Types
<1>2. heard' \in [Req -> {None, "ok", "error"}] /\ faults' \in Nat
  BY ServesEffect DEF Types
<1>3. open' \in [Conn -> Call \cup {None}]
  BY <1>1 DEF Serves, Begin, Acknowledge, Statement, StatementFails, Commit, Rollback,
              End, Types
<1>4. wrote' \in [Conn -> SUBSET Call]
  <2>1. wrote' = wrote \/ \E s \in SUBSET Call: wrote' = [wrote EXCEPT ![c] = s]
    <3>1. CASE Statement(c)
      <4>1. wrote[c] \cup {Head(wire[c]).by} \in SUBSET Call
        BY <1>1 DEF Types
      <4>2. QED
        BY <3>1, <4>1 DEF Statement
    <3>2. CASE Begin(c) \/ Acknowledge(c) \/ StatementFails(c) \/ Commit(c) \/ Rollback(c)
      BY <3>2 DEF Begin, Acknowledge, StatementFails, Commit, Rollback, End
    <3>3. QED
      BY <3>1, <3>2 DEF Serves
  <2>2. QED
    BY <2>1 DEF Types
<1>5. lock' \in Conn \cup {None}
  BY DEF Serves, Begin, Acknowledge, Statement, StatementFails, Commit, Rollback,
         End, Types
<1>6. QED
  BY <1>1, <1>2, <1>3, <1>4, <1>5, ServesEffect DEF Types

LEMMA ServesKeepsClient ==
    ASSUME ClientInv, NEW c \in Conn, Serves(c)
    PROVE  ClientInv'
<1>1. Types' /\ Types /\ Whose /\ InLine /\ Programmed /\ PastCalls
  BY ServesKeepsTypes DEF ClientInv
<1>2. Whose' /\ InLine' /\ Programmed'
  BY <1>1, ServesEffect DEF Whose, InLine, Programmed
<1>3. PastCalls'
  <2>1. \A call: Past(call)' <=> Past(call)
    BY ServesEffect DEF Past
  <2>2. wire[c] \in Seq(Message) /\ wire[c] # <<>>
    BY <1>1, ServesEffect DEF Types
  <2>3. wire'[c] = Tail(wire[c]) /\ \A d \in Conn \ {c}: wire'[d] = wire[d]
    BY <1>1, ServesEffect DEF Types
  <2>4. \A d \in Conn: Senders(d)' \subseteq Senders(d)
    <3>1. Senders(c)' \subseteq Senders(c)
      BY <2>2, <2>3, TailElements DEF Senders
    <3>2. QED
      BY <2>3, <3>1 DEF Senders
  <2>5. lost' = lost
    BY ServesEffect
  <2>6. QED
    BY <1>1, <2>1, <2>4, <2>5 DEF PastCalls
<1>4. QED
  BY <1>1, <1>2, <1>3 DEF ClientInv

\* A connection that hangs up has an empty wire.
LEMMA HangUpTypes ==
    ASSUME Types, NEW c \in Conn, HangUp(c)
    PROVE  /\ wire' \in [Conn -> Seq(Message)] /\ wire' = [wire EXCEPT ![c] = <<>>]
           /\ open' = [open EXCEPT ![c] = None] /\ open' \in [Conn -> Call \cup {None}]
           /\ wrote' = [wrote EXCEPT ![c] = {}] /\ wrote' \in [Conn -> SUBSET Call]
           /\ lock' = (IF lock = c THEN None ELSE lock) /\ lock' \in Conn \cup {None}
BY DEF HangUp, End, Types

LEMMA HangUpKeepsPast ==
    ASSUME Types, PastCalls, NEW c \in Conn, HangUp(c), UNCHANGED <<pc, at, lost>>
    PROVE  PastCalls'
<1>1. \A call: Past(call)' <=> Past(call)
  BY DEF Past
<1>2. \A d \in Conn: wire'[d] = wire[d] \/ wire'[d] = <<>>
  BY HangUpTypes DEF Types
<1>3. \A d \in Conn: Senders(d)' \subseteq Senders(d)
  BY <1>2 DEF Senders
<1>4. QED
  BY <1>1, <1>3 DEF PastCalls

LEMMA NoticeKeepsClient ==
    ASSUME ClientInv, NEW c \in Conn, NoticeDiscard(c)
    PROVE  ClientInv'
<1>1. /\ Types /\ Whose /\ InLine /\ Programmed /\ PastCalls /\ HangUp(c)
      /\ place[c] = "detached" /\ place' = [place EXCEPT ![c] = "gone"]
      /\ queue' = queue /\ prog' = prog /\ at' = at /\ pc' = pc /\ heard' = heard
      /\ conn' = conn /\ closed' = closed /\ lost' = lost /\ faults' = faults
  BY DEF ClientInv, NoticeDiscard, history
<1>2. Types'
  BY <1>1, HangUpTypes DEF Types
<1>3. Whose'
  BY <1>1, NameAssumption DEF Types, Whose
<1>4. InLine' /\ Programmed'
  BY <1>1 DEF InLine, Programmed
<1>5. PastCalls'
  BY <1>1, HangUpKeepsPast
<1>6. QED
  BY <1>2, <1>3, <1>4, <1>5 DEF ClientInv

LEMMA LoseKeepsClient ==
    ASSUME ClientInv, NEW c \in Conn, Lose(c)
    PROVE  ClientInv'
<1>1. /\ Types /\ Whose /\ InLine /\ Programmed /\ PastCalls /\ HangUp(c)
      /\ closed' = closed \cup {c}
      /\ heard' = [r \in Req |->
           IF conn[r] = c /\ heard[r] = None THEN "error" ELSE heard[r]]
      /\ queue' = queue /\ prog' = prog /\ at' = at /\ pc' = pc /\ place' = place
      /\ conn' = conn /\ lost' = lost /\ faults' = faults + 1
  BY DEF ClientInv, Lose, history
<1>2. Types'
  BY <1>1, HangUpTypes DEF Types
<1>3. Whose' /\ InLine' /\ Programmed'
  BY <1>1 DEF Whose, InLine, Programmed
<1>4. PastCalls'
  BY <1>1, HangUpKeepsPast
<1>5. QED
  BY <1>2, <1>3, <1>4 DEF ClientInv

-----------------------------------------------------------------------------
\* The requests' own steps.

LEMMA CurrentIsCall ==
    ASSUME Types, Programmed, NEW r \in Req, pc[r] # "idle"
    PROVE  Current(r) \in Call
<1>1. at[r] \in Nat /\ at[r] >= 1
  BY DEF Types, Programmed
<1>2. QED
  BY <1>1 DEF Current, Call

\* A call of the past stays one when r goes on to a message, or to its next call.
LEMMA PastIsKept ==
    ASSUME Types, NEW r \in Req, NEW call \in Call, Past(call),
           \A q \in Req \ {r}: pc'[q] = pc[q] /\ at'[q] = at[q],
           \/ pc[r] = "idle"
           \/ at'[r] = at[r] /\ pc'[r] \notin {"idle", "queued"}
           \/ at'[r] = at[r] + 1 /\ pc'[r] # "idle"
    PROVE  Past(call)'
<1>1. call[1] \in Req /\ call[2] \in Nat
  BY DEF Call
<1>2. at[r] \in Nat
  BY DEF Types
<1>3. CASE call[1] # r
  BY <1>1, <1>3 DEF Past
<1>4. CASE call[1] = r
  BY <1>1, <1>2, <1>4 DEF Past
<1>5. QED
  BY <1>3, <1>4

\* What Send does to c and r; on a closed connection r hears an error.
LEMMA SendEffect ==
    ASSUME Types, NEW r \in Req, NEW c \in Conn, NEW message \in Messages,
           NEW label \in Label, Current(r) \in Call, Send(r, c, message, label)
    PROVE  /\ pc' = [pc EXCEPT ![r] = label]
           /\ pc' \in [Req -> {"idle", "queued", "done"} \cup Label]
           /\ heard' = [heard EXCEPT ![r] = IF c \in closed THEN "error" ELSE None]
           /\ heard' \in [Req -> {None, "ok", "error"}]
           /\ wire' \in [Conn -> Seq(Message)]
           /\ \A d \in Conn \ {c}: wire'[d] = wire[d]
           /\ wire'[c] = IF c \in closed THEN wire[c]
                         ELSE Append(wire[c], Mine(r, message))
<1>1. Mine(r, message) \in Message /\ wire[c] \in Seq(Message)
  BY DEF Mine, Message, Types
<1>2. Append(wire[c], Mine(r, message)) \in Seq(Message)
  BY <1>1, AppendMessage
<1>3. /\ wire' \in [Conn -> Seq(Message)]
      /\ \A d \in Conn \ {c}: wire'[d] = wire[d]
      /\ wire'[c] = IF c \in closed THEN wire[c] ELSE Append(wire[c], Mine(r, message))
  BY <1>2 DEF Send, Types, Mine
<1>4. /\ heard' = [heard EXCEPT ![r] = IF c \in closed THEN "error" ELSE None]
      /\ heard' \in [Req -> {None, "ok", "error"}]
  BY DEF Send, Types
<1>5. /\ pc' = [pc EXCEPT ![r] = label]
      /\ pc' \in [Req -> {"idle", "queued", "done"} \cup Label]
  BY DEF Send, Types
<1>6. QED
  BY <1>3, <1>4, <1>5

LEMMA SendKeepsPast ==
    ASSUME Types, Types', PastCalls, NEW r \in Req, NEW c \in Conn,
           NEW message \in Messages, NEW label \in Label, Current(r) \in Call,
           Send(r, c, message, label), at' = at, lost' = lost, pc[r] # "idle"
    PROVE  PastCalls'
<1>1. at[r] \in Nat /\ pc' = [pc EXCEPT ![r] = label] /\ label \notin {"idle", "queued"}
  <2>1. label \notin {"idle", "queued"}
    BY DEF Label, Messages
  <2>2. QED
    BY <2>1, SendEffect DEF Types
<1>2. \A call \in Call: Past(call) => Past(call)'
  BY <1>1, PastIsKept DEF Types
<1>3. Past(Current(r))'
  BY <1>1 DEF Past, Current, Types
<1>4. Senders(c)' \subseteq Senders(c) \cup {Current(r)}
  <2>1. wire[c] \in Seq(Message) /\ Mine(r, message) \in Message
    BY DEF Types, Mine, Message
  <2>2. CASE wire'[c] = wire[c]
    BY <2>2 DEF Senders
  <2>3. CASE wire'[c] = Append(wire[c], Mine(r, message))
    BY <2>1, <2>3, AppendMessage DEF Senders, Mine
  <2>4. QED
    BY <2>2, <2>3, SendEffect
<1>5. \A d \in Conn \ {c}: Senders(d)' = Senders(d)
  BY SendEffect DEF Senders
<1>6. \A d \in Conn: Senders(d) \subseteq Call
  BY SendersAreCalls
<1>7. ASSUME NEW d \in Conn, NEW call \in Senders(d)' PROVE Past(call)'
  <2>1. \A e \in Senders(d): Past(e)'
    BY <1>2, <1>6 DEF PastCalls
  <2>2. call \in Senders(d) \/ call = Current(r)
    BY <1>4, <1>5
  <2>3. CASE call = Current(r)
    BY <1>3, <2>3 DEF Past, Current
  <2>4. QED
    BY <2>1, <2>2, <2>3
<1>8. \A call \in lost': Past(call)'
  BY <1>2 DEF PastCalls, Types
<1>9. QED
  BY <1>7, <1>8 DEF PastCalls

-----------------------------------------------------------------------------
\* There is always a connection to make: those in use are less than MaxSize, and
\* each of the others has cost a fault.
LEMMA OneCanBeMade ==
    ASSUME Types, CountInv, Cardinality(Out) < MaxSize, Pooled \ closed = {}
    PROVE  \E d \in Conn: place[d] = "unmade"
<1> SUFFICES ASSUME \A d \in Conn: place[d] # "unmade" PROVE FALSE
  OBVIOUS
<1>1. Conn = Out \cup Spoilt
  BY DEF Types, Out, Pooled, Spoilt
<1>2. IsFiniteSet(Out) /\ IsFiniteSet(Spoilt)
  BY SizeAssumption, FS_Subset DEF Out, Spoilt
<1>3. Cardinality(Conn) <= Cardinality(Out) + Cardinality(Spoilt)
  <2>1. /\ Cardinality(Conn) =
             Cardinality(Out) + Cardinality(Spoilt) - Cardinality(Out \cap Spoilt)
        /\ IsFiniteSet(Out \cap Spoilt)
    BY <1>1, <1>2, FS_Union, FS_Intersection
  <2>2. /\ Cardinality(Out) \in Nat /\ Cardinality(Spoilt) \in Nat
        /\ Cardinality(Out \cap Spoilt) \in Nat
    BY <1>2, <2>1, FS_CardinalityType
  <2>3. QED
    BY <2>1, <2>2
<1>4. Cardinality(Out) \in Nat /\ Cardinality(Spoilt) \in Nat /\ Cardinality(Conn) \in Nat
  BY <1>2, SizeAssumption, FS_CardinalityType
<1>5. QED
  BY <1>3, <1>4, SizeAssumption DEF CountInv, Types

\* A request whose turn it is gets a connection that nobody uses, and sends the
\* first message of its call.
LEMMA CheckoutEffect ==
    ASSUME ClientInv, CountInv, NEW r \in Req, Checkout(r)
    PROVE  /\ pc[r] = "queued" /\ Head(queue) = r /\ queue' = Tail(queue)
           /\ Cardinality(Out) < MaxSize
           /\ prog' = prog /\ at' = at /\ closed' = closed /\ open' = open
           /\ wrote' = wrote /\ lock' = lock /\ ran' = ran /\ kept' = kept
           /\ lost' = lost /\ faults' = faults
           /\ \E c \in Conn, first \in {"BEGIN", "SELECT_1"}:
                /\ place[c] = "unmade" \/ (place[c] = "pool" /\ c \notin closed)
                /\ place' = [place EXCEPT ![c] = r]
                /\ conn' = [conn EXCEPT ![r] = c]
                /\ Send(r, c, first, first)
<1>1. /\ pc[r] = "queued" /\ Head(queue) = r /\ queue' = Tail(queue)
      /\ Cardinality(Out) < MaxSize
      /\ prog' = prog /\ at' = at /\ closed' = closed /\ open' = open
      /\ wrote' = wrote /\ lock' = lock /\ ran' = ran /\ kept' = kept
      /\ lost' = lost /\ faults' = faults
  BY DEF Checkout, history
<1>2. PICK c \in Conn:
        /\ IF Pooled \ closed # {} THEN c \in Pooled \ closed
                                   ELSE c = CHOOSE d \in Conn: place[d] = "unmade"
        /\ place' = [place EXCEPT ![c] = r]
        /\ conn' = [conn EXCEPT ![r] = c]
        /\ LET first == IF KindOf(Current(r)) = "ping" THEN "SELECT_1" ELSE "BEGIN"
           IN Send(r, c, first, first)
  BY DEF Checkout
<1>3. place[c] = "unmade" \/ (place[c] = "pool" /\ c \notin closed)
  <2>1. CASE Pooled \ closed # {}
    BY <1>2, <2>1 DEF Pooled
  <2>2. CASE Pooled \ closed = {}
    BY <1>1, <1>2, <2>2, OneCanBeMade DEF ClientInv
  <2>3. QED
    BY <2>1, <2>2
<1>4. QED
  BY <1>1, <1>2, <1>3

LEMMA CheckoutKeepsClient ==
    ASSUME ClientInv, CountInv, NEW r \in Req, Checkout(r)
    PROVE  ClientInv'
<1>1. /\ pc[r] = "queued" /\ Head(queue) = r /\ queue' = Tail(queue)
      /\ prog' = prog /\ at' = at /\ closed' = closed /\ open' = open
      /\ wrote' = wrote /\ lock' = lock /\ lost' = lost /\ faults' = faults
  BY CheckoutEffect
<1>2. PICK c \in Conn, first \in {"BEGIN", "SELECT_1"}:
        /\ place[c] = "unmade" \/ (place[c] = "pool" /\ c \notin closed)
        /\ place' = [place EXCEPT ![c] = r]
        /\ conn' = [conn EXCEPT ![r] = c]
        /\ Send(r, c, first, first)
  BY CheckoutEffect
<1>3. Types /\ Whose /\ InLine /\ Programmed /\ PastCalls
  BY DEF ClientInv
<1>4. Current(r) \in Call /\ first \in Messages /\ first \in Label
  BY <1>1, <1>3, CurrentIsCall DEF Messages, Label
<1>5. /\ pc' = [pc EXCEPT ![r] = first]
      /\ pc' \in [Req -> {"idle", "queued", "done"} \cup Label]
      /\ heard' \in [Req -> {None, "ok", "error"}]
      /\ wire' \in [Conn -> Seq(Message)]
  <2>1. Send(r, c, first, first) /\ Types /\ Current(r) \in Call
    BY <1>2, <1>3, <1>4
  <2>2. first \in Messages /\ first \in Label
    BY <1>4
  <2>3. QED
    BY <2>1, <2>2, SendEffect, Zenon
<1>6. queue \in Seq(Req) /\ queue # <<>>
  <2>1. PICK i \in 1..Len(queue): queue[i] = r
    BY <1>1, <1>3 DEF InLine
  <2>2. queue \in Seq(Req)
    BY <1>3 DEF Types
  <2>3. QED
    BY <2>1, <2>2
<1>7. /\ queue' \in Seq(Req) /\ Len(queue') = Len(queue) - 1
      /\ \A i \in 1..Len(queue): i = 1 \/ (i - 1 \in 1..Len(queue') /\ queue'[i - 1] = queue[i])
      /\ queue[1] = r
  BY <1>1, <1>6, TailElements
<1>8. Types'
  BY <1>1, <1>2, <1>3, <1>5, <1>7 DEF Types
<1>9. Whose'
  <2>1. /\ conn'[r] = c /\ pc'[r] = first /\ place'[c] = r /\ c # None
        /\ \A q \in Req \ {r}: conn'[q] = conn[q] /\ pc'[q] = pc[q]
        /\ \A d \in Conn \ {c}: place'[d] = place[d]
    BY <1>2, <1>3, <1>5, NameAssumption DEF Types
  <2>2. \A q \in Req: conn'[q] # None <=> pc'[q] \in Label
    BY <1>3, <1>4, <2>1 DEF Whose
  <2>3. \A q \in Req: conn[q] # c
    BY <1>2, <1>3, NameAssumption DEF Whose
  <2>4. ASSUME NEW q \in Req, conn'[q] # None PROVE place'[conn'[q]] = q
    <3>1. CASE q = r
      BY <2>1, <3>1
    <3>2. CASE q # r
      <4>1. conn'[q] = conn[q] /\ conn[q] \in Conn /\ conn[q] # c /\ place[conn[q]] = q
        BY <1>3, <2>1, <2>3, <2>4, <3>2 DEF Types, Whose
      <4>2. QED
        BY <2>1, <4>1
    <3>3. QED
      BY <3>1, <3>2
  <2>5. conn[r] = None
    BY <1>1, <1>3 DEF Whose, Label, Messages
  <2>6. ASSUME NEW d \in Conn, place'[d] \in Req PROVE conn'[place'[d]] = d
    <3>1. CASE d = c
      BY <2>1, <3>1
    <3>2. CASE d # c
      <4>1. place'[d] = place[d] /\ conn[place[d]] = d /\ place[d] # r
        BY <1>3, <2>1, <2>5, <2>6, <3>2, NameAssumption DEF Whose
      <4>2. QED
        BY <2>1, <2>6, <4>1
    <3>3. QED
      BY <3>1, <3>2
  <2>7. QED
    BY <2>2, <2>4, <2>6 DEF Whose
<1>10. InLine'
  <2>1. ASSUME NEW q \in Req, pc'[q] = "queued"
        PROVE  \E j \in 1..Len(queue'): queue'[j] = q
    <3>1. q # r /\ pc[q] = "queued"
      BY <1>3, <1>5, <2>1 DEF Types
    <3>2. PICK i \in 1..Len(queue): queue[i] = q
      BY <1>3, <3>1 DEF InLine
    <3>3. QED
      BY <1>7, <3>1, <3>2
  <2>2. QED
    BY <2>1 DEF InLine
<1>11. Programmed'
  BY <1>1, <1>3, <1>5 DEF Types, Programmed
<1>12. PastCalls'
  BY <1>1, <1>2, <1>3, <1>4, <1>8, SendKeepsPast
<1>13. QED
  BY <1>8, <1>9, <1>10, <1>11, <1>12 DEF ClientInv

LEMMA SendKeepsClient ==
    ASSUME ClientInv, NEW r \in Req, NEW message \in Messages, NEW label \in Label,
           conn[r] # None, Send(r, conn[r], message, label),
           queue' = queue, prog' = prog, at' = at, conn' = conn, place' = place,
           closed' = closed, open' = open, wrote' = wrote, lock' = lock,
           lost' = lost, faults' = faults
    PROVE  ClientInv'
<1>1. Types /\ Whose /\ InLine /\ Programmed /\ PastCalls
  BY DEF ClientInv
<1>2. conn[r] \in Conn /\ pc[r] \in Label
  BY <1>1 DEF Types, Whose
<1>3. \A l \in Label: l \notin {"idle", "queued"}
  BY DEF Label, Messages
<1>4. Current(r) \in Call
  BY <1>1, <1>2, <1>3, CurrentIsCall
<1>5. /\ pc' = [pc EXCEPT ![r] = label]
      /\ pc' \in [Req -> {"idle", "queued", "done"} \cup Label]
      /\ heard' \in [Req -> {None, "ok", "error"}]
      /\ wire' \in [Conn -> Seq(Message)]
  <2>1. PICK c \in Conn: c = conn[r]
    BY <1>2
  <2>2. Send(r, c, message, label)
    BY <2>1
  <2>3. QED
    BY <1>1, <1>4, <2>2, SendEffect
<1>6. Types'
  BY <1>1, <1>5 DEF Types
<1>7. Whose' /\ InLine' /\ Programmed'
  <2>1. pc'[r] = label /\ \A q \in Req \ {r}: pc'[q] = pc[q]
    BY <1>1, <1>5 DEF Types
  <2>2. Whose'
    BY <1>1, <1>2, <2>1 DEF Whose
  <2>3. InLine' /\ Programmed'
    BY <1>1, <1>2, <1>3, <2>1 DEF InLine, Programmed
  <2>4. QED
    BY <2>2, <2>3
<1>8. PastCalls'
  BY <1>1, <1>2, <1>3, <1>4, <1>6, SendKeepsPast, Zenon
<1>9. QED
  BY <1>6, <1>7, <1>8 DEF ClientInv

\* What Continue sends.
LEMMA ContinueEffect ==
    ASSUME ClientInv, NEW r \in Req, Continue(r)
    PROVE  /\ heard[r] = "ok" /\ conn[r] # None
           /\ queue' = queue /\ prog' = prog /\ at' = at /\ conn' = conn
           /\ place' = place /\ closed' = closed /\ open' = open /\ wrote' = wrote
           /\ lock' = lock /\ ran' = ran /\ kept' = kept /\ lost' = lost
           /\ faults' = faults
           /\ \/ pc[r] = "BEGIN" /\ Send(r, conn[r], "SETTINGS", "SETTINGS")
              \/ pc[r] = "SETTINGS" /\ Send(r, conn[r], "STATEMENT", "STATEMENT")
              \/ pc[r] = "STATEMENT" /\ Send(r, conn[r], "COMMIT", "COMMIT")
<1>1. /\ heard[r] = "ok" /\ pc[r] \in {"BEGIN", "SETTINGS", "STATEMENT"}
      /\ Send(r, conn[r], Following[pc[r]], Following[pc[r]])
      /\ queue' = queue /\ prog' = prog /\ at' = at /\ conn' = conn
      /\ place' = place /\ closed' = closed /\ open' = open /\ wrote' = wrote
      /\ lock' = lock /\ ran' = ran /\ kept' = kept /\ lost' = lost
      /\ faults' = faults
  BY DEF Continue, Following, history
<1>2. /\ Following["BEGIN"] = "SETTINGS" /\ Following["SETTINGS"] = "STATEMENT"
      /\ Following["STATEMENT"] = "COMMIT"
  BY DEF Following
<1>3. conn[r] # None
  BY <1>1 DEF ClientInv, Whose, Label, Messages
<1>4. QED
  BY <1>1, <1>2, <1>3

LEMMA ContinueKeepsClient ==
    ASSUME ClientInv, NEW r \in Req, Continue(r)
    PROVE  ClientInv'
<1>1. \E m \in {"SETTINGS", "STATEMENT", "COMMIT"}: Send(r, conn[r], m, m)
  BY ContinueEffect
<1>2. {"SETTINGS", "STATEMENT", "COMMIT"} \subseteq Messages \cap Label
  BY DEF Messages, Label
<1>3. QED
  BY <1>1, <1>2, ContinueEffect, SendKeepsClient

\* What StartRollback sends.
LEMMA StartRollbackEffect ==
    ASSUME NEW r \in Req, StartRollback(r)
    PROVE  /\ heard[r] = "error" /\ conn[r] # None
           /\ queue' = queue /\ prog' = prog /\ at' = at /\ conn' = conn
           /\ place' = place /\ closed' = closed /\ open' = open /\ wrote' = wrote
           /\ lock' = lock /\ ran' = ran /\ kept' = kept /\ lost' = lost
           /\ faults' = faults
           /\ \/ pc[r] = "SETTINGS" /\ Send(r, conn[r], "ROLLBACK", "ROLLBACK_OPENING")
              \/ pc[r] = "STATEMENT" /\ Send(r, conn[r], "ROLLBACK", "ROLLBACK")
BY DEF StartRollback, OnError, history

LEMMA StartRollbackKeepsClient ==
    ASSUME ClientInv, NEW r \in Req, StartRollback(r)
    PROVE  ClientInv'
<1>1. \E l \in {"ROLLBACK", "ROLLBACK_OPENING"}: Send(r, conn[r], "ROLLBACK", l)
  BY StartRollbackEffect
<1>2. "ROLLBACK" \in Messages /\ {"ROLLBACK", "ROLLBACK_OPENING"} \subseteq Label
  BY DEF Messages, Label
<1>3. QED
  BY <1>1, <1>2, StartRollbackEffect, SendKeepsClient

\* Waiting in line adds r to it.
LEMMA EnqueueEffect ==
    ASSUME Types, NEW r \in Req, Enqueue(r)
    PROVE  /\ queue' \in Seq(Req)
           /\ \E i \in 1..Len(queue'): queue'[i] = r
           /\ \A i \in 1..Len(queue): i \in 1..Len(queue') /\ queue'[i] = queue[i]
           /\ pc' = [pc EXCEPT ![r] = "queued"]
           /\ pc' \in [Req -> {"idle", "queued", "done"} \cup Label]
           /\ heard' = [heard EXCEPT ![r] = None]
           /\ heard' \in [Req -> {None, "ok", "error"}]
<1>1. queue \in Seq(Req) /\ queue' = Append(queue, r)
  BY DEF Types, Enqueue
<1>2. /\ queue' \in Seq(Req) /\ Len(queue) \in Nat /\ Len(queue') = Len(queue) + 1
      /\ queue'[Len(queue) + 1] = r
      /\ \A i \in 1..Len(queue): queue'[i] = queue[i]
  BY <1>1
<1>3. /\ Len(queue) + 1 \in 1..Len(queue')
      /\ \A i \in 1..Len(queue): i \in 1..Len(queue')
  BY <1>2
<1>4. /\ pc' = [pc EXCEPT ![r] = "queued"]
      /\ pc' \in [Req -> {"idle", "queued", "done"} \cup Label]
      /\ heard' = [heard EXCEPT ![r] = None]
      /\ heard' \in [Req -> {None, "ok", "error"}]
  BY DEF Types, Enqueue
<1>5. QED
  BY <1>2, <1>3, <1>4

LEMMA EnqueueKeepsLine ==
    ASSUME Types, InLine, NEW r \in Req, Enqueue(r)
    PROVE  InLine'
<1>1. ASSUME NEW q \in Req, pc'[q] = "queued"
      PROVE  \E i \in 1..Len(queue'): queue'[i] = q
  <2>1. CASE q = r
    BY <2>1, EnqueueEffect
  <2>2. CASE q # r
    <3>1. pc[q] = "queued"
      BY <1>1, <2>2, EnqueueEffect DEF Types
    <3>2. PICK i \in 1..Len(queue): queue[i] = q
      BY <3>1 DEF InLine
    <3>3. QED
      BY <3>2, EnqueueEffect
  <2>3. QED
    BY <2>1, <2>2
<1>2. QED
  BY <1>1 DEF InLine

LEMMA ArriveKeepsClient ==
    ASSUME ClientInv, NEW r \in Req, Arrive(r)
    PROVE  ClientInv'
<1>1. /\ Types /\ Whose /\ InLine /\ Programmed /\ PastCalls
      /\ pc[r] = "idle" /\ Enqueue(r) /\ at' = [at EXCEPT ![r] = 1]
      /\ conn' = conn /\ place' = place /\ closed' = closed /\ wire' = wire
      /\ open' = open /\ wrote' = wrote /\ lock' = lock /\ lost' = lost
      /\ faults' = faults
  BY DEF ClientInv, Arrive, server, history
<1>2. PICK p \in Programs[r]: prog' = [prog EXCEPT ![r] = p]
  BY DEF Arrive
<1>3. Types'
  BY <1>1, <1>2, EnqueueEffect DEF Types
<1>4. pc'[r] = "queued" /\ \A q \in Req \ {r}: pc'[q] = pc[q]
  BY <1>1, EnqueueEffect DEF Types
<1>5. Whose'
  BY <1>1, <1>4 DEF Whose, Label, Messages
<1>6. InLine'
  BY <1>1, EnqueueKeepsLine
<1>7. Programmed'
  BY <1>1, <1>2, <1>4 DEF Programmed, Types
<1>8. PastCalls'
  <2>1. \A call \in Call: Past(call) => Past(call)'
    BY <1>1, <1>4, PastIsKept DEF Types
  <2>2. \A c \in Conn: Senders(c)' = Senders(c)
    BY <1>1 DEF Senders
  <2>3. QED
    BY <1>1, <2>1, <2>2, SendersAreCalls DEF PastCalls, Types
<1>9. QED
  BY <1>3, <1>5, <1>6, <1>7, <1>8 DEF ClientInv

\* r lets go of its connection, which is nobody's then.
LetsGo(r) ==
    /\ \E p \in {"gone", "pool", "detached"}: place' = [place EXCEPT ![conn[r]] = p]
    /\ conn' = [conn EXCEPT ![r] = None]

LEMMA LetsGoEffect ==
    ASSUME Types, Whose, NEW r \in Req, conn[r] # None, LetsGo(r),
           \A q \in Req \ {r}: pc'[q] = pc[q], pc'[r] \in {"queued", "done"}
    PROVE  /\ conn' \in [Req -> Conn \cup {None}]
           /\ place' \in [Conn -> Req \cup {"unmade", "pool", "detached", "gone"}]
           /\ Whose'
<1>1. conn[r] \in Conn /\ place[conn[r]] = r
  BY DEF Types, Whose
<1>2. PICK p \in {"gone", "pool", "detached"}: place' = [place EXCEPT ![conn[r]] = p]
  BY DEF LetsGo
<1>3. /\ place'[conn[r]] \notin Req
      /\ \A d \in Conn \ {conn[r]}: place'[d] = place[d]
  BY <1>1, <1>2, NameAssumption DEF Types
<1>4. conn'[r] = None /\ \A q \in Req \ {r}: conn'[q] = conn[q]
  BY DEF LetsGo, Types
<1>5. /\ conn' \in [Req -> Conn \cup {None}]
      /\ place' \in [Conn -> Req \cup {"unmade", "pool", "detached", "gone"}]
  BY <1>1, <1>2 DEF LetsGo, Types
<1>6. \A q \in Req: conn'[q] # None <=> pc'[q] \in Label
  BY <1>4 DEF Whose, Label, Messages
<1>7. ASSUME NEW q \in Req, conn'[q] # None PROVE place'[conn'[q]] = q
  <2>1. q # r /\ conn'[q] = conn[q] /\ conn[q] \in Conn /\ place[conn[q]] = q
    BY <1>4, <1>7 DEF Types, Whose
  <2>2. conn[q] # conn[r]
    BY <1>1, <2>1
  <2>3. QED
    BY <1>3, <2>1, <2>2
<1>8. ASSUME NEW d \in Conn, place'[d] \in Req PROVE conn'[place'[d]] = d
  <2>1. d # conn[r] /\ place'[d] = place[d]
    BY <1>3, <1>8
  <2>2. conn[place[d]] = d /\ place[d] # r
    BY <1>8, <2>1 DEF Whose
  <2>3. QED
    BY <1>4, <1>8, <2>1, <2>2
<1>9. QED
  BY <1>5, <1>6, <1>7, <1>8 DEF Whose

LEMMA GiveBackOrDiscard ==
    ASSUME NEW r \in Req, GiveBack(r) \/ Discard(r)
    PROVE  LetsGo(r)
BY DEF GiveBack, Discard, LetsGo

LEMMA FinishKeepsClient ==
    ASSUME ClientInv, NEW r \in Req, Finish(r)
    PROVE  ClientInv'
<1>1. /\ Types /\ Whose /\ InLine /\ Programmed /\ PastCalls
      /\ pc[r] \in Label /\ pc[r] # "idle" /\ GiveBack(r)
      /\ prog' = prog /\ closed' = closed /\ wire' = wire
      /\ open' = open /\ wrote' = wrote /\ lock' = lock /\ lost' = lost
      /\ faults' = faults
  BY DEF ClientInv, Finish, server, history, Label, Messages
<1>2. conn[r] # None /\ LetsGo(r)
  BY <1>1, GiveBackOrDiscard DEF Whose
<1>3. \/ at' = [at EXCEPT ![r] = @ + 1] /\ Enqueue(r)
      \/ pc' = [pc EXCEPT ![r] = "done"] /\ at' = at /\ queue' = queue /\ heard' = heard
  BY DEF Finish
<1>4. /\ pc' \in [Req -> {"idle", "queued", "done"} \cup Label]
      /\ pc'[r] \in {"queued", "done"} /\ \A q \in Req \ {r}: pc'[q] = pc[q]
      /\ queue' \in Seq(Req) /\ heard' \in [Req -> {None, "ok", "error"}]
      /\ InLine'
  <2>1. CASE Enqueue(r)
    BY <1>1, <2>1, EnqueueEffect, EnqueueKeepsLine DEF Types
  <2>2. CASE pc' = [pc EXCEPT ![r] = "done"] /\ queue' = queue /\ heard' = heard
    BY <1>1, <2>2 DEF Types, InLine
  <2>3. QED
    BY <1>3, <2>1, <2>2
<1>5. /\ at' \in [Req -> Nat] /\ at'[r] \in {at[r], at[r] + 1}
      /\ \A q \in Req \ {r}: at'[q] = at[q]
  <2>1. at \in [Req -> Nat]
    BY <1>1 DEF Types
  <2>2. at' = [at EXCEPT ![r] = at[r] + 1] \/ at' = at
    BY <1>3
  <2>3. QED
    BY <2>1, <2>2
<1>6. at'[r] = at[r] => pc'[r] # "queued"
  BY <1>1, <1>3 DEF Types
<1>7. /\ conn' \in [Req -> Conn \cup {None}] /\ Whose'
      /\ place' \in [Conn -> Req \cup {"unmade", "pool", "detached", "gone"}]
  BY <1>1, <1>2, <1>4, LetsGoEffect
<1>8. Types'
  BY <1>1, <1>4, <1>5, <1>7 DEF Types
<1>9. Programmed'
  BY <1>1, <1>4, <1>5 DEF Programmed, Types
<1>10. PastCalls'
  <2>1. \A call \in Call: Past(call) => Past(call)'
    BY <1>1, <1>4, <1>5, <1>6, PastIsKept
  <2>2. \A c \in Conn: Senders(c)' = Senders(c)
    BY <1>1 DEF Senders
  <2>3. QED
    BY <1>1, <2>1, <2>2, SendersAreCalls DEF PastCalls, Types
<1>11. QED
  BY <1>4, <1>7, <1>8, <1>9, <1>10 DEF ClientInv

\* A request that is done: its calls are of the past for good.
LEMMA DoneKeepsPast ==
    ASSUME Types, PastCalls, NEW r \in Req, pc' = [pc EXCEPT ![r] = "done"],
           at' = at, wire' = wire, lost' = lost
    PROVE  PastCalls'
<1>1. pc'[r] = "done" /\ \A q \in Req \ {r}: pc'[q] = pc[q]
  BY DEF Types
<1>2. \A call \in Call: Past(call) => Past(call)'
  BY <1>1, PastIsKept
<1>3. \A c \in Conn: Senders(c)' = Senders(c)
  BY DEF Senders
<1>4. QED
  BY <1>2, <1>3, SendersAreCalls DEF PastCalls, Types

LEMMA FailKeepsClient ==
    ASSUME ClientInv, NEW r \in Req, FailCall(r)
    PROVE  ClientInv'
<1>1. /\ Types /\ Whose /\ InLine /\ Programmed /\ PastCalls
      /\ conn[r] # None /\ LetsGo(r) /\ pc' = [pc EXCEPT ![r] = "done"]
      /\ queue' = queue /\ prog' = prog /\ at' = at /\ heard' = heard
      /\ closed' = closed /\ wire' = wire
      /\ open' = open /\ wrote' = wrote /\ lock' = lock /\ lost' = lost
      /\ faults' = faults
  BY GiveBackOrDiscard DEF ClientInv, FailCall, server, history
<1>2. /\ pc'[r] = "done" /\ \A q \in Req \ {r}: pc'[q] = pc[q]
      /\ pc' \in [Req -> {"idle", "queued", "done"} \cup Label]
  BY <1>1 DEF Types
<1>3. /\ conn' \in [Req -> Conn \cup {None}] /\ Whose'
      /\ place' \in [Conn -> Req \cup {"unmade", "pool", "detached", "gone"}]
  BY <1>1, <1>2, LetsGoEffect
<1>4. Types'
  BY <1>1, <1>2, <1>3 DEF Types
<1>5. InLine'
  BY <1>1, <1>2 DEF InLine
<1>6. Programmed'
  BY <1>1, <1>2, <1>3 DEF Programmed, Whose, Label, Messages
<1>7. PastCalls'
  BY <1>1, DoneKeepsPast
<1>8. QED
  BY <1>3, <1>4, <1>5, <1>6, <1>7 DEF ClientInv

LEMMA WireTimeoutKeepsClient ==
    ASSUME ClientInv, NEW r \in Req, WireTimeout(r)
    PROVE  ClientInv'
<1>1. /\ Types /\ Whose /\ InLine /\ Programmed /\ PastCalls
      /\ conn[r] # None /\ heard' = [heard EXCEPT ![r] = "error"]
      /\ lost' = IF pc[r] = "BEGIN" THEN lost \cup {Current(r)} ELSE lost
      /\ faults' = faults + 1
      /\ queue' = queue /\ prog' = prog /\ at' = at /\ pc' = pc /\ conn' = conn
      /\ place' = place /\ closed' = closed /\ wire' = wire
      /\ open' = open /\ wrote' = wrote /\ lock' = lock
  BY DEF ClientInv, WireTimeout, server
<1>2. pc[r] \notin {"idle", "queued"}
  BY <1>1 DEF Whose, Label, Messages
<1>3. Current(r) \in Call
  BY <1>1, <1>2, CurrentIsCall
<1>4. Types'
  BY <1>1, <1>3 DEF Types
<1>5. Whose' /\ InLine' /\ Programmed'
  BY <1>1 DEF Whose, InLine, Programmed
<1>6. PastCalls'
  <2>1. \A call: Past(call)' <=> Past(call)
    BY <1>1 DEF Past
  <2>2. Past(Current(r))
    BY <1>1, <1>2 DEF Past, Current, Types
  <2>3. \A c \in Conn: Senders(c)' = Senders(c)
    BY <1>1 DEF Senders
  <2>4. lost' \subseteq lost \cup {Current(r)}
    BY <1>1
  <2>5. QED
    BY <1>1, <2>1, <2>2, <2>3, <2>4 DEF PastCalls
<1>7. QED
  BY <1>4, <1>5, <1>6 DEF ClientInv

\* Without one of its elements a line is still one, with all the others.
LEMMA RemovedFromLine ==
    ASSUME NEW S, NEW s \in Seq(S), NEW i \in 1..Len(s)
    PROVE  LET t == SubSeq(s, 1, i - 1) \o SubSeq(s, i + 1, Len(s))
           IN /\ t \in Seq(S)
              /\ \A j \in 1..Len(s): j # i => \E k \in 1..Len(t): t[k] = s[j]
              /\ Len(s) \in Nat /\ Len(t) = Len(s) - 1
              /\ \A k \in 1..Len(t): t[k] = IF k < i THEN s[k] ELSE s[k + 1]
<1> DEFINE a == SubSeq(s, 1, i - 1)
           b == SubSeq(s, i + 1, Len(s))
<1>1. Len(s) \in Nat /\ i \in Nat /\ i >= 1 /\ i <= Len(s)
  OBVIOUS
<1>2. a \in Seq(S) /\ Len(a) = i - 1 /\ \A j \in 1..(i - 1): a[j] = s[j]
  BY <1>1
<1>3. b \in Seq(S) /\ Len(b) = Len(s) - i /\ \A j \in 1..(Len(s) - i): b[j] = s[i + j]
  BY <1>1
<1> HIDE DEF a, b
<1>4. /\ a \o b \in Seq(S) /\ Len(a \o b) = Len(s) - 1
      /\ \A j \in 1..(i - 1): (a \o b)[j] = a[j]
      /\ \A j \in 1..(Len(s) - i): (a \o b)[i - 1 + j] = b[j]
  <2>1. a \o b \in Seq(S) /\ Len(a \o b) = Len(a) + Len(b)
    BY <1>2, <1>3, ConcatProperties
  <2>2. \A j \in 1..Len(a): (a \o b)[j] = a[j]
    BY <1>2, <1>3
  <2>3. \A j \in 1..Len(b): (a \o b)[Len(a) + j] = b[j]
    BY <1>2, <1>3
  <2>4. QED
    BY <1>1, <1>2, <1>3, <2>1, <2>2, <2>3
<1>5. ASSUME NEW j \in 1..Len(s), j # i
      PROVE  \E k \in 1..Len(a \o b): (a \o b)[k] = s[j]
  <2>1. CASE j < i
    <3>1. j \in 1..(i - 1) /\ j \in 1..Len(a \o b)
      BY <1>1, <1>4, <2>1
    <3>2. QED
      BY <1>2, <1>4, <3>1
  <2>2. CASE j > i
    <3>1. /\ j - i \in 1..(Len(s) - i) /\ i + (j - i) = j
          /\ i - 1 + (j - i) \in 1..Len(a \o b)
      BY <1>1, <1>4, <2>2
    <3>2. (a \o b)[i - 1 + (j - i)] = s[j]
      BY <1>3, <1>4, <3>1
    <3>3. QED
      BY <3>1, <3>2
  <2>3. QED
    BY <1>1, <1>5, <2>1, <2>2
<1>6. ASSUME NEW k \in 1..Len(a \o b)
      PROVE  (a \o b)[k] = IF k < i THEN s[k] ELSE s[k + 1]
  <2>1. CASE k < i
    <3>1. k \in 1..(i - 1)
      BY <1>1, <1>4, <2>1
    <3>2. QED
      BY <1>2, <1>4, <2>1, <3>1
  <2>2. CASE k >= i
    <3>1. /\ k - i + 1 \in 1..(Len(s) - i) /\ i - 1 + (k - i + 1) = k
          /\ i + (k - i + 1) = k + 1 /\ ~(k < i)
      BY <1>1, <1>4, <2>2
    <3>2. QED
      BY <1>3, <1>4, <3>1
  <2>3. QED
    BY <1>1, <1>4, <2>1, <2>2
<1>7. QED
  BY <1>1, <1>4, <1>5, <1>6 DEF a, b

LEMMA PoolTimeoutKeepsClient ==
    ASSUME ClientInv, NEW r \in Req, PoolTimeout(r)
    PROVE  ClientInv'
<1>1. /\ Types /\ Whose /\ InLine /\ Programmed /\ PastCalls
      /\ pc[r] = "queued" /\ pc' = [pc EXCEPT ![r] = "done"]
      /\ faults' = faults + 1
      /\ prog' = prog /\ at' = at /\ heard' = heard /\ conn' = conn
      /\ place' = place /\ closed' = closed /\ wire' = wire
      /\ open' = open /\ wrote' = wrote /\ lock' = lock /\ lost' = lost
  BY DEF ClientInv, PoolTimeout, server, history
<1>2. /\ pc'[r] = "done" /\ \A q \in Req \ {r}: pc'[q] = pc[q]
      /\ pc' \in [Req -> {"idle", "queued", "done"} \cup Label]
  BY <1>1 DEF Types
<1>3. PICK i \in 1..Len(queue):
        /\ queue[i] = r
        /\ queue' = SubSeq(queue, 1, i - 1) \o SubSeq(queue, i + 1, Len(queue))
  BY DEF PoolTimeout
<1>4. queue \in Seq(Req)
  BY <1>1 DEF Types
<1>5. /\ queue' \in Seq(Req)
      /\ \A j \in 1..Len(queue): j # i => \E k \in 1..Len(queue'): queue'[k] = queue[j]
  BY <1>3, <1>4, RemovedFromLine
<1>6. Types'
  BY <1>1, <1>2, <1>5 DEF Types
<1>7. Whose'
  BY <1>1, <1>2 DEF Whose, Label, Messages
<1>8. InLine'
  <2>1. ASSUME NEW q \in Req, pc'[q] = "queued"
        PROVE  \E k \in 1..Len(queue'): queue'[k] = q
    <3>1. q # r /\ pc[q] = "queued"
      BY <1>2, <2>1
    <3>2. PICK j \in 1..Len(queue): queue[j] = q
      BY <1>1, <3>1 DEF InLine
    <3>3. QED
      BY <1>3, <1>5, <3>1, <3>2
  <2>2. QED
    BY <2>1 DEF InLine
<1>9. Programmed'
  BY <1>1, <1>2 DEF Programmed
<1>10. PastCalls'
  BY <1>1, DoneKeepsPast
<1>11. QED
  BY <1>6, <1>7, <1>8, <1>9, <1>10 DEF ClientInv

-----------------------------------------------------------------------------
LEMMA ClientInit == Init => ClientInv
<1> SUFFICES ASSUME Init PROVE ClientInv
  OBVIOUS
<1>1. Types
  BY NameAssumption DEF Init, Types
<1>2. Whose
  BY NameAssumption DEF Init, Whose, Label, Messages
<1>3. InLine /\ Programmed
  BY DEF Init, InLine, Programmed
<1>4. PastCalls
  BY DEF Init, PastCalls, Senders
<1>5. QED
  BY <1>1, <1>2, <1>3, <1>4 DEF ClientInv

\* What the requests and the pool know of each other stays consistent.
LEMMA ClientStep == ClientInv /\ CountInv /\ [Next]_vars => ClientInv'
<1> SUFFICES ASSUME ClientInv, CountInv, [Next]_vars PROVE ClientInv'
  OBVIOUS
<1>1. CASE UNCHANGED vars
  BY <1>1 DEF vars, client, server, history, ClientInv, Types, Whose, InLine,
              Programmed, PastCalls, Past, Senders
<1>2. ASSUME NEW r \in Req, Arrive(r) \/ Handle(r) \/ WireTimeout(r) \/ PoolTimeout(r)
      PROVE  ClientInv'
  BY <1>2, ArriveKeepsClient, CheckoutKeepsClient, ContinueKeepsClient,
     FinishKeepsClient, StartRollbackKeepsClient, FailKeepsClient,
     WireTimeoutKeepsClient, PoolTimeoutKeepsClient DEF Handle
<1>3. ASSUME NEW c \in Conn, Serve(c) \/ StatementFails(c) \/ Lose(c)
      PROVE  ClientInv'
  BY <1>3, ServesKeepsClient, NoticeKeepsClient, LoseKeepsClient DEF Serve, Serves
<1>4. QED
  BY <1>1, <1>2, <1>3 DEF Next, Quiet

-----------------------------------------------------------------------------
\* No more connections are spoilt than there were faults.

\* A step spoils no connection, or one of them at the price of a fault.
CostsAFault ==
    \/ Spoilt' \subseteq Spoilt /\ faults' = faults
    \/ /\ faults < MaxFaults /\ faults' = faults + 1
       /\ \E c: Spoilt' \subseteq Spoilt \cup {c}

LEMMA SpoiltIsCounted ==
    ASSUME Types, CountInv, CostsAFault
    PROVE  Cardinality(Spoilt') <= faults' /\ faults' <= MaxFaults
<1>1. IsFiniteSet(Spoilt) /\ IsFiniteSet(Spoilt')
  BY SizeAssumption, FS_Subset DEF Spoilt
<1>2. Cardinality(Spoilt) \in Nat /\ Cardinality(Spoilt') \in Nat /\ faults \in Nat
  BY <1>1, FS_CardinalityType DEF Types
<1>3. CASE Spoilt' \subseteq Spoilt /\ faults' = faults
  <2>1. Cardinality(Spoilt') <= Cardinality(Spoilt)
    BY <1>1, <1>3, FS_Subset
  <2>2. QED
    BY <1>2, <1>3, <2>1 DEF CountInv
<1>4. CASE /\ faults < MaxFaults /\ faults' = faults + 1
           /\ \E c: Spoilt' \subseteq Spoilt \cup {c}
  <2>1. PICK c: Spoilt' \subseteq Spoilt \cup {c}
    BY <1>4
  <2>2. /\ IsFiniteSet(Spoilt \cup {c})
        /\ Cardinality(Spoilt \cup {c}) \in {Cardinality(Spoilt), Cardinality(Spoilt) + 1}
    BY <1>1, FS_AddElement
  <2>3. Cardinality(Spoilt') <= Cardinality(Spoilt \cup {c})
    BY <2>1, <2>2, FS_Subset
  <2>4. QED
    BY <1>2, <1>4, <2>2, <2>3, SizeAssumption DEF CountInv
<1>5. QED
  BY <1>3, <1>4 DEF CostsAFault

\* The user of a connection waits for an answer.
LEMMA UserInCall ==
    ASSUME Types, Whose, NEW c \in Conn, place[c] \in Req
    PROVE  conn[place[c]] = c /\ conn[place[c]] # None /\ pc[place[c]] \in Label
BY NameAssumption DEF Types, Whose

\* A request that uses no connection spoils none.
LEMMA OutsideSpoilsNone ==
    ASSUME Types, Whose, NEW r \in Req, pc[r] \notin Label,
           \A q \in Req \ {r}: pc'[q] = pc[q] /\ heard'[q] = heard[q],
           place' = place, closed' = closed
    PROVE  Spoilt' = Spoilt
<1>1. \A c \in Conn: place[c] # r
  BY UserInCall
<1>2. \A c \in Conn: place[c] \in Req => (Failing(place[c])' <=> Failing(place[c]))
  BY <1>1 DEF Failing
<1>3. QED
  BY <1>2 DEF Spoilt

LEMMA ArriveSpoilsNone ==
    ASSUME ClientInv, NEW r \in Req, Arrive(r)
    PROVE  CostsAFault /\ place' = place
<1>1. /\ Types /\ Whose /\ pc[r] \notin Label /\ Enqueue(r)
      /\ place' = place /\ closed' = closed /\ faults' = faults
  BY DEF ClientInv, Arrive, history, Label, Messages
<1>2. \A q \in Req \ {r}: pc'[q] = pc[q] /\ heard'[q] = heard[q]
  BY <1>1, EnqueueEffect DEF Types
<1>3. QED
  BY <1>1, <1>2, OutsideSpoilsNone DEF CostsAFault

LEMMA PoolTimeoutSpoilsNone ==
    ASSUME ClientInv, NEW r \in Req, PoolTimeout(r)
    PROVE  CostsAFault /\ place' = place
<1>1. /\ Types /\ Whose /\ pc[r] \notin Label
      /\ pc' = [pc EXCEPT ![r] = "done"] /\ heard' = heard
      /\ place' = place /\ closed' = closed
      /\ faults < MaxFaults /\ faults' = faults + 1
  BY DEF ClientInv, PoolTimeout, Label, Messages
<1>2. \A q \in Req \ {r}: pc'[q] = pc[q] /\ heard'[q] = heard[q]
  BY <1>1 DEF Types
<1>3. QED
  BY <1>1, <1>2, OutsideSpoilsNone DEF CostsAFault

\* r sends a message that is not ROLLBACK, or has heard of an error before.
LEMMA SendSpoilsNone ==
    ASSUME ClientInv, NEW r \in Req, conn[r] # None, NEW message \in Messages,
           NEW label \in Label, Send(r, conn[r], message, label),
           heard[r] = "error" \/ label \notin {"ROLLBACK", "ROLLBACK_OPENING"},
           place' = place, closed' = closed, faults' = faults
    PROVE  CostsAFault
<1>1. Types /\ Whose /\ Programmed
  BY DEF ClientInv
<1>2. PICK d \in Conn: d = conn[r] /\ place[d] = r
  BY <1>1 DEF Types, Whose
<1>3. pc[r] # "idle"
  BY <1>1 DEF Whose, Label, Messages
<1>4. Send(r, d, message, label) /\ Current(r) \in Call
  BY <1>1, <1>2, <1>3, CurrentIsCall
<1>5. /\ pc' = [pc EXCEPT ![r] = label]
      /\ heard' = [heard EXCEPT ![r] = IF d \in closed THEN "error" ELSE None]
  BY <1>1, <1>4, SendEffect
<1>6. /\ pc'[r] = label /\ heard'[r] = IF d \in closed THEN "error" ELSE None
      /\ \A q \in Req \ {r}: pc'[q] = pc[q] /\ heard'[q] = heard[q]
  BY <1>1, <1>5 DEF Types
<1>7. ASSUME NEW c \in Conn, place[c] \in Req, Failing(place[c])'
      PROVE  c \in closed \/ Failing(place[c])
  <2>1. CASE place[c] # r
    BY <1>6, <1>7, <2>1 DEF Failing
  <2>2. CASE place[c] = r
    <3>1. c = d
      BY <1>1, <1>2, <2>2 DEF Whose
    <3>2. pc'[place[c]] = label /\ heard'[place[c]] = IF d \in closed THEN "error" ELSE None
      BY <1>6, <2>2
    <3>3. CASE heard[r] = "error"
      BY <2>2, <3>3 DEF Failing
    <3>4. CASE label \notin {"ROLLBACK", "ROLLBACK_OPENING"}
      BY <1>7, <3>1, <3>2, <3>4, NameAssumption DEF Failing
    <3>5. QED
      BY <3>3, <3>4
  <2>3. QED
    BY <2>1, <2>2
<1>8. Spoilt' \subseteq Spoilt
  BY <1>7 DEF Spoilt
<1>9. QED
  BY <1>8 DEF CostsAFault

LEMMA ContinueSpoilsNone ==
    ASSUME ClientInv, NEW r \in Req, Continue(r)
    PROVE  CostsAFault /\ place' = place
<1>1. PICK m \in {"SETTINGS", "STATEMENT", "COMMIT"}: Send(r, conn[r], m, m)
  BY ContinueEffect
<1>2. m \in Messages /\ m \in Label /\ m \notin {"ROLLBACK", "ROLLBACK_OPENING"}
  BY DEF Messages, Label
<1>3. QED
  BY <1>1, <1>2, ContinueEffect, SendSpoilsNone

LEMMA StartRollbackSpoilsNone ==
    ASSUME ClientInv, NEW r \in Req, StartRollback(r)
    PROVE  CostsAFault /\ place' = place
<1>1. PICK l \in {"ROLLBACK", "ROLLBACK_OPENING"}: Send(r, conn[r], "ROLLBACK", l)
  BY StartRollbackEffect
<1>2. "ROLLBACK" \in Messages /\ l \in Label
  BY DEF Messages, Label
<1>3. QED
  BY <1>1, <1>2, StartRollbackEffect, SendSpoilsNone

LEMMA CheckoutCounts ==
    ASSUME ClientInv, CountInv, NEW r \in Req, Checkout(r)
    PROVE  CostsAFault /\ Cardinality(Out') <= MaxSize
<1>1. Types /\ Whose /\ Programmed /\ pc[r] # "idle" /\ Cardinality(Out) < MaxSize
  BY CheckoutEffect DEF ClientInv
<1>2. PICK d \in Conn, first \in {"BEGIN", "SELECT_1"}:
        /\ place[d] = "unmade" \/ (place[d] = "pool" /\ d \notin closed)
        /\ place' = [place EXCEPT ![d] = r]
        /\ Send(r, d, first, first)
  BY CheckoutEffect
<1>3. first \in Messages /\ first \in Label /\ Current(r) \in Call
  BY <1>1, CurrentIsCall DEF Messages, Label
<1>4. /\ pc' = [pc EXCEPT ![r] = first]
      /\ heard' = [heard EXCEPT ![r] = IF d \in closed THEN "error" ELSE None]
  BY <1>1, <1>2, <1>3, SendEffect
<1>5. /\ pc'[r] = first /\ heard'[r] = IF d \in closed THEN "error" ELSE None
      /\ \A q \in Req \ {r}: pc'[q] = pc[q] /\ heard'[q] = heard[q]
      /\ place'[d] = r /\ \A c \in Conn \ {d}: place'[c] = place[c]
  BY <1>1, <1>2, <1>4 DEF Types
<1>6. closed' = closed /\ faults' = faults
  BY CheckoutEffect
<1>7. pc[r] \notin Label
  BY CheckoutEffect DEF Label, Messages
<1>8. ASSUME NEW c \in Spoilt' PROVE c \in Spoilt
  <2>1. CASE c = d
    BY <1>3, <1>5, <1>6, <1>8, <2>1, NameAssumption DEF Spoilt, Failing
  <2>2. CASE c # d
    <3>1. c \in Conn /\ place'[c] = place[c]
      BY <1>5, <1>8, <2>2 DEF Spoilt
    <3>2. place[c] \in Req => place[c] # r
      BY <1>1, <1>7, <3>1, UserInCall
    <3>3. QED
      BY <1>5, <1>6, <1>8, <3>1, <3>2 DEF Spoilt, Failing
  <2>3. QED
    BY <2>1, <2>2
<1>9. Out' = Out \cup {d}
  BY <1>5 DEF Out
<1>10. Cardinality(Out') <= MaxSize
  <2>1. IsFiniteSet(Out)
    BY SizeAssumption, FS_Subset DEF Out
  <2>2. Cardinality(Out \cup {d}) \in {Cardinality(Out), Cardinality(Out) + 1}
    BY <2>1, FS_AddElement
  <2>3. Cardinality(Out) \in Nat
    BY <2>1, FS_CardinalityType
  <2>4. QED
    BY <1>1, <1>9, <2>2, <2>3, SizeAssumption
<1>11. QED
  BY <1>6, <1>8, <1>10 DEF CostsAFault

\* A connection that is let go of is as good as it was; none that was spoilt by
\* an error goes back to the pool without being one the pool knows to be closed.
LEMMA LetsGoCounts ==
    ASSUME Types, Whose, NEW r \in Req, conn[r] # None, GiveBack(r) \/ (Discard(r) /\ Failing(r)),
           \A q \in Req \ {r}: pc'[q] = pc[q] /\ heard'[q] = heard[q],
           closed' = closed, faults' = faults
    PROVE  CostsAFault /\ Out' \subseteq Out
<1>1. PICK d \in Conn: d = conn[r] /\ place[d] = r
  BY DEF Types, Whose
<1>2. \A c \in Conn \ {d}: place'[c] = place[c]
  BY <1>1 DEF GiveBack, Discard, Types
<1>3. \/ place'[d] = "pool"
      \/ place'[d] = "gone" /\ d \in closed
      \/ place'[d] = "detached" /\ Failing(r)
  BY <1>1 DEF GiveBack, Discard, Types
<1>4. \A c \in Conn \ {d}: place[c] # r
  BY <1>1 DEF Whose
<1>5. ASSUME NEW c \in Spoilt' PROVE c \in Spoilt
  <2>1. CASE c = d
    BY <1>1, <1>3, <1>5, <2>1, NameAssumption DEF Spoilt
  <2>2. CASE c # d
    BY <1>2, <1>4, <1>5, <2>2 DEF Spoilt, Failing
  <2>3. QED
    BY <2>1, <2>2
<1>6. Out' \subseteq Out
  BY <1>2, <1>3, NameAssumption DEF Out
<1>7. QED
  BY <1>5, <1>6 DEF CostsAFault

LEMMA FinishCounts ==
    ASSUME ClientInv, NEW r \in Req, Finish(r)
    PROVE  CostsAFault /\ Out' \subseteq Out
<1>1. /\ Types /\ Whose /\ conn[r] # None /\ GiveBack(r)
      /\ closed' = closed /\ faults' = faults
  BY DEF ClientInv, Finish, Whose, Label, Messages
<1>2. Enqueue(r) \/ (pc' = [pc EXCEPT ![r] = "done"] /\ heard' = heard)
  BY DEF Finish
<1>3. \A q \in Req \ {r}: pc'[q] = pc[q] /\ heard'[q] = heard[q]
  BY <1>1, <1>2 DEF Enqueue, Types
<1>4. QED
  BY <1>1, <1>3, LetsGoCounts

LEMMA FailCounts ==
    ASSUME ClientInv, NEW r \in Req, FailCall(r)
    PROVE  CostsAFault /\ Out' \subseteq Out
<1>1. /\ Types /\ Whose /\ conn[r] # None /\ (GiveBack(r) \/ Discard(r)) /\ Failing(r)
      /\ pc' = [pc EXCEPT ![r] = "done"] /\ heard' = heard
      /\ closed' = closed /\ faults' = faults
  BY DEF ClientInv, FailCall, Failing
<1>2. \A q \in Req \ {r}: pc'[q] = pc[q] /\ heard'[q] = heard[q]
  BY <1>1 DEF Types
<1>3. QED
  BY <1>1, <1>2, LetsGoCounts

LEMMA WireTimeoutCounts ==
    ASSUME ClientInv, NEW r \in Req, WireTimeout(r)
    PROVE  CostsAFault /\ place' = place
<1>1. /\ Types /\ Whose /\ conn[r] # None /\ heard' = [heard EXCEPT ![r] = "error"]
      /\ pc' = pc /\ place' = place /\ closed' = closed
      /\ faults < MaxFaults /\ faults' = faults + 1
  BY DEF ClientInv, WireTimeout
<1>2. \A q \in Req \ {r}: heard'[q] = heard[q]
  BY <1>1 DEF Types
<1>3. \A c \in Conn: place[c] = r => c = conn[r]
  BY <1>1 DEF Whose
<1>4. Spoilt' \subseteq Spoilt \cup {conn[r]}
  BY <1>1, <1>2, <1>3 DEF Spoilt, Failing
<1>5. QED
  BY <1>1, <1>4 DEF CostsAFault

LEMMA ServesCounts ==
    ASSUME ClientInv, NEW c \in Conn, Serves(c)
    PROVE  CostsAFault /\ place' = place
<1>1. PICK answer \in {"ok", "error"}:
        /\ heard' = [r \in Req |-> IF Hears(r, c) THEN answer ELSE heard[r]]
        /\ answer = "error" => StatementFails(c)
  BY ServesEffect
<1>2. Types /\ Whose /\ place' = place /\ closed' = closed /\ pc' = pc
  BY ServesEffect DEF ClientInv
<1>3. \A r \in Req: heard'[r] = "error" => heard[r] = "error" \/ (answer = "error" /\ conn[r] = c)
  BY <1>1 DEF Hears
<1>4. Spoilt' \subseteq Spoilt \cup (IF answer = "error" THEN {c} ELSE {})
  BY <1>2, <1>3 DEF Spoilt, Failing, Whose
<1>5. CASE StatementFails(c)
  <2>1. Spoilt' \subseteq Spoilt \cup {c}
    BY <1>4
  <2>2. QED
    BY <1>2, <1>5, <2>1, ServesEffect DEF CostsAFault
<1>6. CASE ~StatementFails(c)
  BY <1>1, <1>2, <1>4, <1>6, ServesEffect DEF CostsAFault
<1>7. QED
  BY <1>5, <1>6

LEMMA NoticeCounts ==
    ASSUME ClientInv, NEW c \in Conn, NoticeDiscard(c)
    PROVE  CostsAFault /\ Out' \subseteq Out
<1>1. /\ Types /\ place[c] = "detached" /\ place' = [place EXCEPT ![c] = "gone"]
      /\ pc' = pc /\ heard' = heard /\ closed' = closed /\ faults' = faults
  BY DEF ClientInv, NoticeDiscard
<1>2. place'[c] = "gone" /\ \A d \in Conn \ {c}: place'[d] = place[d]
  BY <1>1 DEF Types
<1>3. Out' \subseteq Out
  BY <1>2, NameAssumption DEF Out
<1>4. ASSUME NEW d \in Spoilt' PROVE d \in Spoilt
  BY <1>1, <1>2, <1>4, NameAssumption DEF Spoilt, Failing
<1>5. QED
  BY <1>1, <1>3, <1>4 DEF CostsAFault

LEMMA LoseCounts ==
    ASSUME ClientInv, NEW c \in Conn, Lose(c)
    PROVE  CostsAFault /\ place' = place
<1>1. /\ Types /\ Whose /\ closed' = closed \cup {c} /\ pc' = pc /\ place' = place
      /\ heard' = [r \in Req |->
           IF conn[r] = c /\ heard[r] = None THEN "error" ELSE heard[r]]
      /\ faults < MaxFaults /\ faults' = faults + 1
  BY DEF ClientInv, Lose
<1>2. Spoilt' \subseteq Spoilt \cup {c}
  BY <1>1 DEF Spoilt, Failing, Whose
<1>3. QED
  BY <1>1, <1>2 DEF CostsAFault

LEMMA CountInit == Init => CountInv
<1> SUFFICES ASSUME Init PROVE CountInv
  OBVIOUS
<1>1. Spoilt = {} /\ Out = {}
  BY NameAssumption DEF Init, Spoilt, Out
<1>2. QED
  BY <1>1, SizeAssumption, FS_EmptySet DEF Init, CountInv

LEMMA CountStep == ClientInv /\ CountInv /\ [Next]_vars => CountInv'
<1> SUFFICES ASSUME ClientInv, CountInv, [Next]_vars PROVE CountInv'
  OBVIOUS
<1>1. CASE UNCHANGED vars
  BY <1>1 DEF vars, client, server, history, CountInv, Spoilt, Failing, Out
<1>2. CASE ~UNCHANGED vars
  <2>1. CostsAFault /\ (Out' \subseteq Out \/ Cardinality(Out') <= MaxSize)
    <3>1. place' = place => Out' = Out
      BY DEF Out
    <3>2. ASSUME NEW r \in Req, Arrive(r) \/ Handle(r) \/ WireTimeout(r) \/ PoolTimeout(r)
          PROVE  CostsAFault /\ (Out' \subseteq Out \/ Cardinality(Out') <= MaxSize)
      BY <3>1, <3>2, ArriveSpoilsNone, CheckoutCounts, ContinueSpoilsNone,
         FinishCounts, StartRollbackSpoilsNone, FailCounts, WireTimeoutCounts,
         PoolTimeoutSpoilsNone DEF Handle
    <3>3. ASSUME NEW c \in Conn, Serve(c) \/ StatementFails(c) \/ Lose(c)
          PROVE  CostsAFault /\ (Out' \subseteq Out \/ Cardinality(Out') <= MaxSize)
      BY <3>1, <3>3, ServesCounts, NoticeCounts, LoseCounts DEF Serve, Serves
    <3>4. QED
      BY <1>2, <3>2, <3>3 DEF Next, Quiet
  <2>2. Types
    BY DEF ClientInv
  <2>3. IsFiniteSet(Out) /\ IsFiniteSet(Out')
    BY SizeAssumption, FS_Subset DEF Out
  <2>4. Cardinality(Out') <= MaxSize
    <3>1. CASE Out' \subseteq Out
      <4>1. Cardinality(Out') <= Cardinality(Out)
        BY <2>3, <3>1, FS_Subset
      <4>2. Cardinality(Out') \in Nat /\ Cardinality(Out) \in Nat
        BY <2>3, FS_CardinalityType
      <4>3. QED
        BY <4>1, <4>2, SizeAssumption DEF CountInv
    <3>2. QED
      BY <2>1, <3>1
  <2>5. QED
    BY <2>1, <2>2, <2>4, SpoiltIsCounted DEF CountInv
<1>3. QED
  BY <1>1, <1>2

-----------------------------------------------------------------------------
\* What a step leaves alone.

Same(c) ==
    /\ wire'[c] = wire[c] /\ open'[c] = open[c] /\ wrote'[c] = wrote[c]
    /\ lock' = c => lock = c

LEMMA CallOrNone ==
    ASSUME Types
    PROVE  LostSessions \subseteq Call /\ None \notin LostSessions
BY NameAssumption DEF Types, LostSessions

LEMMA LostSessionsStay ==
    ASSUME lost \subseteq lost', \A call \in lost: KindOf(call)' = KindOf(call)
    PROVE  LostSessions \subseteq LostSessions'
BY DEF LostSessions

LEMMA UnusedIsHarmless ==
    ASSUME NEW c \in Conn, NEW own, Unused(c)
    PROVE  Harmless(c, own)
BY DEF Unused, Harmless, Calm

LEMMA SameStays ==
    ASSUME NEW c \in Conn, Same(c), LostSessions \subseteq LostSessions'
    PROVE  /\ Unused(c) => Unused(c)'
           /\ Calm(c) => Calm(c)'
           /\ \A own: Harmless(c, own) => Harmless(c, own)'
           /\ \A call: Begun(c, call) => Begun(c, call)'
<1>1. Unused(c) => Unused(c)'
  BY DEF Same, Unused
<1>2. Calm(c) => Calm(c)'
  BY DEF Same, Calm
<1>3. EndsSoon(c) => EndsSoon(c)'
  BY DEF Same, EndsSoon
<1>4. ASSUME NEW own, Harmless(c, own) PROVE Harmless(c, own)'
  BY <1>2, <1>3, <1>4 DEF Same, Harmless
<1>5. ASSUME NEW call, Begun(c, call) PROVE Begun(c, call)'
  BY <1>5 DEF Same, Begun
<1>6. QED
  BY <1>1, <1>2, <1>4, <1>5

LEMMA SameKeepsWire ==
    ASSUME NEW c \in Conn, Same(c), LostSessions \subseteq LostSessions', WireInv(c),
           place'[c] = place[c], c \in closed' => c \in closed
    PROVE  WireInv(c)'
<1>1. \A i \in 1..Len(wire'[c]): wire'[c][i].msg \in {"STATEMENT", "COMMIT"} => i = 1
  BY DEF Same, WireInv
<1>2. wire'[c] # <<>> /\ wire'[c][1].msg = "STATEMENT" =>
        Begun(c, wire[c][1].by)' /\ wrote'[c] = {}
  BY DEF Same, WireInv, Begun
<1>3. wire'[c] # <<>> /\ wire'[c][1].msg = "COMMIT" => wrote'[c] \subseteq {wire'[c][1].by}
  BY DEF Same, WireInv
<1>4. /\ c \in closed' \/ place'[c] \in {"unmade", "gone"} => Unused(c)'
      /\ place'[c] = "pool" => Harmless(c, {})'
  BY SameStays DEF WireInv
<1>5. QED
  BY <1>1, <1>2, <1>3, <1>4 DEF WireInv, Same, Begun

LEMMA SameKeepsUser ==
    ASSUME NEW r \in Req, NEW c \in Conn, conn[r] = c, conn'[r] = c, Same(c), UserInv(r),
           pc'[r] = pc[r], heard'[r] = heard[r], at'[r] = at[r],
           c \in closed => c \in closed', lost \subseteq lost',
           LostSessions \subseteq LostSessions'
    PROVE  UserInv(r)'
<1> SUFFICES ASSUME c \notin closed'
             PROVE  /\ pc[r] = "BEGIN" => InBegin(r)'
                    /\ pc[r] = "SETTINGS" => InSettings(r)'
                    /\ pc[r] = "STATEMENT" => InStatement(r)'
                    /\ pc[r] = "COMMIT" => InCommit(r)'
                    /\ pc[r] \in {"SELECT_1", "ROLLBACK_OPENING"} => Harmless(c, {})'
  BY DEF UserInv
<1>0. PICK call: call = Current(r)
  OBVIOUS
<1>1. Current(r)' = call /\ wire'[c] = wire[c] /\ wrote'[c] = wrote[c]
  BY <1>0 DEF Current, Same
<1>2. \A m: Mine(r, m)' = Mine(r, m)
  BY <1>0, <1>1 DEF Mine
<1>3. \A m: OnlyMine(r, m) => OnlyMine(r, m)'
  BY <1>1, <1>2 DEF OnlyMine
<1>4. conn[r] # None /\ conn[r] \notin closed
  BY NameAssumption
<1>5. ASSUME pc[r] = "BEGIN" PROVE InBegin(r)'
  <2>1. InBegin(r)
    BY <1>4, <1>5 DEF UserInv
  <2>2. Harmless(c, {call})' /\ (heard[r] = "ok" => Begun(c, call)')
    BY <1>0, <2>1, SameStays DEF InBegin
  <2>3. Harmless(conn[r], {Current(r)})' /\ (heard[r] = "ok" => Begun(conn[r], Current(r))')
    BY <1>1, <2>2 DEF Harmless, Begun, Calm, EndsSoon
  <2>4. QED
    BY <1>0, <1>1, <1>2, <2>1, <2>3 DEF InBegin
<1>6. ASSUME pc[r] = "SETTINGS" PROVE InSettings(r)'
  <2>1. InSettings(r)
    BY <1>4, <1>6 DEF UserInv
  <2>2. Calm(c)' /\ Begun(c, call)'
    BY <1>0, <2>1, SameStays DEF InSettings
  <2>3. QED
    BY <1>0, <1>1, <1>3, <2>1, <2>2 DEF InSettings, Calm, Begun
<1>7. ASSUME pc[r] = "STATEMENT" PROVE InStatement(r)'
  <2>1. InStatement(r)
    BY <1>4, <1>7 DEF UserInv
  <2>2. Begun(c, call)'
    BY <1>0, <2>1, SameStays DEF InStatement
  <2>3. QED
    BY <1>0, <1>1, <1>3, <2>1, <2>2 DEF InStatement, Begun
<1>8. ASSUME pc[r] = "COMMIT" PROVE InCommit(r)'
  <2>1. InCommit(r)
    BY <1>4, <1>8 DEF UserInv
  <2>2. wire[c] = <<>> => Unused(c)'
    BY <2>1, SameStays DEF InCommit
  <2>3. QED
    BY <1>1, <1>3, <2>1, <2>2 DEF InCommit, Unused
<1>9. ASSUME pc[r] \in {"SELECT_1", "ROLLBACK_OPENING"} PROVE Harmless(c, {})'
  BY <1>4, <1>9, SameStays DEF UserInv
<1>10. QED
  BY <1>5, <1>6, <1>7, <1>8, <1>9

\* A step that touches no other connection than c, and no request that goes on
\* using another, keeps the invariant of all of those.
LEMMA OthersAreKept ==
    ASSUME Types', ServerInv, NEW c \in Conn \cup {None},
           lost \subseteq lost', LostSessions \subseteq LostSessions',
           \A d \in Conn \ {c}: Same(d) /\ place'[d] = place[d] /\ (d \in closed' <=> d \in closed),
           \A r \in Req: conn'[r] \notin {c, None} =>
               /\ conn'[r] = conn[r] /\ pc'[r] = pc[r]
               /\ heard'[r] = heard[r] /\ at'[r] = at[r]
    PROVE  /\ \A d \in Conn \ {c}: WireInv(d)'
           /\ \A r \in Req: conn'[r] # c => UserInv(r)'
<1>1. ASSUME NEW d \in Conn \ {c} PROVE WireInv(d)'
  BY <1>1, SameKeepsWire DEF ServerInv
<1>2. ASSUME NEW r \in Req, conn'[r] # c PROVE UserInv(r)'
  <2>1. CASE conn'[r] = None
    BY <2>1 DEF UserInv
  <2>2. CASE conn'[r] # None
    <3>1. PICK d \in Conn: d = conn'[r] /\ d # c
      BY <1>2, <2>2 DEF Types
    <3>2. UserInv(r) /\ conn[r] = d
      BY <1>2, <2>2, <3>1 DEF ServerInv
    <3>3. QED
      BY <1>2, <2>2, <3>1, <3>2, SameKeepsUser
  <2>3. QED
    BY <2>1, <2>2
<1>3. QED
  BY <1>1, <1>2

\* So does one that touches none at all.
LEMMA HistoryStays ==
    ASSUME History, ran' = ran, kept' = kept, LostSessions \subseteq LostSessions'
    PROVE  History'
BY DEF History

LEMMA ElsewhereKeepsServer ==
    ASSUME Types, Types', ServerInv, lost' = lost, LostSessions \subseteq LostSessions',
           UNCHANGED <<server, place, closed, conn, ran, kept>>,
           \A r \in Req: conn[r] # None =>
               pc'[r] = pc[r] /\ heard'[r] = heard[r] /\ at'[r] = at[r]
    PROVE  ServerInv'
<1>1. \A d \in Conn: Same(d)
  BY DEF Same, server
<1>2. (\A d \in Conn: WireInv(d)') /\ \A r \in Req: conn'[r] # None => UserInv(r)'
  BY <1>1, NameAssumption, OthersAreKept
<1>3. \A r \in Req: UserInv(r)'
  BY <1>2 DEF UserInv
<1>4. History'
  BY HistoryStays DEF ServerInv
<1>5. QED
  BY <1>2, <1>3, <1>4 DEF ServerInv

\* The calls of the past keep their kind: only an idle request takes a program.
LEMMA SameProgram ==
    ASSUME prog' = prog, lost \subseteq lost'
    PROVE  LostSessions \subseteq LostSessions'
BY DEF LostSessions, KindOf

LEMMA ArriveKeepsServer ==
    ASSUME ClientInv, ClientInv', ServerInv, NEW r \in Req, Arrive(r)
    PROVE  ServerInv'
<1>1. /\ Types /\ Types' /\ Whose /\ PastCalls /\ pc[r] = "idle" /\ Enqueue(r)
      /\ at' = [at EXCEPT ![r] = 1] /\ conn' = conn /\ place' = place
      /\ closed' = closed /\ UNCHANGED server /\ ran' = ran /\ kept' = kept /\ lost' = lost
  BY DEF ClientInv, Arrive, history
<1>2. \A q \in Req \ {r}: prog'[q] = prog[q]
  BY <1>1 DEF Arrive, Types
<1>3. conn[r] = None
  BY <1>1 DEF Whose, Label, Messages
<1>4. LostSessions \subseteq LostSessions'
  <2>1. \A call \in lost: call[1] \in Req \ {r}
    BY <1>1 DEF Types, PastCalls, Past, Call
  <2>2. \A call \in lost: KindOf(call)' = KindOf(call)
    BY <1>2, <2>1 DEF KindOf
  <2>3. QED
    BY <1>1, <2>2, LostSessionsStay
<1>5. \A q \in Req \ {r}: pc'[q] = pc[q] /\ heard'[q] = heard[q] /\ at'[q] = at[q]
  BY <1>1, EnqueueEffect DEF Types
<1>6. QED
  BY <1>1, <1>3, <1>4, <1>5, ElsewhereKeepsServer

LEMMA PoolTimeoutKeepsServer ==
    ASSUME ClientInv, ClientInv', ServerInv, NEW r \in Req, PoolTimeout(r)
    PROVE  ServerInv'
<1>1. /\ Types /\ Types' /\ Whose /\ pc[r] = "queued" /\ pc' = [pc EXCEPT ![r] = "done"]
      /\ prog' = prog /\ at' = at /\ heard' = heard /\ conn' = conn /\ place' = place
      /\ closed' = closed /\ UNCHANGED server /\ ran' = ran /\ kept' = kept /\ lost' = lost
  BY DEF ClientInv, PoolTimeout, history
<1>2. conn[r] = None
  BY <1>1 DEF Whose, Label, Messages
<1>3. \A q \in Req \ {r}: pc'[q] = pc[q]
  BY <1>1 DEF Types
<1>4. QED
  BY <1>1, <1>2, <1>3, SameProgram, ElsewhereKeepsServer

LEMMA WireTimeoutKeepsServer ==
    ASSUME ClientInv, ClientInv', ServerInv, NEW r \in Req, WireTimeout(r)
    PROVE  ServerInv'
<1>1. /\ Types /\ Types' /\ Whose /\ Whose' /\ conn[r] # None
      /\ heard' = [heard EXCEPT ![r] = "error"]
      /\ lost' = (IF pc[r] = "BEGIN" THEN lost \cup {Current(r)} ELSE lost)
      /\ prog' = prog /\ at' = at /\ pc' = pc /\ conn' = conn /\ place' = place
      /\ closed' = closed /\ UNCHANGED server /\ ran' = ran /\ kept' = kept
  BY DEF ClientInv, WireTimeout
<1>2. PICK c \in Conn: c = conn[r]
  BY <1>1 DEF Types
<1>3. /\ heard'[r] = "error" /\ \A q \in Req \ {r}: heard'[q] = heard[q]
      /\ \A q \in Req: conn[q] = c => q = r
  BY <1>1, <1>2 DEF Types, Whose
<1>4. lost \subseteq lost' /\ LostSessions \subseteq LostSessions'
  BY <1>1, SameProgram
<1>5. \A d \in Conn: Same(d)
  BY <1>1 DEF Same, server
<1>6. (\A d \in Conn \ {c}: WireInv(d)') /\ \A q \in Req: conn'[q] # c => UserInv(q)'
  BY <1>1, <1>2, <1>3, <1>4, <1>5, OthersAreKept
<1>7. WireInv(c)'
  BY <1>1, <1>4, <1>5, SameKeepsWire DEF ServerInv
<1>8. UserInv(r)'
  <2> SUFFICES ASSUME c \notin closed
               PROVE  /\ pc[r] = "BEGIN" => InBegin(r)'
                      /\ pc[r] = "SETTINGS" => InSettings(r)'
                      /\ pc[r] = "STATEMENT" => InStatement(r)'
                      /\ pc[r] = "COMMIT" => InCommit(r)'
                      /\ pc[r] \in {"SELECT_1", "ROLLBACK_OPENING"} => Harmless(c, {})'
    BY <1>1, <1>2 DEF UserInv
  <2>1. /\ pc[r] = "BEGIN" => InBegin(r)
        /\ pc[r] = "SETTINGS" => InSettings(r)
        /\ pc[r] = "STATEMENT" => InStatement(r)
        /\ pc[r] = "COMMIT" => InCommit(r)
        /\ pc[r] \in {"SELECT_1", "ROLLBACK_OPENING"} => Harmless(c, {})
    BY <1>1, <1>2 DEF ServerInv, UserInv
  <2>2. PICK call: call = Current(r)
    OBVIOUS
  <2>3. /\ Current(r)' = call /\ (\A m: Mine(r, m)' = Mine(r, m)) /\ wire' = wire
        /\ wrote' = wrote
    BY <1>1, <2>2 DEF Current, Mine, server
  <2>4. /\ Unused(c) => Unused(c)'
        /\ Calm(c) => Calm(c)'
        /\ \A own: Harmless(c, own) => Harmless(c, own)'
        /\ \A b: Begun(c, b) => Begun(c, b)'
    BY <1>4, <1>5, SameStays
  <2>5. \A m: OnlyMine(r, m) => OnlyMine(r, m)'
    BY <1>1, <1>3, <2>3, NameAssumption DEF OnlyMine
  <2>6. ASSUME pc[r] = "BEGIN" PROVE InBegin(r)'
    <3>1. Harmless(c, {call})'
      BY <1>2, <2>1, <2>2, <2>4, <2>6 DEF InBegin
    <3>2. Harmless(conn[r], {Current(r)})'
      BY <1>1, <1>2, <2>3, <3>1 DEF Harmless, Calm, EndsSoon
    <3>3. Current(r)' \in lost'
      BY <1>1, <2>2, <2>3, <2>6
    <3>4. heard'[r] # None /\ heard'[r] # "ok"
      BY <1>3, NameAssumption
    <3>5. QED
      BY <3>2, <3>3, <3>4 DEF InBegin
  <2>7. ASSUME pc[r] = "SETTINGS" PROVE InSettings(r)'
    <3>1. OnlyMine(r, "SETTINGS")' /\ Calm(c)' /\ Begun(c, call)'
      BY <1>2, <2>1, <2>2, <2>4, <2>5, <2>7 DEF InSettings
    <3>2. QED
      BY <1>1, <1>2, <2>3, <3>1 DEF InSettings, Calm, Begun
  <2>8. ASSUME pc[r] = "STATEMENT" PROVE InStatement(r)'
    <3>1. OnlyMine(r, "STATEMENT")' /\ wrote[c] \subseteq {call} /\ Begun(c, call)'
      BY <1>2, <2>1, <2>2, <2>4, <2>5, <2>8 DEF InStatement
    <3>2. QED
      BY <1>1, <1>2, <2>3, <3>1 DEF InStatement, Begun
  <2>9. ASSUME pc[r] = "COMMIT" PROVE InCommit(r)'
    <3>1. OnlyMine(r, "COMMIT")' /\ (wire[c] = <<>> => Unused(c)')
      BY <1>2, <2>1, <2>4, <2>5, <2>9 DEF InCommit
    <3>2. QED
      BY <1>1, <1>2, <2>3, <3>1 DEF InCommit, Unused
  <2>10. ASSUME pc[r] \in {"SELECT_1", "ROLLBACK_OPENING"} PROVE Harmless(c, {})'
    BY <2>1, <2>4, <2>10
  <2>11. QED
    BY <2>6, <2>7, <2>8, <2>9, <2>10
<1>9. History'
  BY <1>1, <1>4, HistoryStays DEF ServerInv
<1>10. QED
  BY <1>1, <1>2, <1>3, <1>6, <1>7, <1>8, <1>9 DEF ServerInv

\* A connection goes back to the pool when it is harmless, or leaves it.
LEMMA LetGoKeepsServer ==
    ASSUME Types, Whose, Types', ServerInv, NEW r \in Req, conn[r] # None,
           GiveBack(r) \/ Discard(r),
           GiveBack(r) /\ conn[r] \notin closed => Harmless(conn[r], {}),
           \A q \in Req \ {r}: pc'[q] = pc[q] /\ heard'[q] = heard[q] /\ at'[q] = at[q],
           prog' = prog, closed' = closed, UNCHANGED server,
           ran' = ran, kept' = kept, lost' = lost
    PROVE  ServerInv'
<1>1. PICK c \in Conn: c = conn[r]
  BY DEF Types
<1>2. LostSessions \subseteq LostSessions'
  BY SameProgram
<1>3. \A d \in Conn: Same(d)
  BY DEF Same, server
<1>4. \A d \in Conn \ {c}: place'[d] = place[d]
  BY <1>1 DEF GiveBack, Discard, Types
<1>5. conn'[r] = None /\ \A q \in Req \ {r}: conn'[q] = conn[q] /\ conn[q] # c
  BY <1>1 DEF GiveBack, Discard, Types, Whose
<1>6. (\A d \in Conn \ {c}: WireInv(d)') /\ \A q \in Req: conn'[q] # c => UserInv(q)'
  BY <1>2, <1>3, <1>4, <1>5, OthersAreKept
<1>7. WireInv(c)'
  <2>1. WireInv(c) /\ wire' = wire /\ wrote' = wrote
    BY DEF ServerInv, server
  <2>2. /\ Unused(c) => Unused(c)'
        /\ \A own: Harmless(c, own) => Harmless(c, own)'
        /\ \A b: Begun(c, b) => Begun(c, b)'
    BY <1>2, <1>3, SameStays
  <2>3. \/ place'[c] = "pool" /\ c \notin closed /\ GiveBack(r)
        \/ place'[c] = "detached"
        \/ place'[c] = "gone" /\ c \in closed
    BY <1>1 DEF GiveBack, Discard, Types
  <2>4. place'[c] = "pool" => Harmless(c, {})'
    BY <1>1, <2>2, <2>3
  <2>5. c \in closed' \/ place'[c] \in {"unmade", "gone"} => Unused(c)'
    BY <2>1, <2>2, <2>3 DEF WireInv
  <2>6. QED
    BY <2>1, <2>2, <2>4, <2>5 DEF WireInv, Begun
<1>8. History'
  BY <1>2, HistoryStays DEF ServerInv
<1>9. QED
  BY <1>1, <1>5, <1>6, <1>7, <1>8, NameAssumption DEF ServerInv

LEMMA FinishKeepsServer ==
    ASSUME ClientInv, ClientInv', ServerInv, NEW r \in Req, Finish(r)
    PROVE  ServerInv'
<1>1. /\ Types /\ Types' /\ Whose /\ conn[r] # None /\ GiveBack(r)
      /\ heard[r] = "ok" /\ pc[r] \in {"COMMIT", "SELECT_1"}
      /\ prog' = prog /\ closed' = closed /\ UNCHANGED server
      /\ ran' = ran /\ kept' = kept /\ lost' = lost
  BY DEF ClientInv, Finish, Whose, Label, Messages, history
<1>2. PICK c \in Conn: c = conn[r]
  BY <1>1 DEF Types
<1>3. c \notin closed => Harmless(c, {})
  <2>1. UserInv(r)
    BY DEF ServerInv
  <2>2. CASE pc[r] = "COMMIT"
    BY <1>1, <1>2, <2>1, <2>2, UnusedIsHarmless DEF UserInv, InCommit, OnlyMine
  <2>3. CASE pc[r] = "SELECT_1"
    BY <1>1, <1>2, <2>1, <2>3 DEF UserInv
  <2>4. QED
    BY <1>1, <2>2, <2>3
<1>4. \A q \in Req \ {r}: pc'[q] = pc[q] /\ heard'[q] = heard[q] /\ at'[q] = at[q]
  <2>1. \/ at' = [at EXCEPT ![r] = @ + 1] /\ Enqueue(r)
        \/ pc' = [pc EXCEPT ![r] = "done"] /\ at' = at /\ queue' = queue /\ heard' = heard
    BY DEF Finish
  <2>2. QED
    BY <1>1, <2>1 DEF Enqueue, Types
<1>5. QED
  BY <1>1, <1>2, <1>3, <1>4, LetGoKeepsServer

LEMMA FailKeepsServer ==
    ASSUME ClientInv, ClientInv', ServerInv, NEW r \in Req, FailCall(r)
    PROVE  ServerInv'
<1>1. /\ Types /\ Types' /\ Whose /\ conn[r] # None
      /\ heard[r] = "error" \/ pc[r] \in {"ROLLBACK", "ROLLBACK_OPENING"}
      /\ (OnError(r) = "giveBack" /\ GiveBack(r)) \/ (OnError(r) = "discard" /\ Discard(r))
      /\ pc' = [pc EXCEPT ![r] = "done"] /\ at' = at /\ heard' = heard
      /\ prog' = prog /\ closed' = closed /\ UNCHANGED server
      /\ ran' = ran /\ kept' = kept /\ lost' = lost
  BY DEF ClientInv, FailCall, history
<1>2. PICK c \in Conn: c = conn[r]
  BY <1>1 DEF Types
<1>3. ASSUME OnError(r) = "giveBack", c \notin closed PROVE Harmless(c, {})
  <2>1. UserInv(r)
    BY DEF ServerInv
  <2>2. \/ pc[r] \in {"SELECT_1", "ROLLBACK_OPENING"}
        \/ pc[r] = "BEGIN" /\ KindOf(Current(r)) = "session"
    BY <1>3 DEF OnError
  <2>3. CASE pc[r] \in {"SELECT_1", "ROLLBACK_OPENING"}
    BY <1>1, <1>2, <1>3, <2>1, <2>3 DEF UserInv
  <2>4. CASE pc[r] = "BEGIN" /\ KindOf(Current(r)) = "session"
    <3>1. InBegin(r) /\ heard[r] = "error"
      BY <1>1, <1>2, <1>3, <2>1, <2>4 DEF UserInv
    <3>2. Harmless(c, {Current(r)}) /\ Current(r) \in LostSessions
      BY <1>2, <2>4, <3>1 DEF InBegin, LostSessions
    <3>3. QED
      BY <3>2 DEF Harmless
  <2>5. QED
    BY <2>2, <2>3, <2>4
<1>4. \A q \in Req \ {r}: pc'[q] = pc[q]
  BY <1>1 DEF Types
<1>5. ASSUME OnError(r) = "discard", Discard(r), GiveBack(r), c \notin closed PROVE FALSE
  BY <1>1, <1>2, <1>5 DEF GiveBack, Discard, Types
<1>6. GiveBack(r) /\ c \notin closed => Harmless(c, {})
  BY <1>1, <1>3, <1>5
<1>7. QED
  BY <1>1, <1>2, <1>4, <1>6, LetGoKeepsServer

-----------------------------------------------------------------------------
\* What a message does to the connection it is sent on.

\* A wire without statements and COMMITs breaks none of the rules for them.
LEMMA QuietWire ==
    ASSUME NEW c \in Conn, Types',
           \A i \in 1..Len(wire'[c]): wire'[c][i].msg \notin {"STATEMENT", "COMMIT"},
           c \in closed' \/ place'[c] \in {"unmade", "gone"} => Unused(c)',
           place'[c] = "pool" => Harmless(c, {})'
    PROVE  WireInv(c)'
<1>1. wire'[c] # <<>> => 1 \in 1..Len(wire'[c])
  BY DEF Types
<1>2. QED
  BY <1>1 DEF WireInv

LEMMA HarmlessAppend ==
    ASSUME Types, NEW c \in Conn, NEW m \in Message, wire'[c] = Append(wire[c], m),
           m.msg \notin {"STATEMENT", "COMMIT"},
           open' = open, wrote' = wrote, lock' = lock,
           LostSessions \subseteq LostSessions',
           NEW own, NEW owners, own \subseteq owners, m.msg = "BEGIN" => m.by \in owners,
           Harmless(c, own)
    PROVE  Harmless(c, owners)'
<1>1. wire[c] \in Seq(Message)
  BY DEF Types
<1>2. /\ Len(wire[c]) \in Nat /\ Len(wire'[c]) = Len(wire[c]) + 1
      /\ wire'[c][Len(wire[c]) + 1] = m
      /\ \A i \in 1..Len(wire[c]): wire'[c][i] = wire[c][i]
  BY <1>1, AppendMessage
<1>3. \A i \in 1..Len(wire'[c]): i \in 1..Len(wire[c]) \/ i = Len(wire[c]) + 1
  BY <1>2
<1>4. Calm(c)'
  BY <1>2, <1>3 DEF Harmless, Calm
<1>5. EndsSoon(c) => EndsSoon(c)'
  BY <1>2 DEF EndsSoon
<1>6. \A i \in 1..Len(wire'[c]):
        wire'[c][i].msg = "BEGIN" => wire'[c][i].by \in owners \cup LostSessions'
  BY <1>2, <1>3 DEF Harmless
<1>7. QED
  BY <1>4, <1>5, <1>6 DEF Harmless

\* It is enough to look at the connection and at the user, where it is not closed.
LEMMA SendKeepsServer ==
    ASSUME Types, Types', ServerInv, NEW r \in Req, NEW c \in Conn,
           NEW message \in Messages, NEW label \in Label, Current(r) \in Call,
           Send(r, c, message, label), conn'[r] = c, place'[c] = r,
           \A q \in Req \ {r}: conn'[q] = conn[q] /\ conn[q] # c,
           \A d \in Conn \ {c}: place'[d] = place[d],
           prog' = prog, at' = at, closed' = closed, open' = open, wrote' = wrote,
           lock' = lock, ran' = ran, kept' = kept, lost' = lost,
           c \notin closed => WireInv(c)' /\ UserInv(r)'
    PROVE  ServerInv'
<1>1. /\ \A q \in Req \ {r}: pc'[q] = pc[q] /\ heard'[q] = heard[q]
      /\ \A d \in Conn \ {c}: wire'[d] = wire[d]
      /\ c \in closed => wire'[c] = wire[c]
  BY SendEffect DEF Types
<1>2. /\ \A d \in Conn \ {c}: Same(d)
      /\ c \in closed => Same(c)
  BY <1>1 DEF Same
<1>3. LostSessions \subseteq LostSessions'
  BY SameProgram
<1>4. (\A d \in Conn \ {c}: WireInv(d)') /\ \A q \in Req: conn'[q] # c => UserInv(q)'
  BY <1>1, <1>2, <1>3, OthersAreKept
<1>5. CASE c \in closed
  <2>1. Unused(c)'
    BY <1>2, <1>3, <1>5, SameStays DEF ServerInv, WireInv
  <2>2. WireInv(c)'
    BY <2>1, UnusedIsHarmless, NameAssumption DEF WireInv, Unused
  <2>3. UserInv(r)'
    BY <1>5 DEF UserInv
  <2>4. History'
    BY <1>3, HistoryStays DEF ServerInv
  <2>5. QED
    BY <1>4, <2>2, <2>3, <2>4 DEF ServerInv
<1>6. CASE c \notin closed
  <2>1. History'
    BY <1>3, HistoryStays DEF ServerInv
  <2>2. QED
    BY <1>4, <1>6, <2>1 DEF ServerInv
<1>7. QED
  BY <1>5, <1>6

\* The next user of a connection: what it finds is harmless, and its own BEGIN
\* comes last.
LEMMA CheckoutKeepsServer ==
    ASSUME ClientInv, ClientInv', CountInv, ServerInv, NEW r \in Req, Checkout(r)
    PROVE  ServerInv'
<1>1. /\ Types /\ Types' /\ Whose /\ Programmed /\ PastCalls /\ pc[r] = "queued"
      /\ prog' = prog /\ at' = at /\ closed' = closed /\ open' = open
      /\ wrote' = wrote /\ lock' = lock /\ ran' = ran /\ kept' = kept /\ lost' = lost
  BY CheckoutEffect DEF ClientInv
<1>2. PICK c \in Conn, first \in {"BEGIN", "SELECT_1"}:
        /\ place[c] = "unmade" \/ (place[c] = "pool" /\ c \notin closed)
        /\ place' = [place EXCEPT ![c] = r]
        /\ conn' = [conn EXCEPT ![r] = c]
        /\ Send(r, c, first, first)
  BY CheckoutEffect
<1>3. first \in Messages /\ first \in Label /\ Current(r) \in Call
  BY <1>1, CurrentIsCall DEF Messages, Label
<1>4. /\ conn'[r] = c /\ place'[c] = r
      /\ \A q \in Req \ {r}: conn'[q] = conn[q]
      /\ \A d \in Conn \ {c}: place'[d] = place[d]
  BY <1>1, <1>2 DEF Types
<1>5. \A q \in Req: conn[q] # c
  BY <1>1, <1>2, NameAssumption DEF Whose
<1>6. /\ pc'[r] = first /\ heard'[r] = IF c \in closed THEN "error" ELSE None
      /\ wire'[c] = IF c \in closed THEN wire[c] ELSE Append(wire[c], Mine(r, first))
  BY <1>1, <1>2, <1>3, SendEffect DEF Types
<1>7. ASSUME c \notin closed PROVE WireInv(c)' /\ UserInv(r)'
  <2>1. PICK m \in Message: m = Mine(r, first)
    BY <1>3 DEF Mine, Message
  <2>2. m.by = Current(r) /\ m.msg = first /\ wire'[c] = Append(wire[c], m)
    BY <1>6, <1>7, <2>1 DEF Mine
  <2>3. Harmless(c, {})
    BY <1>2, UnusedIsHarmless DEF ServerInv, WireInv
  <2>4. LostSessions \subseteq LostSessions'
    BY <1>1, SameProgram
  <2>5. PICK call: call = Current(r)
    OBVIOUS
  <2>6. Harmless(c, IF first = "BEGIN" THEN {call} ELSE {})'
    BY <1>1, <1>2, <2>2, <2>3, <2>4, <2>5, HarmlessAppend
  <2>7. WireInv(c)'
    BY <1>1, <1>4, <1>7, <2>6, NameAssumption, QuietWire DEF Harmless, Calm
  <2>8. Current(r)' = call /\ Mine(r, first)' = m /\ conn'[r] # None
    BY <1>1, <1>4, <2>1, <2>5, NameAssumption DEF Current, Mine
  <2>9. CASE first = "SELECT_1"
    <3>1. Harmless(c, {})'
      BY <2>6, <2>9 DEF Harmless
    <3>2. QED
      BY <1>4, <1>6, <2>7, <2>9, <3>1 DEF UserInv
  <2>10. CASE first = "BEGIN"
    <3>1. wire[c] \in Seq(Message)
      BY <1>1 DEF Types
    <3>2. /\ Len(wire[c]) \in Nat /\ Len(wire'[c]) = Len(wire[c]) + 1 /\ wire'[c] # <<>>
          /\ wire'[c][Len(wire[c]) + 1] = m
          /\ \A i \in 1..Len(wire[c]): wire'[c][i] = wire[c][i]
      BY <2>2, <3>1, AppendMessage
    <3>3. ~Past(Current(r))
      BY <1>1 DEF Past, Current
    <3>4. \A i \in 1..Len(wire[c]): wire[c][i].by # call
      BY <1>1, <2>5, <3>3 DEF PastCalls, Senders
    <3>5. \A i \in 1..(Len(wire'[c]) - 1): wire'[c][i].by # call
      BY <3>2, <3>4
    <3>6. wire'[c][Len(wire'[c])] = m
      BY <3>2
    <3>7. heard'[r] = None /\ None \notin {"ok", "error"}
      BY <1>6, <1>7, NameAssumption
    <3>8. Harmless(conn[r], {Current(r)})'
      BY <1>4, <2>6, <2>8, <2>10 DEF Harmless, Calm, EndsSoon
    <3>9. InBegin(r)'
      BY <1>4, <2>8, <2>10, <3>2, <3>5, <3>6, <3>7, <3>8 DEF InBegin
    <3>10. QED
      BY <1>6, <2>7, <2>10, <3>9 DEF UserInv
  <2>11. QED
    BY <2>9, <2>10
<1>8. QED
  BY <1>1, <1>2, <1>3, <1>4, <1>5, <1>7, SendKeepsServer

\* A call goes on when the connection has answered everything.
LEMMA ContinueKeepsServer ==
    ASSUME ClientInv, ClientInv', ServerInv, NEW r \in Req, Continue(r)
    PROVE  ServerInv'
<1>1. /\ Types /\ Types' /\ Whose /\ Programmed /\ pc[r] # "idle"
      /\ heard[r] = "ok" /\ conn[r] # None
      /\ prog' = prog /\ at' = at /\ conn' = conn /\ place' = place
      /\ closed' = closed /\ open' = open /\ wrote' = wrote /\ lock' = lock
      /\ ran' = ran /\ kept' = kept /\ lost' = lost
  BY ContinueEffect DEF ClientInv, Whose, Label, Messages
<1>2. PICK c \in Conn: c = conn[r]
  BY <1>1 DEF Types
<1>3. PICK m \in {"SETTINGS", "STATEMENT", "COMMIT"}:
        /\ Send(r, c, m, m)
        /\ m = "SETTINGS" => pc[r] = "BEGIN"
        /\ m = "STATEMENT" => pc[r] = "SETTINGS"
        /\ m = "COMMIT" => pc[r] = "STATEMENT"
  BY <1>2, ContinueEffect
<1>4. m \in Messages /\ m \in Label /\ Current(r) \in Call
  BY <1>1, CurrentIsCall DEF Messages, Label
<1>5. /\ pc'[r] = m /\ heard'[r] = IF c \in closed THEN "error" ELSE None
      /\ wire'[c] = IF c \in closed THEN wire[c] ELSE Append(wire[c], Mine(r, m))
  BY <1>1, <1>3, <1>4, SendEffect DEF Types
<1>6. place[c] = r /\ \A q \in Req \ {r}: conn[q] # c
  BY <1>1, <1>2 DEF Whose
<1>7. ASSUME c \notin closed PROVE WireInv(c)' /\ UserInv(r)'
  <2>1. PICK call: call = Current(r)
    OBVIOUS
  <2>2. Current(r)' = call /\ Mine(r, m)' = Mine(r, m) /\ Mine(r, m).by = call
        /\ Mine(r, m).msg = m
    BY <1>1, <2>1 DEF Current, Mine
  <2>3. /\ m = "SETTINGS" => InBegin(r)
        /\ m = "STATEMENT" => InSettings(r)
        /\ m = "COMMIT" => InStatement(r)
    BY <1>1, <1>2, <1>3, <1>7 DEF ServerInv, UserInv
  <2>4. wire[c] = <<>>
    BY <1>1, <1>2, <2>3 DEF InBegin, InSettings, InStatement, OnlyMine
  <2>5. wire'[c] = <<Mine(r, m)>>
    BY <1>5, <1>7, <2>4
  <2>6. wire'[c] # <<>> /\ Len(wire'[c]) = 1 /\ wire'[c][1] = Mine(r, m)
    BY <2>5
  <2>7. /\ Begun(c, call) /\ lock' = lock
        /\ m \in {"SETTINGS", "STATEMENT"} => wrote[c] = {} /\ lock # c
        /\ m = "COMMIT" => wrote[c] \subseteq {call}
    BY <1>1, <1>2, <2>1, <2>3 DEF InBegin, InSettings, InStatement, Harmless, Calm
  <2>8. Begun(c, call)'
    BY <1>1, <2>7, SameProgram DEF Begun
  <2>9. WireInv(c)'
    <3>1. place'[c] \in Req /\ c \notin closed'
      BY <1>1, <1>6, <1>7
    <3>2. /\ \A i \in 1..Len(wire'[c]): i = 1
          /\ wire'[c][1].by = call /\ wire'[c][1].msg = m
      BY <2>2, <2>6
    <3>3. m = "STATEMENT" => Begun(c, wire[c][1].by)' /\ wrote'[c] = {}
      BY <1>1, <2>7, <2>8, <3>2 DEF Begun
    <3>4. m = "COMMIT" => wrote'[c] \subseteq {wire'[c][1].by}
      BY <1>1, <2>7, <3>2
    <3>5. QED
      BY <3>1, <3>2, <3>3, <3>4, NameAssumption DEF WireInv
  <2>10. OnlyMine(r, m)'
    BY <1>1, <1>2, <1>5, <1>7, <2>2, <2>5, NameAssumption DEF OnlyMine
  <2>11. CASE m = "SETTINGS"
    <3>1. \A i \in 1..Len(wire'[c]): wire'[c][i].msg \notin {"STATEMENT", "COMMIT"}
      BY <2>2, <2>6, <2>11
    <3>2. Calm(c)'
      BY <1>1, <2>7, <2>11, <3>1 DEF Calm
    <3>3. InSettings(r)'
      BY <1>1, <1>2, <2>2, <2>8, <2>10, <2>11, <3>2 DEF InSettings, Calm, Begun
    <3>4. QED
      BY <1>5, <2>9, <2>11, <3>3 DEF UserInv
  <2>12. CASE m = "STATEMENT"
    <3>1. InStatement(r)'
      BY <1>1, <1>2, <2>2, <2>7, <2>8, <2>10, <2>12 DEF InStatement, Begun
    <3>2. QED
      BY <1>5, <2>9, <2>12, <3>1 DEF UserInv
  <2>13. CASE m = "COMMIT"
    <3>1. InCommit(r)'
      BY <1>1, <1>2, <2>6, <2>10, <2>13 DEF InCommit
    <3>2. QED
      BY <1>5, <2>9, <2>13, <3>1 DEF UserInv
  <2>14. QED
    BY <2>11, <2>12, <2>13
<1>8. QED
  BY <1>1, <1>2, <1>3, <1>4, <1>6, <1>7, SendKeepsServer

\* A ROLLBACK may follow anything.
LEMMA RollbackKeepsWire ==
    ASSUME Types, Types', NEW c \in Conn, WireInv(c), NEW m \in Message, m.msg = "ROLLBACK",
           wire'[c] = Append(wire[c], m), place'[c] \in Req, c \notin closed',
           open' = open, wrote' = wrote, LostSessions \subseteq LostSessions'
    PROVE  WireInv(c)'
<1>1. wire[c] \in Seq(Message)
  BY DEF Types
<1>2. /\ Len(wire[c]) \in Nat /\ Len(wire'[c]) = Len(wire[c]) + 1 /\ wire'[c] # <<>>
      /\ wire'[c][Len(wire[c]) + 1] = m
      /\ \A i \in 1..Len(wire[c]): wire'[c][i] = wire[c][i]
  BY <1>1, AppendMessage
<1>3. \A i \in 1..Len(wire'[c]): i \in 1..Len(wire[c]) \/ wire'[c][i] = m
  BY <1>2
<1>4. \A i \in 1..Len(wire'[c]): wire'[c][i].msg \in {"STATEMENT", "COMMIT"} => i = 1
  BY <1>2, <1>3 DEF WireInv
<1>5. \/ wire[c] # <<>> /\ wire'[c][1] = wire[c][1]
      \/ wire'[c][1] = m
  <2>1. CASE wire[c] = <<>>
    BY <1>2, <2>1
  <2>2. CASE wire[c] # <<>>
    <3>1. 1 \in 1..Len(wire[c])
      BY <1>1, <2>2, TailElements
    <3>2. QED
      BY <1>2, <2>2, <3>1
  <2>3. QED
    BY <2>1, <2>2
<1>6. wire'[c][1].msg = "STATEMENT" => Begun(c, wire[c][1].by)' /\ wrote'[c] = {}
  <2>1. ASSUME wire'[c][1].msg = "STATEMENT"
        PROVE  Begun(c, wire[c][1].by) /\ wire'[c][1] = wire[c][1] /\ wrote[c] = {}
    BY <1>5, <2>1 DEF WireInv
  <2>2. QED
    BY <2>1 DEF Begun
<1>7. wire'[c][1].msg = "COMMIT" => wrote'[c] \subseteq {wire'[c][1].by}
  BY <1>5 DEF WireInv
<1>8. QED
  BY <1>4, <1>6, <1>7, NameAssumption DEF WireInv

LEMMA StartRollbackKeepsServer ==
    ASSUME ClientInv, ClientInv', ServerInv, NEW r \in Req, StartRollback(r)
    PROVE  ServerInv'
<1>1. /\ Types /\ Types' /\ Whose /\ Programmed /\ pc[r] # "idle"
      /\ heard[r] = "error" /\ conn[r] # None
      /\ prog' = prog /\ at' = at /\ conn' = conn /\ place' = place
      /\ closed' = closed /\ open' = open /\ wrote' = wrote /\ lock' = lock
      /\ ran' = ran /\ kept' = kept /\ lost' = lost
  BY StartRollbackEffect DEF ClientInv, Whose, Label, Messages
<1>2. PICK c \in Conn: c = conn[r]
  BY <1>1 DEF Types
<1>3. PICK l \in {"ROLLBACK", "ROLLBACK_OPENING"}:
        /\ Send(r, c, "ROLLBACK", l)
        /\ l = "ROLLBACK_OPENING" => pc[r] = "SETTINGS"
  BY <1>2, StartRollbackEffect
<1>4. "ROLLBACK" \in Messages /\ l \in Label /\ Current(r) \in Call
  BY <1>1, CurrentIsCall DEF Messages, Label
<1>5. /\ pc'[r] = l
      /\ wire'[c] = IF c \in closed THEN wire[c] ELSE Append(wire[c], Mine(r, "ROLLBACK"))
  BY <1>1, <1>3, <1>4, SendEffect DEF Types
<1>6. place[c] = r /\ \A q \in Req \ {r}: conn[q] # c
  BY <1>1, <1>2 DEF Whose
<1>7. ASSUME c \notin closed PROVE WireInv(c)' /\ UserInv(r)'
  <2>1. PICK m \in Message: m = Mine(r, "ROLLBACK")
    BY <1>4 DEF Mine, Message
  <2>2. m.msg = "ROLLBACK" /\ wire'[c] = Append(wire[c], m)
    BY <1>5, <1>7, <2>1 DEF Mine
  <2>3. LostSessions \subseteq LostSessions'
    BY <1>1, SameProgram
  <2>4. WireInv(c)'
    BY <1>1, <1>6, <1>7, <2>2, <2>3, RollbackKeepsWire DEF ServerInv
  <2>5. ASSUME l = "ROLLBACK_OPENING" PROVE Harmless(c, {})'
    <3>1. InSettings(r)
      BY <1>1, <1>2, <1>3, <1>7, <2>5 DEF ServerInv, UserInv
    <3>2. \A i \in 1..Len(wire[c]): wire[c][i].msg = "SETTINGS"
      BY <1>2, <3>1 DEF InSettings, OnlyMine, Mine
    <3>3. wire[c] \in Seq(Message)
      BY <1>1 DEF Types
    <3>4. /\ Len(wire[c]) \in Nat /\ Len(wire'[c]) = Len(wire[c]) + 1
          /\ wire'[c][Len(wire[c]) + 1] = m
          /\ \A i \in 1..Len(wire[c]): wire'[c][i] = wire[c][i]
      BY <2>2, <3>3, AppendMessage
    <3>5. \A i \in 1..Len(wire'[c]): i \in 1..Len(wire[c]) \/ i = Len(wire[c]) + 1
      BY <3>4
    <3>6. \A i \in 1..Len(wire'[c]): wire'[c][i].msg \in {"SETTINGS", "ROLLBACK"}
      BY <2>2, <3>2, <3>4, <3>5
    <3>7. EndsSoon(c)'
      BY <2>2, <3>4 DEF EndsSoon
    <3>8. Calm(c)'
      BY <1>1, <1>2, <3>1, <3>6 DEF InSettings, Calm
    <3>9. QED
      BY <3>6, <3>7, <3>8 DEF Harmless
  <2>6. UserInv(r)'
    BY <1>1, <1>2, <1>3, <1>5, <2>5 DEF UserInv
  <2>7. QED
    BY <2>4, <2>6
<1>8. QED
  BY <1>1, <1>2, <1>3, <1>4, <1>6, <1>7, SendKeepsServer

-----------------------------------------------------------------------------
\* Connections that hang up.
LEMMA HangUpLeavesUnused ==
    ASSUME Types, NEW c \in Conn, HangUp(c)
    PROVE  Unused(c)' /\ \A d \in Conn \ {c}: Same(d)
<1>1. /\ wire'[c] = <<>> /\ open'[c] = None /\ wrote'[c] = {} /\ lock' # c
      /\ \A d \in Conn \ {c}: wire'[d] = wire[d] /\ open'[d] = open[d] /\ wrote'[d] = wrote[d]
      /\ \A d \in Conn \ {c}: lock' = d => lock = d
  BY HangUpTypes, NameAssumption DEF Types
<1>2. QED
  BY <1>1 DEF Unused, Same

LEMMA UnusedWire ==
    ASSUME NEW c \in Conn, Unused(c)'
    PROVE  WireInv(c)'
<1>1. Harmless(c, {})' /\ wire'[c] = <<>>
  BY DEF Unused, Harmless, Calm
<1>2. QED
  BY <1>1 DEF WireInv

LEMMA NoticeKeepsServer ==
    ASSUME ClientInv, ClientInv', ServerInv, NEW c \in Conn, NoticeDiscard(c)
    PROVE  ServerInv'
<1>1. /\ Types /\ Types' /\ Whose /\ place[c] = "detached" /\ HangUp(c)
      /\ place' = [place EXCEPT ![c] = "gone"] /\ prog' = prog /\ at' = at
      /\ pc' = pc /\ heard' = heard /\ conn' = conn /\ closed' = closed
      /\ ran' = ran /\ kept' = kept /\ lost' = lost
  BY DEF ClientInv, NoticeDiscard, history
<1>2. \A d \in Conn \ {c}: place'[d] = place[d]
  BY <1>1 DEF Types
<1>3. \A r \in Req: conn[r] # c
  BY <1>1, NameAssumption DEF Whose
<1>4. LostSessions \subseteq LostSessions'
  BY <1>1, SameProgram
<1>5. (\A d \in Conn \ {c}: WireInv(d)') /\ \A r \in Req: conn'[r] # c => UserInv(r)'
  BY <1>1, <1>2, <1>4, HangUpLeavesUnused, OthersAreKept
<1>6. WireInv(c)'
  BY <1>1, HangUpLeavesUnused, UnusedWire
<1>7. History'
  BY <1>1, <1>4, HistoryStays DEF ServerInv
<1>8. QED
  BY <1>1, <1>3, <1>5, <1>6, <1>7 DEF ServerInv

LEMMA LoseKeepsServer ==
    ASSUME ClientInv, ClientInv', ServerInv, NEW c \in Conn, Lose(c)
    PROVE  ServerInv'
<1>1. /\ Types /\ Types' /\ HangUp(c) /\ closed' = closed \cup {c}
      /\ heard' = [r \in Req |->
           IF conn[r] = c /\ heard[r] = None THEN "error" ELSE heard[r]]
      /\ prog' = prog /\ at' = at /\ pc' = pc /\ conn' = conn /\ place' = place
      /\ ran' = ran /\ kept' = kept /\ lost' = lost
  BY DEF ClientInv, Lose, history
<1>2. \A r \in Req: conn[r] # c => heard'[r] = heard[r]
  BY <1>1
<1>3. LostSessions \subseteq LostSessions'
  BY <1>1, SameProgram
<1>4. (\A d \in Conn \ {c}: WireInv(d)') /\ \A r \in Req: conn'[r] # c => UserInv(r)'
  BY <1>1, <1>2, <1>3, HangUpLeavesUnused, OthersAreKept
<1>5. WireInv(c)'
  BY <1>1, HangUpLeavesUnused, UnusedWire
<1>6. \A r \in Req: conn'[r] = c => UserInv(r)'
  BY <1>1 DEF UserInv
<1>7. History'
  BY <1>1, <1>3, HistoryStays DEF ServerInv
<1>8. QED
  BY <1>4, <1>5, <1>6, <1>7 DEF ServerInv

-----------------------------------------------------------------------------
\* What the server does with the first message of a connection.

\* The effects, by the message.
LEMMA ServedEffect ==
    ASSUME Types, Types', NEW c \in Conn, Serves(c)
    PROVE  /\ wire[c] \in Seq(Message) /\ wire[c] # <<>> /\ wire'[c] = Tail(wire[c])
           /\ Head(wire[c]) = wire[c][1] /\ wire[c][1] \in Message
           /\ \/ /\ wire[c][1].msg = "BEGIN"
                 /\ open'[c] = IF open[c] = None THEN wire[c][1].by ELSE open[c]
                 /\ UNCHANGED <<wrote, lock, ran, kept>>
              \/ /\ wire[c][1].msg \in {"SETTINGS", "SELECT_1"}
                 /\ UNCHANGED <<open, wrote, lock, ran, kept>>
              \/ wire[c][1].msg = "STATEMENT" /\ (Statement(c) \/ StatementFails(c))
              \/ wire[c][1].msg = "COMMIT" /\ Commit(c)
              \/ /\ wire[c][1].msg = "ROLLBACK" /\ End(c)
                 /\ UNCHANGED <<ran, kept>>
<1>1. wire[c] \in Seq(Message) /\ wire[c] # <<>> /\ wire'[c] = Tail(wire[c])
  BY ServesEffect DEF Types
<1>2. Head(wire[c]) = wire[c][1] /\ wire[c][1] \in Message
  BY <1>1, TailElements
<1>3. CASE Begin(c)
  BY <1>1, <1>2, <1>3 DEF Begin, Receives, Types
<1>4. CASE Acknowledge(c)
  BY <1>1, <1>2, <1>4 DEF Acknowledge, Receives
<1>5. CASE Statement(c) \/ StatementFails(c)
  BY <1>1, <1>2, <1>5 DEF Statement, StatementFails, Receives
<1>6. CASE Commit(c)
  BY <1>1, <1>2, <1>6 DEF Commit, Receives
<1>7. CASE Rollback(c)
  BY <1>1, <1>2, <1>7 DEF Rollback, Receives
<1>8. QED
  BY <1>3, <1>4, <1>5, <1>6, <1>7 DEF Serves

LEMMA EndEffect ==
    ASSUME Types, NEW c \in Conn, End(c)
    PROVE  /\ open'[c] = None /\ wrote'[c] = {} /\ lock' # c
           /\ \A d \in Conn \ {c}: open'[d] = open[d] /\ wrote'[d] = wrote[d]
           /\ \A d \in Conn \ {c}: lock' = d => lock = d
BY NameAssumption DEF End, Types

LEMMA ServesElsewhere ==
    ASSUME Types, NEW c \in Conn, Serves(c)
    PROVE  \A d \in Conn \ {c}: Same(d)
<1>1. \A d \in Conn \ {c}: wire'[d] = wire[d]
  BY ServesEffect DEF Types
<1>2. CASE Begin(c) \/ Acknowledge(c) \/ Statement(c) \/ StatementFails(c)
  BY <1>1, <1>2 DEF Begin, Acknowledge, Statement, StatementFails, Types, Same
<1>3. CASE Commit(c) \/ Rollback(c)
  BY <1>1, <1>3, EndEffect DEF Commit, Rollback, Same
<1>4. QED
  BY <1>2, <1>3 DEF Serves

\* What is left on a wire that held a statement at most in front.
LEMMA ServedWire ==
    ASSUME Types, NEW c \in Conn, WireInv(c), wire[c] # <<>>, wire'[c] = Tail(wire[c])
    PROVE  /\ \A i \in 1..Len(wire'[c]): wire'[c][i].msg \notin {"STATEMENT", "COMMIT"}
           /\ \A i \in 1..Len(wire'[c]): i + 1 \in 1..Len(wire[c]) /\ wire'[c][i] = wire[c][i + 1]
<1>1. wire[c] \in Seq(Message)
  BY DEF Types
<1>2. \A i \in 1..Len(wire'[c]): wire'[c][i] = wire[c][i + 1] /\ i + 1 \in 1..Len(wire[c])
  BY <1>1, TailElements
<1>3. \A i \in 1..Len(wire'[c]): i + 1 # 1
  OBVIOUS
<1>4. QED
  BY <1>2, <1>3 DEF WireInv

\* A harmless connection stays it, whatever it answers.
LEMMA HarmlessServed ==
    ASSUME Types, Types', NEW c \in Conn, Serves(c), WireInv(c),
           LostSessions \subseteq LostSessions', NEW own, Harmless(c, own)
    PROVE  Harmless(c, own)'
<1>1. /\ wire[c] \in Seq(Message) /\ wire[c] # <<>> /\ wire'[c] = Tail(wire[c])
      /\ 1 \in 1..Len(wire[c])
  BY ServedEffect, TailElements
<1>2. /\ \A i \in 1..Len(wire'[c]): wire'[c][i].msg \notin {"STATEMENT", "COMMIT"}
      /\ \A i \in 1..Len(wire'[c]): i + 1 \in 1..Len(wire[c]) /\ wire'[c][i] = wire[c][i + 1]
  BY <1>1, ServedWire
<1>3. \A i \in 1..Len(wire'[c]):
        wire'[c][i].msg = "BEGIN" => wire'[c][i].by \in own \cup LostSessions'
  BY <1>2 DEF Harmless
<1>4. wire[c][1].msg \notin {"STATEMENT", "COMMIT"}
  BY <1>1 DEF Harmless, Calm
<1>5. wrote[c] = {} /\ lock # c
  BY DEF Harmless, Calm
<1>6. CASE wire[c][1].msg # "ROLLBACK"
  <2>1. wrote'[c] = {} /\ lock' # c
    BY <1>4, <1>5, <1>6, ServedEffect
  <2>2. EndsSoon(c) => EndsSoon(c)'
    <3>1. \A i \in 1..Len(wire[c]):
            i = 1 \/ (i - 1 \in 1..Len(Tail(wire[c])) /\ Tail(wire[c])[i - 1] = wire[c][i])
      BY <1>1, TailElements
    <3>2. QED
      BY <1>1, <1>6, <3>1 DEF EndsSoon
  <2>3. \/ open'[c] = open[c]
        \/ open'[c] = wire[c][1].by /\ wire[c][1].msg = "BEGIN"
    BY <1>4, <1>6, ServedEffect
  <2>4. open'[c] \in {None} \cup own \cup LostSessions' \/ EndsSoon(c)'
    BY <1>1, <2>2, <2>3 DEF Harmless
  <2>5. QED
    BY <1>2, <1>3, <2>1, <2>4 DEF Harmless, Calm
<1>7. CASE wire[c][1].msg = "ROLLBACK"
  <2>1. open'[c] = None /\ wrote'[c] = {} /\ lock' # c
    BY <1>7, ServedEffect, EndEffect
  <2>2. QED
    BY <1>2, <1>3, <2>1 DEF Harmless, Calm
<1>8. QED
  BY <1>6, <1>7

\* Statements run in the transaction of their own call, or of a lost session.
LEMMA ServesKeepsHistory ==
    ASSUME Types, Types', NEW c \in Conn, Serves(c), WireInv(c), History,
           LostSessions \subseteq LostSessions'
    PROVE  History'
<1>1. wire[c] # <<>> /\ Head(wire[c]) = wire[c][1]
  BY ServedEffect
<1>2. CASE wire[c][1].msg = "STATEMENT"
  <2>1. Begun(c, wire[c][1].by)
    BY <1>1, <1>2 DEF WireInv
  <2>2. wire[c][1].by \in Call
    BY ServedEffect DEF Message
  <2>3. open[c] # None
    BY <2>1, <2>2, CallOrNone, NameAssumption DEF Begun
  <2>4. CASE Statement(c)
    <3>1. ran' = ran \cup {[by |-> wire[c][1].by, in |-> open[c]]} /\ kept' = kept
      BY <1>1, <2>3, <2>4 DEF Statement
    <3>2. QED
      BY <2>1, <3>1 DEF History, Begun
  <2>5. CASE StatementFails(c)
    BY <2>5, HistoryStays DEF StatementFails
  <2>6. QED
    BY <1>2, <2>4, <2>5, ServedEffect
<1>3. CASE wire[c][1].msg = "COMMIT"
  <2>1. wrote[c] \subseteq {wire[c][1].by}
    BY <1>1, <1>3 DEF WireInv
  <2>2. /\ kept' = kept \cup {[of |-> w, by |-> wire[c][1].by]: w \in wrote[c]}
        /\ ran' = ran
    BY <1>1, <1>3, ServedEffect DEF Commit
  <2>3. QED
    BY <2>1, <2>2 DEF History
<1>4. CASE wire[c][1].msg \notin {"STATEMENT", "COMMIT"}
  <2>1. ran' = ran /\ kept' = kept
    BY <1>4, ServedEffect
  <2>2. QED
    BY <2>1, HistoryStays
<1>5. QED
  BY <1>2, <1>3, <1>4

\* The user of the connection hears its own answer, and nobody else's.
LEMMA ServesKeepsUser ==
    ASSUME Types, Types', NEW c \in Conn, Serves(c), WireInv(c),
           NEW r \in Req, conn[r] = c, UserInv(r)
    PROVE  UserInv(r)'
<1>1. /\ prog' = prog /\ at' = at /\ pc' = pc /\ conn' = conn /\ closed' = closed
      /\ lost' = lost
  BY ServesEffect
<1>2. LostSessions \subseteq LostSessions'
  BY <1>1, SameProgram
<1>3. PICK answer \in {"ok", "error"}:
        /\ heard'[r] = IF Hears(r, c) THEN answer ELSE heard[r]
        /\ answer = "error" => StatementFails(c)
  BY ServesEffect
<1>4. /\ wire[c] \in Seq(Message) /\ wire[c] # <<>> /\ wire'[c] = Tail(wire[c])
      /\ Head(wire[c]) = wire[c][1] /\ wire[c][1] \in Message
  BY ServedEffect
<1>5. PICK call: call = Current(r)
  OBVIOUS
<1>6. Current(r)' = call /\ \A m: Mine(r, m)' = Mine(r, m)
  BY <1>1, <1>5 DEF Current, Mine
<1>7. \A own: Harmless(c, own) => Harmless(c, own)'
  BY <1>2, HarmlessServed
<1>8. ASSUME NEW m, wire[c] \in {<<>>, <<Mine(r, m)>>}
      PROVE  /\ wire'[c] = <<>> /\ wire[c][1].msg = m /\ wire[c][1].by = call
             /\ OnlyMine(r, m)'
  <2>1. wire[c] = <<Mine(r, m)>>
    BY <1>4, <1>8
  <2>2. wire'[c] = <<>> /\ wire[c][1] = Mine(r, m)
    BY <1>4, <2>1
  <2>3. QED
    BY <1>1, <1>5, <2>2 DEF OnlyMine, Mine
<1> SUFFICES ASSUME c \notin closed
             PROVE  /\ pc[r] = "BEGIN" => InBegin(r)'
                    /\ pc[r] = "SETTINGS" => InSettings(r)'
                    /\ pc[r] = "STATEMENT" => InStatement(r)'
                    /\ pc[r] = "COMMIT" => InCommit(r)'
                    /\ pc[r] \in {"SELECT_1", "ROLLBACK_OPENING"} => Harmless(c, {})'
  BY <1>1 DEF UserInv
<1>9. conn[r] # None
  BY NameAssumption
<1>10. ASSUME pc[r] = "BEGIN" PROVE InBegin(r)'
  <2>1. InBegin(r)
    BY <1>9, <1>10 DEF UserInv
  <2>2. Harmless(c, {call}) /\ Harmless(c, {call})'
    BY <1>5, <1>7, <2>1 DEF InBegin
  <2>3. Harmless(conn[r], {Current(r)})'
    BY <1>1, <1>6, <2>2 DEF Harmless, Calm, EndsSoon
  <2>4. heard[r] \in {None, "error"}
    BY <1>4, <2>1 DEF InBegin, Types
  <2>5. CASE heard[r] = "error"
    <3>1. heard'[r] = "error" /\ Current(r)' \in lost'
      BY <1>1, <1>3, <1>5, <1>6, <2>1, <2>5, NameAssumption DEF Hears, InBegin
    <3>2. QED
      BY <2>3, <3>1, NameAssumption DEF InBegin
  <2>6. CASE heard[r] = None
    <3>1. /\ wire[c][Len(wire[c])] = Mine(r, "BEGIN")
          /\ \A i \in 1..(Len(wire[c]) - 1): wire[c][i].by # call
      BY <1>5, <2>1, <2>6 DEF InBegin
    <3>2. Len(wire[c]) \in Nat /\ Len(wire[c]) >= 1 /\ Len(wire'[c]) = Len(wire[c]) - 1
      BY <1>4
    <3>3. CASE Len(wire[c]) = 1
      <4>1. wire[c][1] = Mine(r, "BEGIN") /\ wire'[c] = <<>>
        <5>1. wire'[c] \in Seq(Message) /\ Len(wire'[c]) = 0
          BY <3>2, <3>3 DEF Types
        <5>2. wire'[c] = <<>>
          BY <5>1
        <5>3. QED
          BY <3>1, <3>3, <5>2
      <4>2. wire[c][1].by = call /\ wire[c][1].msg = "BEGIN"
        BY <1>5, <4>1 DEF Mine
      <4>3. Hears(r, c)
        BY <1>4, <1>5, <1>10, <2>6, <4>2 DEF Hears
      <4>4. heard'[r] = "ok"
        BY <1>3, <1>4, <4>2, <4>3 DEF StatementFails, Receives
      <4>5. ~EndsSoon(c)
        BY <3>3, <4>2 DEF EndsSoon
      <4>6. open[c] \in {None} \cup {call} \cup LostSessions
        BY <2>2, <4>5 DEF Harmless
      <4>7. open'[c] \in {call} \cup LostSessions'
        BY <1>2, <4>2, <4>6, ServedEffect
      <4>8. QED
        BY <1>1, <1>6, <2>3, <4>1, <4>4, <4>7, NameAssumption DEF InBegin, Begun
    <3>4. CASE Len(wire[c]) > 1
      <4>1. wire[c][1].by # call
        BY <3>1, <3>2, <3>4
      <4>2. heard'[r] = None
        BY <1>3, <1>4, <1>5, <2>6, <4>1 DEF Hears
      <4>3. \A i \in 1..Len(wire'[c]): wire'[c][i] = wire[c][i + 1]
        BY <1>4, TailElements
      <4>4. wire'[c] # <<>> /\ wire'[c][Len(wire'[c])] = Mine(r, "BEGIN")
        BY <3>1, <3>2, <3>4, <4>3
      <4>5. \A i \in 1..(Len(wire'[c]) - 1): wire'[c][i].by # call
        BY <3>1, <3>2, <4>3
      <4>6. QED
        BY <1>1, <1>6, <2>3, <4>2, <4>4, <4>5, NameAssumption DEF InBegin
    <3>5. Len(wire[c]) = 1 \/ Len(wire[c]) > 1
      <4>1. \A n \in Nat: n >= 1 => n = 1 \/ n > 1
        OBVIOUS
      <4>2. QED
        BY <3>2, <4>1
    <3>6. QED
      BY <3>3, <3>4, <3>5, Zenon
  <2>7. QED
    BY <2>4, <2>5, <2>6
<1>11. ASSUME pc[r] = "SETTINGS" PROVE InSettings(r)'
  <2>1. InSettings(r)
    BY <1>9, <1>11 DEF UserInv
  <2>2. wire'[c] = <<>> /\ wire[c][1].msg = "SETTINGS" /\ OnlyMine(r, "SETTINGS")'
    BY <1>8, <2>1 DEF InSettings, OnlyMine
  <2>3. open' = open /\ wrote' = wrote /\ lock' = lock
    BY <2>2, ServedEffect
  <2>4. Begun(c, call)'
    BY <1>2, <1>5, <2>1, <2>3 DEF InSettings, Begun
  <2>5. Calm(c)'
    BY <2>1, <2>2, <2>3 DEF InSettings, Calm
  <2>6. QED
    BY <1>1, <1>6, <2>2, <2>4, <2>5 DEF InSettings, Begun, Calm
<1>12. ASSUME pc[r] = "STATEMENT" PROVE InStatement(r)'
  <2>1. InStatement(r)
    BY <1>9, <1>12 DEF UserInv
  <2>2. /\ wire[c][1].msg = "STATEMENT" /\ wire[c][1].by = call
        /\ OnlyMine(r, "STATEMENT")'
    BY <1>8, <2>1 DEF InStatement, OnlyMine
  <2>3. Statement(c) \/ StatementFails(c)
    BY <2>2, ServedEffect
  <2>4. wrote[c] \subseteq {call} /\ open'[c] = open[c]
    BY <1>5, <2>1, <2>3 DEF InStatement, Statement, StatementFails
  <2>5. wrote'[c] \subseteq {call}
    BY <1>4, <2>2, <2>3, <2>4 DEF Statement, StatementFails, Types
  <2>6. Begun(c, call)'
    BY <1>2, <1>5, <2>1, <2>4 DEF InStatement, Begun
  <2>7. QED
    BY <1>1, <1>6, <2>2, <2>5, <2>6 DEF InStatement, Begun
<1>13. ASSUME pc[r] = "COMMIT" PROVE InCommit(r)'
  <2>1. InCommit(r)
    BY <1>9, <1>13 DEF UserInv
  <2>2. wire'[c] = <<>> /\ wire[c][1].msg = "COMMIT" /\ OnlyMine(r, "COMMIT")'
    BY <1>8, <2>1 DEF InCommit, OnlyMine
  <2>3. End(c)
    BY <2>2, ServedEffect DEF Commit
  <2>4. Unused(c)'
    BY <2>2, <2>3, EndEffect DEF Unused
  <2>5. QED
    BY <1>1, <2>2, <2>4 DEF InCommit, Unused
<1>14. ASSUME pc[r] \in {"SELECT_1", "ROLLBACK_OPENING"} PROVE Harmless(c, {})'
  BY <1>7, <1>9, <1>14 DEF UserInv
<1>15. QED
  BY <1>10, <1>11, <1>12, <1>13, <1>14

LEMMA ServesKeepsServer ==
    ASSUME ClientInv, ClientInv', ServerInv, NEW c \in Conn, Serves(c)
    PROVE  ServerInv'
<1>1. /\ Types /\ Types' /\ WireInv(c) /\ History
      /\ prog' = prog /\ at' = at /\ pc' = pc /\ conn' = conn /\ place' = place
      /\ closed' = closed /\ lost' = lost
  BY ServesEffect DEF ClientInv, ServerInv
<1>2. LostSessions \subseteq LostSessions'
  BY <1>1, SameProgram
<1>3. \A r \in Req: conn[r] # c => heard'[r] = heard[r]
  BY ServesEffect DEF Hears
<1>4. (\A d \in Conn \ {c}: WireInv(d)') /\ \A r \in Req: conn'[r] # c => UserInv(r)'
  BY <1>1, <1>2, <1>3, ServesElsewhere, OthersAreKept
<1>5. WireInv(c)'
  <2>1. wire[c] # <<>> /\ wire'[c] = Tail(wire[c])
    BY <1>1, ServedEffect
  <2>2. \A i \in 1..Len(wire'[c]): wire'[c][i].msg \notin {"STATEMENT", "COMMIT"}
    BY <1>1, <2>1, ServedWire
  <2>3. ~(c \in closed' \/ place'[c] \in {"unmade", "gone"})
    BY <1>1, <2>1 DEF WireInv, Unused
  <2>4. place'[c] = "pool" => Harmless(c, {})'
    BY <1>1, <1>2, HarmlessServed DEF WireInv
  <2>5. QED
    BY <1>1, <2>2, <2>3, <2>4, QuietWire
<1>6. \A r \in Req: conn[r] = c => UserInv(r)'
  BY <1>1, ServesKeepsUser DEF ServerInv
<1>7. History'
  BY <1>1, <1>2, ServesKeepsHistory
<1>8. QED
  BY <1>1, <1>4, <1>5, <1>6, <1>7 DEF ServerInv

-----------------------------------------------------------------------------
LEMMA ServerInit == Init => ServerInv
<1> SUFFICES ASSUME Init PROVE ServerInv
  OBVIOUS
<1>1. \A c \in Conn: WireInv(c)
  BY NameAssumption DEF Init, WireInv, Unused
<1>2. \A r \in Req: UserInv(r)
  BY DEF Init, UserInv
<1>3. History
  BY DEF Init, History
<1>4. QED
  BY <1>1, <1>2, <1>3 DEF ServerInv

LEMMA ServerStep == ClientInv /\ CountInv /\ ServerInv /\ [Next]_vars => ServerInv'
<1> SUFFICES ASSUME ClientInv, CountInv, ServerInv, [Next]_vars PROVE ServerInv'
  OBVIOUS
<1>1. ClientInv'
  BY ClientStep
<1>2. CASE UNCHANGED vars
  <2>1. UNCHANGED <<server, place, closed, conn, pc, heard, at, prog, ran, kept, lost>>
    BY <1>2 DEF vars, client, history
  <2>2. Types /\ Types'
    BY <1>1 DEF ClientInv
  <2>3. QED
    BY <2>1, <2>2, SameProgram, ElsewhereKeepsServer
<1>3. ASSUME NEW r \in Req, Arrive(r) \/ Handle(r) \/ WireTimeout(r) \/ PoolTimeout(r)
      PROVE  ServerInv'
  BY <1>1, <1>3, ArriveKeepsServer, CheckoutKeepsServer, ContinueKeepsServer,
     FinishKeepsServer, StartRollbackKeepsServer, FailKeepsServer,
     WireTimeoutKeepsServer, PoolTimeoutKeepsServer DEF Handle
<1>4. ASSUME NEW c \in Conn, Serve(c) \/ StatementFails(c) \/ Lose(c)
      PROVE  ServerInv'
  BY <1>1, <1>4, ServesKeepsServer, NoticeKeepsServer, LoseKeepsServer DEF Serve, Serves
<1>5. QED
  BY <1>2, <1>3, <1>4 DEF Next, Quiet

-----------------------------------------------------------------------------
\* The line.
LEMMA LineStays ==
    ASSUME Types, LineInv, queue' = queue,
           \A r \in Req: pc[r] = "queued" => pc'[r] = "queued"
    PROVE  LineInv'
<1>1. \A i \in 1..Len(queue): queue[i] \in Req
  BY DEF Types
<1>2. QED
  BY <1>1 DEF LineInv

LEMMA EnqueueKeepsLineInv ==
    ASSUME Types, LineInv, NEW r \in Req, pc[r] # "queued", Enqueue(r)
    PROVE  LineInv'
<1>1. queue \in Seq(Req) /\ queue' = Append(queue, r)
  BY DEF Types, Enqueue
<1>2. /\ Len(queue) \in Nat /\ Len(queue') = Len(queue) + 1
      /\ queue'[Len(queue) + 1] = r
      /\ \A i \in 1..Len(queue): queue'[i] = queue[i] /\ queue[i] \in Req
  BY <1>1
<1>3. \A i \in 1..Len(queue'): i \in 1..Len(queue) \/ i = Len(queue) + 1
  BY <1>2
<1>4. \A i \in 1..Len(queue): queue[i] # r
  BY DEF LineInv
<1>5. pc'[r] = "queued" /\ \A q \in Req \ {r}: pc'[q] = pc[q]
  BY EnqueueEffect DEF Types
<1>6. \A i \in 1..Len(queue'): pc'[queue'[i]] = "queued"
  BY <1>2, <1>3, <1>4, <1>5 DEF LineInv
<1>7. \A i, j \in 1..Len(queue'): queue'[i] = queue'[j] => i = j
  BY <1>2, <1>3, <1>4 DEF LineInv
<1>8. QED
  BY <1>6, <1>7 DEF LineInv

LEMMA CheckoutKeepsLineInv ==
    ASSUME ClientInv, CountInv, LineInv, NEW r \in Req, Checkout(r)
    PROVE  LineInv'
<1>1. /\ Types /\ InLine /\ pc[r] = "queued" /\ Head(queue) = r /\ queue' = Tail(queue)
  BY CheckoutEffect DEF ClientInv
<1>2. queue \in Seq(Req) /\ queue # <<>>
  BY <1>1 DEF Types, InLine
<1>3. /\ queue[1] = r /\ 1 \in 1..Len(queue)
      /\ \A i \in 1..Len(queue'): queue'[i] = queue[i + 1] /\ i + 1 \in 1..Len(queue)
  BY <1>1, <1>2, TailElements
<1>4. \A i \in 1..Len(queue'): queue'[i] # r /\ queue'[i] \in Req
  <2>1. \A i \in 1..Len(queue'): i + 1 # 1
    OBVIOUS
  <2>2. \A i \in 1..Len(queue): queue[i] \in Req
    BY <1>2
  <2>3. QED
    BY <1>3, <2>1, <2>2 DEF LineInv
<1>5. \A q \in Req \ {r}: pc'[q] = pc[q]
  BY <1>1 DEF Checkout, Send, Types
<1>6. \A i \in 1..Len(queue'): pc'[queue'[i]] = "queued"
  BY <1>3, <1>4, <1>5 DEF LineInv
<1>7. ASSUME NEW i \in 1..Len(queue'), NEW j \in 1..Len(queue'), queue'[i] = queue'[j]
      PROVE  i = j
  <2>1. i + 1 = j + 1
    BY <1>3, <1>7 DEF LineInv
  <2>2. QED
    BY <2>1
<1>8. QED
  BY <1>6, <1>7 DEF LineInv

LEMMA PoolTimeoutKeepsLineInv ==
    ASSUME Types, LineInv, NEW r \in Req, PoolTimeout(r)
    PROVE  LineInv'
<1>1. PICK i \in 1..Len(queue):
        /\ queue[i] = r
        /\ queue' = SubSeq(queue, 1, i - 1) \o SubSeq(queue, i + 1, Len(queue))
  BY DEF PoolTimeout
<1>2. queue \in Seq(Req)
  BY DEF Types
<1>3. /\ Len(queue) \in Nat /\ Len(queue') = Len(queue) - 1
      /\ \A k \in 1..Len(queue'): queue'[k] = IF k < i THEN queue[k] ELSE queue[k + 1]
  BY <1>1, <1>2, RemovedFromLine
<1>4. \A q \in Req \ {r}: pc'[q] = pc[q]
  BY DEF PoolTimeout, Types
<1>5. \A k \in 1..Len(queue'):
        \E j \in 1..Len(queue): queue'[k] = queue[j] /\ j # i /\ j = IF k < i THEN k ELSE k + 1
  <2> TAKE k \in 1..Len(queue')
  <2>1. CASE k < i
    BY <1>3, <2>1
  <2>2. CASE ~(k < i)
    <3>1. k + 1 \in 1..Len(queue) /\ k + 1 # i
      BY <1>3, <2>2
    <3>2. QED
      BY <1>3, <2>2, <3>1
  <2>3. QED
    BY <2>1, <2>2
<1>6. \A k \in 1..Len(queue'): pc'[queue'[k]] = "queued"
  <2> TAKE k \in 1..Len(queue')
  <2>1. PICK j \in 1..Len(queue): queue'[k] = queue[j] /\ j # i
    BY <1>5
  <2>2. queue[j] # r /\ queue[j] \in Req /\ pc[queue[j]] = "queued"
    BY <1>1, <1>2, <2>1 DEF LineInv
  <2>3. QED
    BY <1>4, <2>1, <2>2
<1>7. ASSUME NEW k \in 1..Len(queue'), NEW l \in 1..Len(queue'), queue'[k] = queue'[l]
      PROVE  k = l
  <2>1. PICK j \in 1..Len(queue): queue'[k] = queue[j] /\ j = IF k < i THEN k ELSE k + 1
    BY <1>5
  <2>2. PICK m \in 1..Len(queue): queue'[l] = queue[m] /\ m = IF l < i THEN l ELSE l + 1
    BY <1>5
  <2>3. j = m
    BY <1>7, <2>1, <2>2 DEF LineInv
  <2>4. QED
    BY <2>1, <2>2, <2>3
<1>8. QED
  BY <1>6, <1>7 DEF LineInv

LEMMA LineStep == ClientInv /\ CountInv /\ LineInv /\ [Next]_vars => LineInv'
<1> SUFFICES ASSUME ClientInv, CountInv, LineInv, [Next]_vars PROVE LineInv'
  OBVIOUS
<1>1. Types /\ Whose /\ \A r \in Req: pc[r] \in Label => pc[r] # "queued"
  BY DEF ClientInv, Label, Messages
<1>2. CASE UNCHANGED vars
  BY <1>1, <1>2, LineStays DEF vars, client
<1>3. ASSUME NEW r \in Req, Arrive(r) PROVE LineInv'
  BY <1>1, <1>3, EnqueueKeepsLineInv DEF Arrive
<1>4. ASSUME NEW r \in Req, Checkout(r) \/ PoolTimeout(r) PROVE LineInv'
  BY <1>1, <1>4, CheckoutKeepsLineInv, PoolTimeoutKeepsLineInv
<1>5. ASSUME NEW r \in Req, Finish(r) PROVE LineInv'
  <2>1. pc[r] # "queued"
    BY <1>5 DEF Finish
  <2>2. Enqueue(r) \/ (pc' = [pc EXCEPT ![r] = "done"] /\ queue' = queue)
    BY <1>5 DEF Finish
  <2>3. CASE Enqueue(r)
    BY <1>1, <2>1, <2>3, EnqueueKeepsLineInv
  <2>4. CASE pc' = [pc EXCEPT ![r] = "done"] /\ queue' = queue
    <3>1. \A q \in Req \ {r}: pc'[q] = pc[q]
      BY <1>1, <2>4 DEF Types
    <3>2. QED
      BY <1>1, <2>1, <2>4, <3>1, LineStays
  <2>5. QED
    BY <2>2, <2>3, <2>4
<1>6. ASSUME NEW r \in Req, Continue(r) \/ StartRollback(r) \/ FailCall(r) PROVE LineInv'
  <2>1. conn[r] # None /\ queue' = queue
    BY <1>6, ContinueEffect, StartRollbackEffect DEF FailCall
  <2>2. pc[r] # "queued"
    BY <1>1, <2>1 DEF Whose
  <2>3. \E l: pc' = [pc EXCEPT ![r] = l]
    BY <1>6 DEF Continue, StartRollback, FailCall, Send
  <2>4. \A q \in Req \ {r}: pc'[q] = pc[q]
    BY <1>1, <2>3 DEF Types
  <2>5. QED
    BY <1>1, <2>1, <2>2, <2>4, LineStays
<1>7. ASSUME NEW r \in Req, WireTimeout(r) PROVE LineInv'
  BY <1>1, <1>7, LineStays DEF WireTimeout
<1>8. ASSUME NEW c \in Conn, Serve(c) \/ StatementFails(c) \/ Lose(c) PROVE LineInv'
  <2>1. Serves(c) \/ NoticeDiscard(c) \/ Lose(c)
    BY <1>8 DEF Serve, Serves
  <2>2. queue' = queue /\ pc' = pc
    BY <2>1, ServesEffect DEF NoticeDiscard, Lose
  <2>3. QED
    BY <1>1, <2>2, LineStays
<1>9. QED
  BY <1>2, <1>3, <1>4, <1>5, <1>6, <1>7, <1>8 DEF Next, Handle, Quiet

-----------------------------------------------------------------------------
\* Answers are on their way.

\* Who uses the connection it used, and waits for the message it waited for,
\* has it there unless the wire was touched.
LEMMA AwaitedStays ==
    ASSUME NEW r \in Req, conn[r] # None, conn'[r] = conn[r], pc'[r] = pc[r],
           at'[r] = at[r], heard[r] = None, Awaited, wire'[conn[r]] = wire[conn[r]]
    PROVE  \E i \in 1..Len(wire'[conn'[r]]): wire'[conn'[r]][i] = Mine(r, Sent(r))'
<1>1. Mine(r, Sent(r))' = Mine(r, Sent(r))
  BY DEF Mine, Sent, Current
<1>2. PICK i \in 1..Len(wire[conn[r]]): wire[conn[r]][i] = Mine(r, Sent(r))
  BY DEF Awaited
<1>3. QED
  BY <1>1, <1>2

LEMMA SendKeepsAwaited ==
    ASSUME Types, Types', Whose', Awaited, NEW r \in Req, NEW c \in Conn,
           NEW message \in Messages, NEW label \in Label, Current(r) \in Call,
           Send(r, c, message, label), conn'[r] = c, at' = at,
           \A q \in Req \ {r}: conn'[q] = conn[q],
           message = IF label = "ROLLBACK_OPENING" THEN "ROLLBACK" ELSE label
    PROVE  Awaited'
<1>1. /\ pc'[r] = label /\ heard'[r] = IF c \in closed THEN "error" ELSE None
      /\ \A q \in Req \ {r}: pc'[q] = pc[q] /\ heard'[q] = heard[q]
      /\ \A d \in Conn \ {c}: wire'[d] = wire[d]
      /\ wire'[c] = IF c \in closed THEN wire[c] ELSE Append(wire[c], Mine(r, message))
  BY SendEffect DEF Types
<1>2. ASSUME NEW q \in Req, q # r, conn'[q] # None, heard'[q] = None
      PROVE  \E i \in 1..Len(wire'[conn'[q]]): wire'[conn'[q]][i] = Mine(q, Sent(q))'
  <2>1. conn[q] \in Conn \ {c}
    BY <1>2 DEF Types, Whose
  <2>2. QED
    BY <1>1, <1>2, <2>1, AwaitedStays
<1>3. ASSUME heard'[r] = None
      PROVE  \E i \in 1..Len(wire'[conn'[r]]): wire'[conn'[r]][i] = Mine(r, Sent(r))'
  <2>1. PICK m \in Message: m = Mine(r, message)
    BY DEF Mine, Message
  <2>2. Mine(r, Sent(r))' = m
    BY <1>1, <2>1 DEF Mine, Sent, Current
  <2>3. wire'[c] = Append(wire[c], m) /\ wire[c] \in Seq(Message)
    BY <1>1, <1>3, <2>1, NameAssumption DEF Types
  <2>4. Len(wire[c]) + 1 \in 1..Len(wire'[c]) /\ wire'[c][Len(wire[c]) + 1] = m
    BY <2>3, AppendMessage
  <2>5. QED
    BY <2>2, <2>4
<1>4. QED
  BY <1>2, <1>3 DEF Awaited

LEMMA ServesKeepsAwaited ==
    ASSUME Types, Types', Awaited, NEW c \in Conn, Serves(c)
    PROVE  Awaited'
<1>1. PICK answer \in {"ok", "error"}:
        heard' = [r \in Req |-> IF Hears(r, c) THEN answer ELSE heard[r]]
  BY ServesEffect
<1>2. /\ wire[c] \in Seq(Message) /\ wire[c] # <<>> /\ wire'[c] = Tail(wire[c])
      /\ Head(wire[c]) = wire[c][1]
  BY ServedEffect
<1>3. /\ at' = at /\ pc' = pc /\ conn' = conn
      /\ \A d \in Conn \ {c}: wire'[d] = wire[d]
  BY ServesEffect DEF Types
<1>4. ASSUME NEW r \in Req, conn'[r] # None, heard'[r] = None
      PROVE  \E i \in 1..Len(wire'[conn'[r]]): wire'[conn'[r]][i] = Mine(r, Sent(r))'
  <2>1. heard[r] = None /\ ~Hears(r, c)
    BY <1>1, <1>4, NameAssumption
  <2>2. CASE conn[r] # c
    BY <1>3, <1>4, <2>1, <2>2, AwaitedStays DEF Types
  <2>3. CASE conn[r] = c
    <3>1. PICK i \in 1..Len(wire[c]): wire[c][i] = Mine(r, Sent(r))
      BY <1>3, <1>4, <2>1, <2>3 DEF Awaited
    <3>2. wire[c][1] # Mine(r, Sent(r))
      BY <1>2, <2>1, <2>3 DEF Hears, Mine, Sent
    <3>3. i - 1 \in 1..Len(wire'[c]) /\ wire'[c][i - 1] = Mine(r, Sent(r))
      BY <1>2, <3>1, <3>2, TailElements
    <3>4. Mine(r, Sent(r))' = Mine(r, Sent(r))
      BY <1>3 DEF Mine, Sent, Current
    <3>5. QED
      BY <1>3, <2>3, <3>3, <3>4
  <2>4. QED
    BY <2>2, <2>3
<1>5. QED
  BY <1>4 DEF Awaited

\* A step of r that lets go of its connection or stops waiting, or of a request
\* without one, or of a wire that no request uses.
LEMMA OthersStillWait ==
    ASSUME Awaited, Types,
           \A q \in Req: conn'[q] # None /\ heard'[q] = None =>
               /\ conn'[q] = conn[q] /\ pc'[q] = pc[q] /\ at'[q] = at[q]
               /\ heard[q] = None /\ wire'[conn[q]] = wire[conn[q]]
    PROVE  Awaited'
BY AwaitedStays DEF Awaited

LEMMA AwaitedStep ==
    ASSUME ClientInv, ClientInv', CountInv, Awaited, [Next]_vars
    PROVE  Awaited'
<1>1. Types /\ Types' /\ Whose /\ Whose' /\ Programmed
  BY DEF ClientInv
<1>2. CASE UNCHANGED vars
  <2>1. pc' = pc /\ at' = at /\ heard' = heard /\ conn' = conn /\ wire' = wire
    BY <1>2 DEF vars, client, server
  <2>2. QED
    BY <1>1, <2>1, OthersStillWait
<1>3. ASSUME NEW r \in Req, Arrive(r) \/ PoolTimeout(r) PROVE Awaited'
  <2>1. conn[r] = None /\ conn' = conn /\ wire' = wire
    BY <1>1, <1>3 DEF Arrive, PoolTimeout, server, Whose, Label, Messages
  <2>2. \A q \in Req \ {r}: pc'[q] = pc[q] /\ at'[q] = at[q] /\ heard'[q] = heard[q]
    BY <1>1, <1>3 DEF Arrive, PoolTimeout, Enqueue, Types
  <2>3. QED
    BY <1>1, <2>1, <2>2, OthersStillWait
<1>4. ASSUME NEW r \in Req, Checkout(r) PROVE Awaited'
  <2>1. PICK c \in Conn, first \in {"BEGIN", "SELECT_1"}:
          conn' = [conn EXCEPT ![r] = c] /\ Send(r, c, first, first)
    BY <1>4, CheckoutEffect
  <2>2. first \in Messages /\ first \in Label /\ first # "ROLLBACK_OPENING"
    BY DEF Messages, Label
  <2>3. Current(r) \in Call /\ at' = at
    BY <1>1, <1>4, CheckoutEffect, CurrentIsCall
  <2>4. conn'[r] = c /\ \A q \in Req \ {r}: conn'[q] = conn[q]
    BY <1>1, <2>1 DEF Types
  <2>5. QED
    BY <1>1, <2>1, <2>2, <2>3, <2>4, SendKeepsAwaited
<1>5. ASSUME NEW r \in Req, Continue(r) \/ StartRollback(r) PROVE Awaited'
  <2>1. conn[r] # None /\ conn' = conn /\ at' = at
    BY <1>5, ContinueEffect, StartRollbackEffect
  <2>2. PICK c \in Conn: c = conn[r]
    BY <1>1, <2>1 DEF Types
  <2>3. PICK message \in Messages, label \in Label:
          /\ Send(r, c, message, label)
          /\ message = IF label = "ROLLBACK_OPENING" THEN "ROLLBACK" ELSE label
    <3>1. {"SETTINGS", "STATEMENT", "COMMIT", "ROLLBACK"} \subseteq Messages
      BY DEF Messages
    <3>2. {"SETTINGS", "STATEMENT", "COMMIT", "ROLLBACK", "ROLLBACK_OPENING"} \subseteq Label
      BY DEF Messages, Label
    <3>3. CASE Continue(r)
      BY <2>2, <3>1, <3>2, <3>3, ContinueEffect
    <3>4. CASE StartRollback(r)
      BY <2>2, <3>1, <3>2, <3>4, StartRollbackEffect
    <3>5. QED
      BY <1>5, <3>3, <3>4
  <2>4. Current(r) \in Call
    BY <1>1, <2>1, CurrentIsCall DEF Whose, Label, Messages
  <2>5. QED
    BY <1>1, <2>1, <2>2, <2>3, <2>4, SendKeepsAwaited
<1>6. ASSUME NEW r \in Req, Finish(r) \/ FailCall(r) PROVE Awaited'
  <2>1. GiveBack(r) \/ Discard(r)
    BY <1>6 DEF Finish, FailCall
  <2>2. conn'[r] = None /\ \A q \in Req \ {r}: conn'[q] = conn[q]
    BY <1>1, <2>1 DEF GiveBack, Discard, Types
  <2>3. wire' = wire /\ \A q \in Req \ {r}: pc'[q] = pc[q] /\ at'[q] = at[q] /\ heard'[q] = heard[q]
    BY <1>1, <1>6 DEF Finish, FailCall, Enqueue, server, Types
  <2>4. QED
    BY <1>1, <2>2, <2>3, OthersStillWait
<1>7. ASSUME NEW r \in Req, WireTimeout(r) PROVE Awaited'
  <2>1. /\ conn' = conn /\ wire' = wire /\ pc' = pc /\ at' = at
        /\ heard' = [heard EXCEPT ![r] = "error"]
    BY <1>7 DEF WireTimeout, server
  <2>2. QED
    BY <1>1, <2>1, NameAssumption, OthersStillWait DEF Types
<1>8. ASSUME NEW c \in Conn, Serves(c) PROVE Awaited'
  BY <1>1, <1>8, ServesKeepsAwaited
<1>9. ASSUME NEW c \in Conn, NoticeDiscard(c) PROVE Awaited'
  <2>1. /\ conn' = conn /\ pc' = pc /\ at' = at /\ heard' = heard
        /\ HangUp(c) /\ place[c] = "detached"
    BY <1>9 DEF NoticeDiscard
  <2>2. \A q \in Req: conn[q] # c
    BY <1>1, <2>1, NameAssumption DEF Whose
  <2>3. \A d \in Conn \ {c}: wire'[d] = wire[d]
    BY <1>1, <2>1, HangUpTypes DEF Types
  <2>4. QED
    BY <1>1, <2>1, <2>2, <2>3, OthersStillWait DEF Types
<1>10. ASSUME NEW c \in Conn, Lose(c) PROVE Awaited'
  <2>1. /\ conn' = conn /\ pc' = pc /\ at' = at /\ HangUp(c)
        /\ heard' = [r \in Req |->
             IF conn[r] = c /\ heard[r] = None THEN "error" ELSE heard[r]]
    BY <1>10 DEF Lose
  <2>2. \A q \in Req: heard'[q] = None => conn[q] # c /\ heard[q] = None
    BY <2>1, NameAssumption
  <2>3. \A d \in Conn \ {c}: wire'[d] = wire[d]
    BY <1>1, <2>1, HangUpTypes DEF Types
  <2>4. QED
    BY <1>1, <2>1, <2>2, <2>3, OthersStillWait DEF Types
<1>11. QED
  BY <1>2, <1>3, <1>4, <1>5, <1>6, <1>7, <1>8, <1>9, <1>10
  DEF Next, Handle, Serve, Serves, Quiet

\* The invariant: what the clients know of their connections, that faults pay for
\* those that are used up, and what the server will find on each of them.
THEOREM PoolIsInvariant == Spec => []PoolInv
<1>1. Init => PoolInv
  <2> SUFFICES ASSUME Init PROVE PoolInv
    OBVIOUS
  <2>1. LineInv /\ Awaited
    BY DEF Init, LineInv, Awaited
  <2>2. QED
    BY <2>1, ClientInit, CountInit, ServerInit DEF PoolInv
<1>2. PoolInv /\ [Next]_vars => PoolInv'
  <2> SUFFICES ASSUME PoolInv, [Next]_vars PROVE PoolInv'
    OBVIOUS
  <2>1. ClientInv' /\ CountInv' /\ ServerInv' /\ LineInv'
    BY ClientStep, CountStep, ServerStep, LineStep DEF PoolInv
  <2>2. Awaited'
    BY <2>1, AwaitedStep DEF PoolInv
  <2>3. QED
    BY <2>1, <2>2 DEF PoolInv
<1>3. QED
  BY <1>1, <1>2, PTL DEF Spec

\* Whatever times out or is lost, a connection is used by the request that it
\* was handed to, by no more requests at a time than the pool has room for.
THEOREM TypesAreRight == Spec => []TypeOK
<1>1. PoolInv => TypeOK
  <2> SUFFICES ASSUME PoolInv PROVE TypeOK
    OBVIOUS
  <2>1. Types /\ Whose /\ Programmed /\ Cardinality(Out) <= MaxSize
    BY DEF PoolInv, ClientInv, CountInv
  <2>2. QED
    BY <2>1 DEF TypeOK, Types, Whose, Programmed, Label
<1>2. QED
  BY <1>1, PoolIsInvariant, PTL

\* No statement runs in a transaction of another call, but for the transactions
\* that create_pack_session lets go of before it knows that they have begun.
THEOREM OnlyLostLeak == Spec => []OnlyLostBeginsLeak
<1>1. PoolInv => OnlyLostBeginsLeak
  BY DEF PoolInv, ServerInv, History, OnlyLostBeginsLeak, LostSessions
<1>2. QED
  BY <1>1, PoolIsInvariant, PTL

\* What a call wrote is committed by its own COMMIT, or never.
THEOREM OwnCommits == Spec => []OwnCommitsOnly
<1>1. PoolInv => OwnCommitsOnly
  BY DEF PoolInv, ServerInv, History, OwnCommitsOnly
<1>2. QED
  BY <1>1, PoolIsInvariant, PTL

\* Connections in the pool hold no row, and will not.
THEOREM IdleIsHarmless == Spec => []IdleHoldsNothing
<1>1. PoolInv => IdleHoldsNothing
  BY DEF PoolInv, ServerInv, WireInv, Harmless, Calm, Pooled, IdleHoldsNothing
<1>2. QED
  BY <1>1, PoolIsInvariant, PTL

-----------------------------------------------------------------------------
\* Who can take a step.  The server can take the next message of c:
CanAnswer(c) ==
    wire[c] # <<>> /\ (Head(wire[c]).msg = "STATEMENT" => lock \in {None, c})

\* r has an answer to act on,
CanGoOn(r) == conn[r] # None /\ heard[r] # None

\* or it is first in line, and there is room and a connection.
CanCheckOut(r) ==
    /\ pc[r] = "queued" /\ Head(queue) = r
    /\ Cardinality(Out) < MaxSize
    /\ \E c \in Conn: (place[c] = "pool" /\ c \notin closed) \/ place[c] = "unmade"

SomethingMoves ==
    (\E r \in Req: pc[r] \notin {"idle", "done"}) =>
        \/ \E r \in Req: CanGoOn(r) \/ CanCheckOut(r)
        \/ \E c \in Conn: CanAnswer(c)
        \/ \E c \in Conn: place[c] = "detached"

\* Requests that hold connections while they wait for a row, and requests that
\* wait for a connection, never all wait for each other: one of them can go on, or
\* the server can, however small the pool is and whatever has failed.
THEOREM NoStandstill == Spec => []SomethingMoves
<1>1. ASSUME PoolInv PROVE SomethingMoves
  <2> SUFFICES ASSUME NEW r \in Req, pc[r] \notin {"idle", "done"},
                      \A q \in Req: ~CanGoOn(q) /\ ~CanCheckOut(q),
                      \A c \in Conn: ~CanAnswer(c) /\ place[c] # "detached"
               PROVE  FALSE
    BY DEF SomethingMoves
  <2>1. /\ Types /\ CountInv /\ Whose /\ InLine /\ LineInv /\ Awaited
        /\ \A c \in Conn: WireInv(c)
    BY <1>1 DEF PoolInv, ClientInv, ServerInv
  <2>2. ASSUME NEW c \in Conn, place[c] \in Req
        PROVE  /\ wire[c] # <<>> /\ Head(wire[c]).msg = "STATEMENT"
               /\ lock \notin {None, c}
    <3>1. PICK q \in Req: q = place[c] /\ conn[q] = c /\ heard[q] = None
      BY <2>1, <2>2, UserInCall DEF CanGoOn
    <3>2. wire[c] # <<>>
      BY <2>1, <3>1, NameAssumption DEF Awaited
    <3>3. QED
      BY <3>2 DEF CanAnswer
  <2>3. ASSUME NEW c \in Conn, place[c] \in Req PROVE FALSE
    <3>1. PICK d \in Conn: lock = d
      BY <2>1, <2>2, <2>3 DEF Types
    <3>2. place[d] \in Req
      <4>1. ~Unused(d) /\ ~Harmless(d, {})
        BY <3>1 DEF Unused, Harmless, Calm
      <4>2. QED
        BY <2>1, <4>1 DEF WireInv, Types
    <3>3. QED
      BY <2>2, <3>1, <3>2
  <2>4. \A q \in Req: conn[q] = None
    BY <2>1, <2>3 DEF Types, Whose
  <2>5. pc[r] = "queued"
    BY <2>1, <2>4 DEF Types, Whose
  <2>6. queue \in Seq(Req) /\ queue # <<>>
    BY <2>1, <2>5 DEF Types, InLine
  <2>7. Head(queue) \in Req /\ pc[Head(queue)] = "queued"
    BY <2>1, <2>6, TailElements DEF LineInv
  <2>8. Cardinality(Out) < MaxSize
    <3>1. Out = {}
      BY <2>3 DEF Out
    <3>2. QED
      BY <3>1, FS_EmptySet, SizeAssumption
  <2>9. \E c \in Conn: (place[c] = "pool" /\ c \notin closed) \/ place[c] = "unmade"
    BY <2>1, <2>8, OneCanBeMade DEF Pooled
  <2>10. QED
    BY <2>7, <2>8, <2>9 DEF CanCheckOut
<1>2. QED
  BY <1>1, PoolIsInvariant, PTL
=============================================================================
