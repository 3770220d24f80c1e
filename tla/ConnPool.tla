------------------------------ MODULE ConnPool ------------------------------
(***************************************************************************)
(* The connections of one instance.  Its requests share a pool of at most   *)
(* max_size connections (src/db.rs, AuthDb); each database call takes one,  *)
(* runs BEGIN, SET LOCAL, DEALLOCATE ALL, its statements and COMMIT on it,  *)
(* and then returns it to the pool or discards it.  A call that waits too   *)
(* long stops waiting, but what it sent is still under way: the server      *)
(* answers the messages of a connection in order, whoever still listens.    *)
(*                                                                          *)
(* RecyclingMethod::Fast hands a pooled connection to the next call as it   *)
(* is, unless it is closed: no ROLLBACK, and nobody looks whether a         *)
(* transaction is open.  This module is about what that next call finds.    *)
(***************************************************************************)
EXTENDS Naturals, Sequences, FiniteSets

CONSTANTS
    Req,       \* requests that reach the instance
    Conn,      \* connections the instance can make, none of them twice
    MaxSize,   \* max_size of the pool
    Programs,  \* Programs[r]: the sequences of database calls that r may make
    MaxFaults, \* bound on the waits that time out and the connections lost
    None

\* "session" is create_pack_session, "ping" is ping; "call" is any other.
Kinds == {"call", "session", "ping"}

\* The k-th database call of a request.
Call == Req \X (Nat \ {0})

ASSUME ProgramAssumption ==
    \A r \in Req: Programs[r] \subseteq Seq(Kinds) \ {<<>>}
ASSUME SizeAssumption ==
    /\ MaxSize \in Nat \ {0} /\ MaxFaults \in Nat
    /\ IsFiniteSet(Conn) /\ Cardinality(Conn) >= MaxSize + MaxFaults
ASSUME NameAssumption ==
    /\ None \notin Req \cup Conn \cup Call \cup {"ok", "error"}
    /\ Req \cap {"unmade", "pool", "detached", "gone"} = {}

VARIABLES
    queue,  \* the requests that wait for a connection, first come first served
    prog,   \* prog[r]: the calls r makes
    at,     \* at[r]: the call r is at
    pc,     \* what r waits for: its turn, or the answer to a message
    heard,  \* the answer to what r sent last
    conn,   \* the connection r uses
    place,  \* place[c]: where connection c is
    closed, \* the connections whose closing the client side knows
    wire,   \* wire[c]: messages on their way, or not yet answered
    open,   \* open[c]: the call whose BEGIN opened the transaction of c
    wrote,  \* wrote[c]: the calls that wrote in it
    lock,   \* the connection whose transaction holds the row calls fight for
    ran,    \* history: [by, in], statements and the transactions they ran in
    kept,   \* history: [of, by], what was committed, and by whose COMMIT
    lost,   \* history: the calls whose BEGIN was not waited for to the end
    faults  \* how many waits timed out and connections were lost

client == <<queue, prog, at, pc, heard, conn, place>>
server == <<wire, open, wrote, lock>>
history == <<ran, kept, lost>>
vars == <<client, server, closed, history, faults>>

\* "SETTINGS" is SET LOCAL and then DEALLOCATE ALL, "STATEMENT" every statement
\* of the call: a failure of the second of them is handled like the first's.
Messages ==
    {"BEGIN", "SETTINGS", "STATEMENT", "COMMIT", "ROLLBACK", "SELECT_1"}

Current(r) == <<r, at[r]>>
KindOf(call) == prog[call[1]][call[2]]

Init ==
    /\ queue = <<>>
    /\ prog = [r \in Req |-> None]
    /\ at = [r \in Req |-> 0]
    /\ pc = [r \in Req |-> "idle"]
    /\ heard = [r \in Req |-> None]
    /\ conn = [r \in Req |-> None]
    /\ place = [c \in Conn |-> "unmade"]
    /\ closed = {}
    /\ wire = [c \in Conn |-> <<>>]
    /\ open = [c \in Conn |-> None]
    /\ wrote = [c \in Conn |-> {}]
    /\ lock = None
    /\ ran = {} /\ kept = {} /\ lost = {}
    /\ faults = 0

-----------------------------------------------------------------------------
\* r waits in line for a connection.
Enqueue(r) ==
    /\ queue' = Append(queue, r)
    /\ pc' = [pc EXCEPT ![r] = "queued"]
    /\ heard' = [heard EXCEPT ![r] = None]

\* A request arrives at a handler and makes its first call.
Arrive(r) ==
    /\ pc[r] = "idle"
    /\ \E p \in Programs[r]: prog' = [prog EXCEPT ![r] = p]
    /\ at' = [at EXCEPT ![r] = 1]
    /\ Enqueue(r)
    /\ UNCHANGED <<conn, place, closed, server, history, faults>>

\* r sends a message on c and waits for its answer under that name; on a
\* connection that is closed it hears at once that it is.
Send(r, c, message, label) ==
    /\ pc' = [pc EXCEPT ![r] = label]
    /\ IF c \in closed
       THEN heard' = [heard EXCEPT ![r] = "error"] /\ UNCHANGED wire
       ELSE /\ heard' = [heard EXCEPT ![r] = None]
            /\ wire' = [wire EXCEPT
                 ![c] = Append(@, [by |-> Current(r), msg |-> message])]

Out == {c \in Conn: place[c] \in Req}
Pooled == {c \in Conn: place[c] = "pool"}

\* The first in line gets a pooled connection that is not closed, or a new one
\* when there is none; closed ones are dropped on the way.
Checkout(r) ==
    /\ pc[r] = "queued" /\ Head(queue) = r
    /\ Cardinality(Out) < MaxSize
    /\ \E c \in Conn:
         /\ IF Pooled \ closed # {} THEN c \in Pooled \ closed
                                    ELSE c = CHOOSE d \in Conn: place[d] = "unmade"
         /\ place' = [place EXCEPT ![c] = r]
         /\ conn' = [conn EXCEPT ![r] = c]
         /\ LET first == IF KindOf(Current(r)) = "ping" THEN "SELECT_1" ELSE "BEGIN"
            IN Send(r, c, first, first)
    /\ queue' = Tail(queue)
    /\ UNCHANGED <<prog, at, closed, open, wrote, lock, history, faults>>

\* What a call sends after the answer to one message.
Following ==
    [m \in {"BEGIN", "SETTINGS", "STATEMENT"} |->
       CASE m = "BEGIN" -> "SETTINGS"
         [] m = "SETTINGS" -> "STATEMENT"
         [] m = "STATEMENT" -> "COMMIT"]

Continue(r) ==
    /\ heard[r] = "ok" /\ pc[r] \in DOMAIN Following
    /\ Send(r, conn[r], Following[pc[r]], Following[pc[r]])
    /\ UNCHANGED <<queue, prog, at, conn, place, closed, open, wrote, lock,
                   history, faults>>

\* The Client is dropped: the pool takes it back, with whatever is on it.
GiveBack(r) ==
    /\ place' = [place EXCEPT ![conn[r]] = IF conn[r] \in closed THEN "gone" ELSE "pool"]
    /\ conn' = [conn EXCEPT ![r] = None]

\* Fault: a client that is to be discarded is dropped.
DiscardToPool(r) == GiveBack(r)

\* discard: the connection leaves the pool and its socket is closed; the
\* server will notice, but may act on what it has received before it does.
Discard(r) ==
    /\ place' = [place EXCEPT ![conn[r]] = IF conn[r] \in closed THEN "gone" ELSE "detached"]
    /\ conn' = [conn EXCEPT ![r] = None]

\* Fault: a handler keeps its client while it waits for the next one.
FinishHolding(r) ==
    /\ heard[r] = "ok" /\ pc[r] \in {"COMMIT", "SELECT_1"}
    /\ IF at[r] < Len(prog[r])
       THEN /\ at' = [at EXCEPT ![r] = @ + 1]
            /\ Enqueue(r)
            /\ UNCHANGED <<place, conn>>
       ELSE /\ GiveBack(r)
            /\ pc' = [pc EXCEPT ![r] = "done"]
            /\ UNCHANGED <<at, queue, heard>>
    /\ UNCHANGED <<prog, closed, server, history, faults>>

\* A call that went well returns its connection before the handler makes its
\* next call, on whatever connection it will get.
Finish(r) ==
    /\ heard[r] = "ok" /\ pc[r] \in {"COMMIT", "SELECT_1"}
    /\ GiveBack(r)
    /\ IF at[r] < Len(prog[r])
       THEN at' = [at EXCEPT ![r] = @ + 1] /\ Enqueue(r)
       ELSE /\ pc' = [pc EXCEPT ![r] = "done"]
            /\ UNCHANGED <<at, queue, heard>>
    /\ UNCHANGED <<prog, closed, server, history, faults>>

-----------------------------------------------------------------------------
\* Fault: every call leaves by ? when its BEGIN fails.
OnErrorAfterBegin(r) ==
    CASE pc[r] \in {"SETTINGS", "STATEMENT"} -> "rollBack"
      [] pc[r] \in {"SELECT_1", "BEGIN", "ROLLBACK_OPENING"} -> "giveBack"
      [] OTHER -> "discard"

\* Fault: create_pack_session leaves by ? when a statement fails.
OnErrorOfStatement(r) ==
    CASE pc[r] = "SETTINGS" -> "rollBack"
      [] pc[r] = "STATEMENT" /\ KindOf(Current(r)) # "session" -> "rollBack"
      [] pc[r] \in {"SELECT_1", "STATEMENT"} -> "giveBack"
      [] OTHER -> "discard"

\* What a call does about an error or a timeout, by what it waited for.  ping
\* never discards.  create_pack_session does not where open_transaction fails:
\* it leaves by ?.
OnError(r) ==
    CASE pc[r] \in {"SETTINGS", "STATEMENT"} -> "rollBack"
      [] pc[r] = "SELECT_1" -> "giveBack"
      [] pc[r] \in {"BEGIN", "ROLLBACK_OPENING"} ->
           IF KindOf(Current(r)) = "session" THEN "giveBack" ELSE "discard"
      [] OTHER -> "discard"

StartRollback(r) ==
    /\ heard[r] = "error" /\ conn[r] # None /\ OnError(r) = "rollBack"
    /\ Send(r, conn[r], "ROLLBACK",
            IF pc[r] = "SETTINGS" THEN "ROLLBACK_OPENING" ELSE "ROLLBACK")
    /\ UNCHANGED <<queue, prog, at, conn, place, closed, open, wrote, lock,
                   history, faults>>

\* The call fails, and the handler with it; what ROLLBACK said is ignored.
FailCall(r) ==
    /\ conn[r] # None
    /\ \/ heard[r] = "error"
       \/ heard[r] = "ok" /\ pc[r] \in {"ROLLBACK", "ROLLBACK_OPENING"}
    /\ \/ OnError(r) = "giveBack" /\ GiveBack(r)
       \/ OnError(r) = "discard" /\ Discard(r)
    /\ pc' = [pc EXCEPT ![r] = "done"]
    /\ UNCHANGED <<queue, prog, at, heard, closed, server, history, faults>>

\* WIRE_TIMEOUT, or the eight seconds of ping.
WireTimeout(r) ==
    /\ faults < MaxFaults
    /\ conn[r] # None /\ heard[r] = None
    /\ heard' = [heard EXCEPT ![r] = "error"]
    /\ lost' = IF pc[r] = "BEGIN" THEN lost \cup {Current(r)} ELSE lost
    /\ faults' = faults + 1
    /\ UNCHANGED <<queue, prog, at, pc, conn, place, closed, server, ran, kept>>

\* POOL_TIMEOUT, or no connection can be made.
PoolTimeout(r) ==
    /\ faults < MaxFaults
    /\ pc[r] = "queued"
    /\ \E i \in 1..Len(queue):
         /\ queue[i] = r
         /\ queue' = SubSeq(queue, 1, i - 1) \o SubSeq(queue, i + 1, Len(queue))
    /\ pc' = [pc EXCEPT ![r] = "done"]
    /\ faults' = faults + 1
    /\ UNCHANGED <<prog, at, heard, conn, place, closed, server, history>>

-----------------------------------------------------------------------------
\* The server takes the messages of a connection in order.  The sender hears
\* the answer if it still waits for it.
Answered(c, answer) ==
    LET m == Head(wire[c]) IN
    /\ wire' = [wire EXCEPT ![c] = Tail(@)]
    /\ heard' = [r \in Req |->
         IF /\ conn[r] = c /\ heard[r] = None /\ m.by = Current(r)
            /\ m.msg = IF pc[r] = "ROLLBACK_OPENING" THEN "ROLLBACK" ELSE pc[r]
         THEN answer ELSE heard[r]]

Receives(c, message) ==
    /\ wire[c] # <<>> /\ Head(wire[c]).msg = message
    /\ UNCHANGED <<queue, prog, at, pc, conn, place, closed, lost>>

\* A second BEGIN is a warning, and the transaction that is open goes on with
\* the NOW() of the first.
Begin(c) ==
    /\ Receives(c, "BEGIN")
    /\ open' = [open EXCEPT ![c] = IF @ = None THEN Head(wire[c]).by ELSE @]
    /\ Answered(c, "ok")
    /\ UNCHANGED <<wrote, lock, ran, kept, faults>>

\* Settings of the session or the transaction, and the ping.
Acknowledge(c) ==
    /\ \E m \in {"SETTINGS", "SELECT_1"}: Receives(c, m)
    /\ Answered(c, "ok")
    /\ UNCHANGED <<open, wrote, lock, ran, kept, faults>>

\* A statement waits for the row; outside a transaction it commits itself.
Statement(c) ==
    LET m == Head(wire[c]) IN
    /\ Receives(c, "STATEMENT")
    /\ lock \in {None, c}
    /\ Answered(c, "ok")
    /\ ran' = ran \cup {[by |-> m.by, in |-> open[c]]}
    /\ IF open[c] = None
       THEN /\ kept' = kept \cup {[of |-> m.by, by |-> None]}
            /\ UNCHANGED <<wrote, lock>>
       ELSE /\ wrote' = [wrote EXCEPT ![c] = @ \cup {m.by}]
            /\ lock' = c
            /\ UNCHANGED kept
    /\ UNCHANGED <<open, faults>>

\* What ends a transaction.
End(c) ==
    /\ open' = [open EXCEPT ![c] = None]
    /\ wrote' = [wrote EXCEPT ![c] = {}]
    /\ lock' = IF lock = c THEN None ELSE lock

\* A statement fails, and whatever its transaction did with it.
StatementFails(c) ==
    /\ faults < MaxFaults
    /\ Receives(c, "STATEMENT")
    /\ Answered(c, "error")
    /\ wrote' = [wrote EXCEPT ![c] = {}]
    /\ faults' = faults + 1
    /\ UNCHANGED <<open, lock, ran, kept>>

Commit(c) ==
    /\ Receives(c, "COMMIT")
    /\ kept' = kept \cup {[of |-> w, by |-> Head(wire[c]).by]: w \in wrote[c]}
    /\ Answered(c, "ok")
    /\ End(c)
    /\ UNCHANGED <<ran, faults>>

Rollback(c) ==
    /\ Receives(c, "ROLLBACK")
    /\ Answered(c, "ok")
    /\ End(c)
    /\ UNCHANGED <<ran, kept, faults>>

\* The connection is gone for the server: its transaction is rolled back.
HangUp(c) ==
    /\ wire' = [wire EXCEPT ![c] = <<>>]
    /\ End(c)

NoticeDiscard(c) ==
    /\ place[c] = "detached"
    /\ HangUp(c)
    /\ place' = [place EXCEPT ![c] = "gone"]
    /\ UNCHANGED <<queue, prog, at, pc, heard, conn, closed, history, faults>>

\* A connection is lost, in use or in the pool; whoever waits on it hears so.
Lose(c) ==
    /\ faults < MaxFaults
    /\ place[c] \in Req \cup {"pool"} /\ c \notin closed
    /\ HangUp(c)
    /\ closed' = closed \cup {c}
    /\ heard' = [r \in Req |->
         IF conn[r] = c /\ heard[r] = None THEN "error" ELSE heard[r]]
    /\ faults' = faults + 1
    /\ UNCHANGED <<queue, prog, at, pc, conn, place, history>>

-----------------------------------------------------------------------------
Handle(r) ==
    Checkout(r) \/ Continue(r) \/ Finish(r) \/ StartRollback(r) \/ FailCall(r)

Serve(c) ==
    \/ Begin(c) \/ Acknowledge(c) \/ Statement(c) \/ Commit(c) \/ Rollback(c)
    \/ NoticeDiscard(c)

Quiet ==
    /\ \A r \in Req: pc[r] = "done"
    /\ UNCHANGED vars

Next ==
    \/ \E r \in Req: Arrive(r) \/ Handle(r) \/ WireTimeout(r) \/ PoolTimeout(r)
    \/ \E c \in Conn: Serve(c) \/ StatementFails(c) \/ Lose(c)
    \/ Quiet

Spec == Init /\ [][Next]_vars

\* Handlers go on, and the server answers; no wait is assumed to time out.
FairSpec ==
    /\ Spec
    /\ \A r \in Req: WF_vars(Handle(r))
    /\ \A c \in Conn: WF_vars(Serve(c))

-----------------------------------------------------------------------------
\* The types, and whose a connection in use is.
TypeOK ==
    /\ queue \in Seq(Req)
    /\ \A r \in Req: prog[r] \in Programs[r] \cup {None}
    /\ pc \in [Req -> {"idle", "queued", "done", "ROLLBACK_OPENING"} \cup Messages]
    /\ heard \in [Req -> {None, "ok", "error"}]
    /\ place \in [Conn -> Req \cup {"unmade", "pool", "detached", "gone"}]
    /\ Cardinality(Out) <= MaxSize
    /\ \A c \in Conn: place[c] \in Req => conn[place[c]] = c
    /\ open \in [Conn -> Call \cup {None}]
    /\ \A c \in Conn: wrote[c] \subseteq Call
    /\ lock \in Conn \cup {None}

\* Every statement runs in the transaction that its own call began, and so
\* under the NOW() of its own time, although nobody looks what state a pooled
\* connection is in.  The one exception is the transaction of an activation
\* that did not wait for its BEGIN to be answered: create_pack_session lets
\* its connection go back, and the next call runs under the NOW() of then.
OnlyLostBeginsLeak ==
    \A s \in ran: s.in # s.by => s.in \in lost /\ KindOf(s.in) = "session"

\* A call's writes are committed by its own COMMIT or not at all: a call that
\* failed half way never has its statements committed by the next user of its
\* connection, nor one by one outside a transaction.
OwnCommitsOnly == \A w \in kept: w.by = w.of

\* A connection that waits in the pool holds no row, and nothing that it still
\* has to answer will make it: calls that gave up on a statement do not block
\* others from there.
IdleHoldsNothing ==
    \A c \in Pooled:
        /\ lock # c /\ wrote[c] = {}
        /\ \A i \in 1..Len(wire[c]): wire[c][i].msg \notin {"STATEMENT", "COMMIT"}

\* Every request is answered, although requests that wait for a row hold
\* connections that others wait for, and although a handler needs several
\* connections, one after the other.  No timeout is needed for it.
EveryRequestAnswered == \A r \in Req: pc[r] = "queued" ~> pc[r] = "done"
=============================================================================
