----------------------------- MODULE MCConnPool -----------------------------
(* Small instances of ConnPool for TLC. *)
EXTENDS ConnPool

CONSTANTS r1, r2, r3, c1, c2, c3, c4

\* The calls of handle_consume, of handle_create_session from its challenge on,
\* and of handle_health.
Consume == <<"call", "call">>
Activate == <<"call", "session">>
Health == <<"ping">>

MCPrograms ==
    [r \in Req |-> CASE r = r1 -> {Consume}
                     [] r = r2 -> {Activate}
                     [] r = r3 -> {Consume, Health}]
=============================================================================
