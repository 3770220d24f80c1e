--------------------------- MODULE MCCredentials ----------------------------
(* Small instances of Credentials for TLC. *)
EXTENDS Credentials

CONSTANTS i1, i2, a, b

\* Four configurations: the first; a new key under a new kid with a new secret; a
\* new key under the old kid; and another issuer.
MCInitial == [hmac |-> 1, kid |-> 1, key |-> 1, iss |-> 1]
MCConfig ==
    {MCInitial, [MCInitial EXCEPT !.hmac = 2, !.kid = 2, !.key = 2],
     [MCInitial EXCEPT !.key = 3], [MCInitial EXCEPT !.iss = 2]}

\* Every action is asked for with all fields, without jti and payer, and with a
\* service_id that brings more lines: none, one of another field, one of its own,
\* an unknown one, or a carriage return.
Lines(l) == [OneLine(a) EXCEPT !.more = l]
Texts ==
    {OneLine(a), [OneLine(a) EXCEPT !.cr = TRUE]} \cup
    {Lines(<<[begins |-> f, word |-> b]>>):
        f \in {"nothing", "payer", "service_id", "unknown"}}
Asked(missing, id) ==
    [f \in Field |-> IF f \in missing THEN None
                     ELSE IF f = "service_id" THEN id ELSE OneLine(a)]
MCQuestions ==
    {[action |-> act, fields |-> Asked({}, id)]: act \in Actions, id \in Texts} \cup
    {[action |-> act, fields |-> Asked({"jti", "payer"}, OneLine(a))]: act \in Actions}

\* No step reads what was answered before, and none reads both the tokens and a
\* challenge: behaviours that have them apart show all there is.
Apart ==
    /\ document = None \/ verdict = None
    /\ challenge = None \/ (tokens = {} /\ document = None)
=============================================================================
