---------------------------- MODULE Credentials -----------------------------
(***************************************************************************)
(* What the service signs and must recognise later: pack tokens (src/jwt.rs) *)
(* and challenge messages (src/challenge_auth.rs), while a deployment        *)
(* replaces the configuration of the instances one by one.  Signatures and   *)
(* MACs are perfect: one verifies with its own key and with no other.        *)
(*                                                                           *)
(* The operator acts outside the code.  The rows of pack_auth_signing_keys   *)
(* are written by hand; the rule assumed here is that two kids are in the     *)
(* table before instances run with both.  Nothing keeps the operator from     *)
(* using a kid again for a new key, or from changing the issuer.             *)
(*                                                                           *)
(* A text that a client sends is its first line and the lines after it, as    *)
(* lines() will find them once the text is part of a message.                *)
(***************************************************************************)
EXTENDS Naturals, Sequences, FiniteSetsExt

CONSTANTS
    Instance,  \* serverless instances
    Config,    \* configurations: [hmac, kid, key, iss]
    Initial,   \* the configuration every instance has at first
    Word,      \* what can be on a line after its name
    Questions, \* what clients ask challenges for: [action, fields]
    None

Actions == {"register", "update", "retire", "issue", "revoke", "list", "session"}
Field == {"service_id", "service_url", "resources_allowlist_json",
          "pack_bundles_json", "payer", "pack_id", "total_uses",
          "validity_seconds", "resources_json", "jti"}

\* A line begins with the name of a field, is empty, or is anything else.
Line == [begins: Field \cup {"nothing", "unknown"}, word: Word]

\* cr: the first line ends in a carriage return, which lines() takes away.
Text == [first: Word, cr: BOOLEAN, more: Seq(Line)]
OneLine(word) == [first |-> word, cr |-> FALSE, more |-> <<>>]

ASSUME ConfigAssumption == Initial \in Config
ASSUME QuestionAssumption ==
    \A q \in Questions:
        q.action \in Actions /\ q.fields \in [Field -> Text \cup {None}]

VARIABLES
    config,    \* config[i]: the environment instance i was started with
    table,     \* the rows of pack_auth_signing_keys, the newest first
    tokens,    \* the tokens of issued packs, by what signed them
    verdict,   \* what the last activation answered to one of them
    document,  \* the last key set an instance published
    challenge, \* the challenge a client holds
    taken      \* what a handler took from it, or how it was refused

vars == <<config, table, tokens, verdict, document, challenge, taken>>

Kid == {c.kid: c \in Config}
Key == {c.key: c \in Config}
Token == [kid: Kid, key: Key, iss: {c.iss: c \in Config}]
Published(c) == \E n \in 1..Len(table): table[n].kid = c.kid

Init ==
    /\ config = [i \in Instance |-> Initial]
    /\ table = <<>>
    /\ tokens = {}
    /\ verdict = None
    /\ document = None
    /\ challenge = None
    /\ taken = None

-----------------------------------------------------------------------------
\* The operator adds a configuration's public key to the table, or puts it in the
\* place of the key that its kid had.
Publish(c) ==
    /\ table' = IF Published(c)
                THEN [n \in DOMAIN table |-> IF table[n].kid = c.kid
                                            THEN [table[n] EXCEPT !.key = c.key]
                                            ELSE table[n]]
                ELSE <<[kid |-> c.kid, key |-> c.key, retired |-> FALSE]>> \o table
    /\ UNCHANGED <<config, tokens, verdict, document, challenge, taken>>

\* The operator sets retired_at; the row stays.
Retire(n) ==
    /\ ~table[n].retired
    /\ table' = [table EXCEPT ![n].retired = TRUE]
    /\ UNCHANGED <<config, tokens, verdict, document, challenge, taken>>

\* An instance is replaced by one of another configuration.
Deploy(i, c) ==
    /\ c # config[i]
    /\ \A d, e \in {c} \cup {config[j]: j \in Instance}: d.kid # e.kid => Published(d)
    /\ config' = [config EXCEPT ![i] = c]
    /\ UNCHANGED <<table, tokens, verdict, document, challenge, taken>>

-----------------------------------------------------------------------------
\* issue_rs256_token signs with the instance's key, names it in the header and
\* the issuer in the claims.
Issue(i) ==
    /\ tokens' = tokens \cup
         {[kid |-> config[i].kid, key |-> config[i].key, iss |-> config[i].iss]}
    /\ UNCHANGED <<config, table, verdict, document, challenge, taken>>

KeyOf(rows) == IF rows = {} THEN None ELSE table[CHOOSE n \in rows: TRUE].key

\* Fault: retired keys are not looked at.
GetUnretiredKey(kid) ==
    KeyOf({n \in 1..Len(table): table[n].kid = kid /\ ~table[n].retired})

\* WHERE kid=$1, whether or not it is retired.
GetSigningKey(kid) == KeyOf({n \in 1..Len(table): table[n].kid = kid})

\* decode_claims: the signature verifies with its own key, the issuer is the one
\* the instance has, and by the instance's clock the token has not expired.
Verifies(i, t, key, expired) == key = t.key /\ t.iss = config[i].iss /\ ~expired

\* Where instance i looks for the key of t, the kid has not been given to another.
KidStands(i, t) ==
    /\ t.kid = config[i].kid => t.key = config[i].key
    /\ \A n \in 1..Len(table): table[n].kid = t.kid => table[n].key = t.key

\* verify_pack_token: the instance's own kid needs no table; another is looked
\* up, which fails when the database does.  "good" is history: the service owes
\* this token an answer other than Unauthorized.
VerifyPackToken(i, t) ==
    \E answered, expired \in BOOLEAN:
        LET own == t.kid = config[i].kid
            key == IF own THEN config[i].key ELSE GetSigningKey(t.kid)
        IN verdict' =
             [good |-> ~expired /\ t.iss = config[i].iss /\ KidStands(i, t),
              answer |-> CASE ~own /\ ~answered -> "Internal"
                           [] (own \/ answered) /\ Verifies(i, t, key, expired) -> "ok"
                           [] OTHER -> "Unauthorized"]

Activate(i) ==
    /\ \E t \in tokens: VerifyPackToken(i, t)
    /\ UNCHANGED <<config, table, tokens, document, challenge, taken>>

\* The keys of a document, each with where it is from: the instance that builds
\* it (0), or a row of the table.
OwnKey(current) == [from |-> 0, kid |-> current.kid, key |-> current.key]
RowKey(rows, n) == [from |-> n, kid |-> rows[n].kid, key |-> rows[n].key]

\* Fault: every row of the table is appended.
BuildJwksWithDuplicates(current, rows) ==
    {OwnKey(current)} \cup {RowKey(rows, n): n \in 1..Len(rows)}

\* Fault: retired keys are not published.
BuildJwksOfUnretired(current, rows) ==
    {OwnKey(current)} \cup
    {RowKey(rows, n): n \in {m \in 1..Len(rows):
                                rows[m].kid # current.kid /\ ~rows[m].retired}}

\* The instance's own key, and the table's rows of other kids.
BuildJwks(current, rows) ==
    {OwnKey(current)} \cup
    {RowKey(rows, n): n \in {m \in 1..Len(rows): rows[m].kid # current.kid}}

\* jwks_document: when the table cannot be read it goes on without it.  "owed" is
\* history: the keys of the tokens issued so far whose kid stands.
HandleJwks(i) ==
    /\ \E answered \in BOOLEAN:
         document' = [keys |-> BuildJwks(config[i], IF answered THEN table ELSE <<>>),
                      whole |-> answered,
                      owed |-> {[kid |-> t.kid, key |-> t.key]:
                                  t \in {u \in tokens: KidStands(i, u)}}]
    /\ UNCHANGED <<config, table, tokens, verdict, challenge, taken>>

-----------------------------------------------------------------------------
\* Fault: an update's catalog is not in the message.
PushedWithoutCatalog(action) ==
    CASE action = "register" ->
           <<"service_id", "service_url", "resources_allowlist_json",
             "pack_bundles_json">>
      [] action = "update" -> <<"service_id", "resources_allowlist_json">>
      [] action = "issue" ->
           <<"service_id", "payer", "pack_id", "total_uses", "validity_seconds",
             "resources_json">>
      [] action \in {"revoke", "session"} -> <<"service_id", "jti">>
      [] action \in {"retire", "list"} -> <<"service_id">>

\* push_fields: the fields that the message of an action has, in their order.
Pushed(action) ==
    CASE action = "register" ->
           <<"service_id", "service_url", "resources_allowlist_json",
             "pack_bundles_json">>
      [] action = "update" -> 
           <<"service_id", "resources_allowlist_json", "pack_bundles_json">>
      [] action = "issue" ->
           <<"service_id", "payer", "pack_id", "total_uses", "validity_seconds",
             "resources_json">>
      [] action \in {"revoke", "session"} -> <<"service_id", "jti">>
      [] action \in {"retire", "list"} -> <<"service_id">>

\* The fields that the handler of an action will not go on without.
Required(action) ==
    CASE action = "register" ->
           {"service_id", "service_url", "resources_allowlist_json",
            "pack_bundles_json"}
      [] action = "update" ->
           {"service_id", "resources_allowlist_json", "pack_bundles_json"}
      [] action = "retire" -> {"service_id"}
      [] action = "issue" ->
           {"service_id", "payer", "pack_id", "total_uses", "validity_seconds",
            "resources_json"}
      [] action \in {"revoke", "session"} -> {"service_id", "jti"}
      [] action = "list" -> {}

\* The lines that a field brings into the message: its text is written as it is,
\* after its name.
Written(f, text) ==
    IF text = None THEN <<>> ELSE <<[begins |-> f, word |-> text.first]>> \o text.more

\* The lines of each field that is pushed, field by field, and the instance's MAC.
BuildChallengeMessage(i, q) ==
    [asked |-> q, hmac |-> config[i].hmac,
     blocks |-> [k \in 1..Len(Pushed(q.action)) |->
                   Written(Pushed(q.action)[k], q.fields[Pushed(q.action)[k]])]]

HandleChallenge(i) ==
    /\ challenge = None
    /\ \E q \in Questions: challenge' = BuildChallengeMessage(i, q)
    /\ UNCHANGED <<config, table, tokens, verdict, document, taken>>

LinesOf(block, f) == {n \in DOMAIN block: block[n].begins = f}

BlocksWith(blocks, f) == {k \in DOMAIN blocks: LinesOf(blocks[k], f) # {}}

\* take!: of the lines that begin with a field's name the last one counts.
TakeFields(blocks) ==
    [f \in Field |->
        IF BlocksWith(blocks, f) = {} THEN None
        ELSE LET block == blocks[Max(BlocksWith(blocks, f))]
             IN OneLine(block[Max(LinesOf(block, f))].word)]

\* verify_challenge_submission, and what the handler does with its result: the
\* MAC verifies under the secret that made it and every line is known; then the
\* fields are looked for.
Submit(i) ==
    /\ challenge # None /\ taken = None
    /\ LET fields == TakeFields(challenge.blocks)
           sameSecret == challenge.hmac = config[i].hmac
           readable == BlocksWith(challenge.blocks, "unknown") = {}
           found == \A f \in Required(challenge.asked.action): fields[f] # None
       IN taken' = [fields |-> fields, sameSecret |-> sameSecret,
                    answer |-> CASE ~(sameSecret /\ readable) -> "Unauthorized"
                                 [] sameSecret /\ readable /\ ~found -> "Refused"
                                 [] OTHER -> "ok"]
    /\ UNCHANGED <<config, table, tokens, verdict, document, challenge>>

\* The client is done with the challenge, or never signs it.
Drop ==
    /\ challenge # None
    /\ challenge' = None /\ taken' = None
    /\ UNCHANGED <<config, table, tokens, verdict, document>>

-----------------------------------------------------------------------------
Next ==
    \/ \E c \in Config: Publish(c)
    \/ \E n \in 1..Len(table): Retire(n)
    \/ \E i \in Instance:
         \/ \E c \in Config: Deploy(i, c)
         \/ Issue(i) \/ Activate(i) \/ HandleJwks(i)
         \/ HandleChallenge(i) \/ Submit(i)
    \/ Drop

Spec == Init /\ [][Next]_vars

-----------------------------------------------------------------------------
Keys(doc) == {[kid |-> k.kid, key |-> k.key]: k \in doc.keys}

\* The types; a key set has one key for a kid, also when the table lists the
\* kid of the instance that publishes it.
TypeOK ==
    /\ config \in [Instance -> Config]
    /\ \A n \in 1..Len(table): table[n].kid \in Kid /\ table[n].key \in Key
    /\ tokens \subseteq Token
    /\ verdict # None => verdict.answer \in {"ok", "Unauthorized", "Internal"}
    /\ document # None =>
         \A k, l \in document.keys: k.kid = l.kid => k = l
    /\ taken # None => taken.answer \in {"ok", "Unauthorized", "Refused"}

\* A pack lives longer than the key its token was signed with: whatever is
\* deployed, published and retired meanwhile, and whichever instance is asked, a
\* token of the service is not refused, unless it has expired, the instance has
\* another issuer, or the operator gave its kid to another key.
TokensStayGood == verdict # None /\ verdict.good => verdict.answer # "Unauthorized"

\* "RS256-signed pack tokens and JWKS publication" (README): with the key set an
\* instance publishes, all tokens issued so far can be verified, by whichever
\* instance, but those whose kid was given to another key, unless the table could
\* not be read: then the set is only the instance's own key, under the same
\* status.
WholeKeySetsVerifyAll ==
    document # None /\ document.whole => document.owed \subseteq Keys(document)

\* What is asked for when a challenge is built is what the handler of its
\* action finds in it, whole and without anything of another action's, although
\* asking, writing, reading and using the fields are four pieces of code: if the
\* texts that go into the message are of one line each, and do not end in a
\* carriage return.  The code does not demand that; another text is read as the
\* lines it makes, the last of a name counts, and an unknown one has the whole
\* message refused.
ChallengeCarriesRequest ==
    taken # None =>
        LET asked == challenge.asked
            carried == Required(asked.action) \cup {"service_id"}
            complete == \A f \in Required(asked.action): asked.fields[f] # None
        IN (\A f \in carried: asked.fields[f] # None =>
                asked.fields[f] = OneLine(asked.fields[f].first)) =>
             /\ taken.answer = "Unauthorized" <=> ~taken.sameSecret
             /\ taken.sameSecret => (taken.answer = "ok" <=> complete)
             /\ \A f \in Field: taken.fields[f] =
                  IF f \in carried THEN asked.fields[f] ELSE None
=============================================================================
