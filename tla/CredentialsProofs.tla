------------------------- MODULE CredentialsProofs --------------------------
(***************************************************************************)
(* Proofs about Credentials, for any number of instances and               *)
(* configurations.                                                          *)
(***************************************************************************)
EXTENDS Credentials, TLAPS

Row == [kid: Kid, key: Key, retired: BOOLEAN]

KidInTable(kid) == \E n \in 1..Len(table): table[n].kid = kid

Types ==
    /\ config \in [Instance -> Config]
    /\ table \in Seq(Row)
    /\ tokens \subseteq Token

\* Kids that are in use side by side are in the table, and the kid of a token is in
\* use everywhere or in the table.
KidsAreKnown ==
    /\ \A i, j \in Instance: config[i].kid # config[j].kid => Published(config[i])
    /\ \A t \in tokens, i \in Instance: t.kid = config[i].kid \/ KidInTable(t.kid)

KeyInv == Types /\ KidsAreKnown /\ TokensStayGood

-----------------------------------------------------------------------------
\* A kid that is in the table and stands is found there with its key.
LEMMA FoundKeyIsNamed ==
    ASSUME NEW i \in Instance, NEW t, KidStands(i, t), KidInTable(t.kid)
    PROVE  GetSigningKey(t.kid) = t.key
<1> DEFINE found == {n \in 1..Len(table): table[n].kid = t.kid}
           n == CHOOSE n \in found: TRUE
<1>1. found # {}
  BY DEF KidInTable
<1>2. n \in found
  BY <1>1
<1>3. GetSigningKey(t.kid) = table[n].key
  BY <1>1 DEF GetSigningKey, KeyOf
<1>4. QED
  BY <1>2, <1>3 DEF KidStands

\* No instance refuses a token that the service owes an answer.
LEMMA GoodTokensVerify ==
    ASSUME KeyInv, NEW i \in Instance, NEW t \in tokens, VerifyPackToken(i, t)
    PROVE  TokensStayGood'
<1> DEFINE own == t.kid = config[i].kid
           key == IF own THEN config[i].key ELSE GetSigningKey(t.kid)
<1>1. PICK answered \in BOOLEAN, expired \in BOOLEAN:
        verdict' =
             [good |-> ~expired /\ t.iss = config[i].iss /\ KidStands(i, t),
              answer |-> CASE ~own /\ ~answered -> "Internal"
                           [] (own \/ answered) /\ Verifies(i, t, key, expired) -> "ok"
                           [] OTHER -> "Unauthorized"]
  BY DEF VerifyPackToken
<1>2. ASSUME ~expired, t.iss = config[i].iss, KidStands(i, t)
      PROVE  Verifies(i, t, key, expired)
  <2>1. CASE own
    BY <1>2, <2>1 DEF Verifies, KidStands
  <2>2. CASE ~own
    <3>1. KidInTable(t.kid)
      BY <2>2 DEF KeyInv, KidsAreKnown
    <3>2. key = t.key
      BY <1>2, <2>2, <3>1, FoundKeyIsNamed
    <3>3. QED
      BY <1>2, <3>2 DEF Verifies
  <2>3. QED
    BY <2>1, <2>2
<1> HIDE DEF own, key
<1>3. /\ verdict'.good = (~expired /\ t.iss = config[i].iss /\ KidStands(i, t))
      /\ verdict'.answer = CASE ~own /\ ~answered -> "Internal"
                             [] (own \/ answered) /\ Verifies(i, t, key, expired) -> "ok"
                             [] OTHER -> "Unauthorized"
  BY <1>1
<1>4. Verifies(i, t, key, expired) => verdict'.answer # "Unauthorized"
  BY <1>3
<1>5. QED
  BY <1>2, <1>3, <1>4 DEF TokensStayGood

-----------------------------------------------------------------------------
LEMMA KeyInit == Init => KeyInv
BY ConfigAssumption DEF Init, KeyInv, Types, KidsAreKnown, TokensStayGood

\* What neither writes the table nor deploys, signs or verifies changes nothing.
LEMMA OthersKeepKeys ==
    KeyInv /\ UNCHANGED <<config, table, tokens, verdict>> => KeyInv'
BY DEF KeyInv, Types, KidsAreKnown, TokensStayGood, Published, KidInTable

\* kid is the primary key of pack_auth_signing_keys.
KidsAreUnique ==
    \A m, n \in 1..Len(table): table[m].kid = table[n].kid => m = n

\* Publishing keeps the rows in shape, and every kid that was there.
LEMMA PublishedRows ==
    ASSUME Types, NEW c \in Config, Publish(c)
    PROVE  /\ table' \in Seq(Row)
           /\ \A kid: KidInTable(kid) => KidInTable(kid)'
           /\ KidsAreUnique => KidsAreUnique'
<1> DEFINE row == [kid |-> c.kid, key |-> c.key, retired |-> FALSE]
           keyed == [n \in DOMAIN table |-> IF table[n].kid = c.kid
                                           THEN [table[n] EXCEPT !.key = c.key]
                                           ELSE table[n]]
           new == <<row>> \o table
<1>1. table' = IF Published(c) THEN keyed ELSE new
  BY DEF Publish
<1>2. row \in Row /\ row.kid = c.kid /\ c.key \in Key
  BY DEF Row, Kid, Key
<1>3. /\ table \in Seq(Row) /\ Len(table) \in Nat /\ DOMAIN table = 1..Len(table)
      /\ \A n \in 1..Len(table): table[n] \in Row
  BY DEF Types
<1>4. CASE Published(c)
  <2>1. \A n \in 1..Len(table): keyed[n] \in Row /\ keyed[n].kid = table[n].kid
    BY <1>2, <1>3 DEF Row
  <2>2. DOMAIN keyed = 1..Len(table)
    BY <1>3
  <2>3. keyed = [n \in 1..Len(table) |-> keyed[n]]
    BY <1>3
  <2> HIDE DEF keyed
  <2>4. keyed \in [1..Len(table) -> Row]
    BY <2>1, <2>3
  <2>5. keyed \in Seq(Row) /\ Len(keyed) = Len(table)
    BY <1>3, <2>4
  <2>6. table' = keyed
    BY <1>1, <1>4
  <2>7. \A kid: KidInTable(kid) => \E n \in 1..Len(keyed): keyed[n].kid = kid
    BY <2>1, <2>5 DEF KidInTable
  <2>8. KidsAreUnique =>
          \A m, n \in 1..Len(keyed): keyed[m].kid = keyed[n].kid => m = n
    BY <2>1, <2>5 DEF KidsAreUnique
  <2>9. QED
    BY <2>5, <2>6, <2>7, <2>8 DEF KidInTable, KidsAreUnique
<1>5. CASE ~Published(c)
  <2>1. \A n \in 1..Len(table): table[n].kid # c.kid
    BY <1>5 DEF Published
  <2>2. /\ new \in Seq(Row) /\ Len(new) = Len(table) + 1
        /\ new[1] = row
        /\ \A n \in 1..Len(table): new[n + 1] = table[n]
    BY <1>2, <1>3
  <2>3. table' = new
    BY <1>1, <1>5
  <2> HIDE DEF new
  <2>4. \A n \in 1..Len(new): n = 1 \/ (n - 1 \in 1..Len(table) /\ new[n] = table[n - 1])
    BY <1>3, <2>2
  <2>5. \A kid: KidInTable(kid) => \E n \in 1..Len(new): new[n].kid = kid
    <3> SUFFICES ASSUME NEW kid, NEW n \in 1..Len(table), table[n].kid = kid
                 PROVE  \E m \in 1..Len(new): new[m].kid = kid
      BY DEF KidInTable
    <3>1. n + 1 \in 1..Len(new) /\ new[n + 1].kid = kid
      BY <1>3, <2>2
    <3>2. QED
      BY <3>1
  <2>6. ASSUME KidsAreUnique, NEW m \in 1..Len(new), NEW n \in 1..Len(new),
               new[m].kid = new[n].kid
        PROVE  m = n
    <3>1. CASE m = 1 \/ n = 1
      BY <1>2, <2>1, <2>2, <2>4, <2>6, <3>1
    <3>2. CASE m # 1 /\ n # 1
      <4>1. m - 1 = n - 1
        BY <2>4, <2>6, <3>2 DEF KidsAreUnique
      <4>2. QED
        BY <4>1
    <3>3. QED
      BY <3>1, <3>2
  <2>7. QED
    BY <2>2, <2>3, <2>5, <2>6 DEF KidInTable, KidsAreUnique
<1>6. QED
  BY <1>4, <1>5

LEMMA PublishStep ==
    ASSUME KeyInv, NEW c \in Config, Publish(c)
    PROVE  KeyInv'
<1>1. UNCHANGED <<config, tokens, verdict>>
  BY DEF Publish
<1>2. /\ table' \in Seq(Row)
      /\ \A kid: KidInTable(kid) => KidInTable(kid)'
  BY PublishedRows DEF KeyInv
<1>3. \A d: Published(d) => Published(d)'
  BY <1>2 DEF Published, KidInTable
<1>4. KidsAreKnown'
  BY <1>1, <1>2, <1>3 DEF KeyInv, KidsAreKnown
<1>5. QED
  BY <1>1, <1>2, <1>4 DEF KeyInv, Types, TokensStayGood

\* Retiring changes no kid.
LEMMA RetiredRows ==
    ASSUME Types, NEW n \in 1..Len(table), Retire(n)
    PROVE  /\ table' \in Seq(Row)
           /\ \A kid: KidInTable(kid) <=> KidInTable(kid)'
           /\ KidsAreUnique => KidsAreUnique'
<1>1. table' = [table EXCEPT ![n].retired = TRUE]
  BY DEF Retire
<1>2. table \in Seq(Row) /\ \A m \in 1..Len(table): table[m] \in Row
  BY DEF Types
<1> DEFINE row == [table[n] EXCEPT !.retired = TRUE]
           new == [table EXCEPT ![n] = row]
<1>3. row \in Row /\ row.kid = table[n].kid
  BY <1>2 DEF Row
<1>4. table' = new
  BY <1>1
<1> HIDE DEF row
<1>5. new \in Seq(Row) /\ Len(new) = Len(table)
  BY <1>2, <1>3
<1>6. \A m \in 1..Len(table): new[m].kid = table[m].kid
  BY <1>2, <1>3
<1> HIDE DEF new
<1>7. \A kid: KidInTable(kid) <=> \E m \in 1..Len(new): new[m].kid = kid
  BY <1>5, <1>6 DEF KidInTable
<1>8. KidsAreUnique => \A k, m \in 1..Len(new): new[k].kid = new[m].kid => k = m
  BY <1>5, <1>6 DEF KidsAreUnique
<1>9. QED
  BY <1>4, <1>5, <1>7, <1>8 DEF KidInTable, KidsAreUnique

LEMMA RetireStep ==
    ASSUME KeyInv, NEW n \in 1..Len(table), Retire(n)
    PROVE  KeyInv'
<1>1. UNCHANGED <<config, tokens, verdict>>
  BY DEF Retire
<1>2. /\ table' \in Seq(Row)
      /\ \A kid: KidInTable(kid) <=> KidInTable(kid)'
  BY RetiredRows DEF KeyInv
<1>3. \A d: Published(d) <=> Published(d)'
  BY <1>2 DEF Published, KidInTable
<1>4. KidsAreKnown'
  BY <1>1, <1>2, <1>3 DEF KeyInv, KidsAreKnown
<1>5. QED
  BY <1>1, <1>2, <1>4 DEF KeyInv, Types, TokensStayGood

LEMMA DeployStep ==
    ASSUME KeyInv, NEW i \in Instance, NEW c \in Config, Deploy(i, c)
    PROVE  KeyInv'
<1>1. /\ config' = [config EXCEPT ![i] = c]
      /\ UNCHANGED <<table, tokens, verdict>>
      /\ \A d, e \in {c} \cup {config[j]: j \in Instance}: d.kid # e.kid => Published(d)
  BY DEF Deploy
<1>2. config' \in [Instance -> Config] /\ config'[i] = c
      /\ \A j \in Instance: config'[j] \in {c} \cup {config[k]: k \in Instance}
  BY <1>1 DEF KeyInv, Types
<1>3. \A d: Published(d) <=> Published(d)'
  BY <1>1 DEF Published
<1>4. ASSUME NEW j \in Instance, NEW k \in Instance, config'[j].kid # config'[k].kid
      PROVE  Published(config'[j])
  BY <1>1, <1>2, <1>4
<1>5. ASSUME NEW t \in tokens, NEW j \in Instance, t.kid # config'[j].kid
      PROVE  KidInTable(t.kid)
  <2>1. CASE t.kid # config[j].kid
    BY <2>1 DEF KeyInv, KidsAreKnown
  <2>2. CASE t.kid = config[j].kid
    <3>1. Published(config[j])
      BY <1>1, <1>2, <1>5, <2>2
    <3>2. QED
      BY <2>2, <3>1 DEF Published, KidInTable
  <2>3. QED
    BY <2>1, <2>2
<1>6. KidsAreKnown'
  <2>1. \A t \in tokens: KidInTable(t.kid) <=> KidInTable(t.kid)'
    BY <1>1 DEF KidInTable
  <2>2. QED
    BY <1>1, <1>3, <1>4, <1>5, <2>1 DEF KidsAreKnown
<1>7. QED
  BY <1>1, <1>2, <1>6 DEF KeyInv, Types, TokensStayGood

LEMMA IssueStep ==
    ASSUME KeyInv, NEW i \in Instance, Issue(i)
    PROVE  KeyInv'
<1> DEFINE t == [kid |-> config[i].kid, key |-> config[i].key, iss |-> config[i].iss]
<1>1. tokens' = tokens \cup {t} /\ UNCHANGED <<config, table, verdict>>
  BY DEF Issue
<1>2. config[i] \in Config
  BY DEF KeyInv, Types
<1>3. t \in Token
  BY <1>2 DEF Token, Kid, Key
<1>4. \A j \in Instance: t.kid = config[j].kid \/ KidInTable(t.kid)
  BY DEF KeyInv, KidsAreKnown, Published, KidInTable
<1>5. QED
  BY <1>1, <1>2, <1>3, <1>4 DEF KeyInv, Types, KidsAreKnown,
                                TokensStayGood, Published, KidInTable

LEMMA KeyStep == KeyInv /\ [Next]_vars => KeyInv'
<1> SUFFICES ASSUME KeyInv, [Next]_vars PROVE KeyInv'
  OBVIOUS
<1>1. ASSUME NEW i \in Instance, Activate(i)
      PROVE  KeyInv'
  <2>1. TokensStayGood' /\ UNCHANGED <<config, table, tokens>>
    BY <1>1, GoodTokensVerify DEF Activate
  <2>2. QED
    BY <2>1 DEF KeyInv, Types, KidsAreKnown, Published, KidInTable
<1>2. QED
  BY <1>1, PublishStep, RetireStep, DeployStep, IssueStep, OthersKeepKeys
     DEF Next, HandleJwks, HandleChallenge, Submit, Drop, vars

\* Whatever is deployed, published and retired meanwhile, and whichever instance
\* is asked, a token of the service is not refused, unless it has expired, the
\* instance has another issuer, or its kid was given to another key
\* (verify_pack_token, get_signing_key, decode_claims).
THEOREM TokensAreRecognised == Spec => []TokensStayGood
<1>1. KeyInv => TokensStayGood
  BY DEF KeyInv
<1>2. QED
  BY <1>1, KeyInit, KeyStep, PTL DEF Spec

-----------------------------------------------------------------------------
\* One key for a kid in a key set, and in a whole one the key of every token whose
\* kid stands.
DocumentInv ==
    document # None =>
        /\ \A k, l \in document.keys: k.kid = l.kid => k = l
        /\ document.whole => document.owed \subseteq Keys(document)

KeySetInv == KeyInv /\ KidsAreUnique /\ DocumentInv

\* A key set that is built from the table, or from none of it, has one key for a
\* kid; built from the table, it has the keys it owes.
LEMMA KeySetIsRight ==
    ASSUME KeyInv, KidsAreUnique, NEW i \in Instance, HandleJwks(i)
    PROVE  DocumentInv'
<1> DEFINE owed == {[kid |-> t.kid, key |-> t.key]: t \in {u \in tokens: KidStands(i, u)}}
<1>1. PICK answered \in BOOLEAN:
        document' = [keys |-> BuildJwks(config[i], IF answered THEN table ELSE <<>>),
                     whole |-> answered, owed |-> owed]
  BY DEF HandleJwks
<1> DEFINE rows == IF answered THEN table ELSE <<>>
           keys == BuildJwks(config[i], rows)
<1>2. \A m, n \in 1..Len(rows): rows[m].kid = rows[n].kid => m = n
  BY DEF KidsAreUnique
<1> HIDE DEF rows
<1>3. \A k, l \in keys: k.kid = l.kid => k = l
  BY <1>2 DEF BuildJwks, OwnKey, RowKey
<1>4. ASSUME answered, NEW t \in tokens, KidStands(i, t)
      PROVE  \E k \in keys: k.kid = t.kid /\ k.key = t.key
  <2>1. CASE t.kid = config[i].kid
    <3>1. OwnKey(config[i]) \in keys
      BY DEF BuildJwks
    <3>2. QED
      BY <1>4, <2>1, <3>1 DEF OwnKey, KidStands
  <2>2. CASE t.kid # config[i].kid
    <3>1. PICK n \in 1..Len(table): table[n].kid = t.kid
      BY <2>2 DEF KeyInv, KidsAreKnown, KidInTable
    <3>2. table[n].key = t.key
      BY <1>4, <3>1 DEF KidStands
    <3>3. RowKey(rows, n) \in keys /\ rows = table
      BY <1>4, <2>2, <3>1 DEF BuildJwks, rows
    <3>4. QED
      BY <3>1, <3>2, <3>3 DEF RowKey
  <2>3. QED
    BY <2>1, <2>2
<1>5. document'.keys = keys /\ document'.whole = answered /\ document'.owed = owed
  BY <1>1 DEF rows
<1> HIDE DEF keys
<1>6. ASSUME answered, NEW o \in owed PROVE \E k \in keys: o = [kid |-> k.kid, key |-> k.key]
  <2>1. PICK t \in tokens: KidStands(i, t) /\ o = [kid |-> t.kid, key |-> t.key]
    OBVIOUS
  <2>2. PICK k \in keys: k.kid = t.kid /\ k.key = t.key
    BY <1>4, <1>6, <2>1
  <2>3. QED
    BY <2>1, <2>2
<1> HIDE DEF owed
<1>7. document'.whole => document'.owed \subseteq Keys(document')
  BY <1>5, <1>6 DEF Keys
<1>8. QED
  BY <1>3, <1>5, <1>7 DEF DocumentInv, Keys

LEMMA KeySetStep == KeySetInv /\ [Next]_vars => KeySetInv'
<1> SUFFICES ASSUME KeySetInv, [Next]_vars PROVE KeySetInv'
  OBVIOUS
<1> USE DEF KeySetInv
<1>1. KeyInv'
  BY KeyStep
<1>2. KidsAreUnique'
  <2>1. CASE table' = table
    BY <2>1 DEF KidsAreUnique
  <2>2. ASSUME NEW c \in Config, Publish(c) PROVE KidsAreUnique'
    BY <2>2, PublishedRows DEF KeyInv
  <2>3. ASSUME NEW n \in 1..Len(table), Retire(n) PROVE KidsAreUnique'
    BY <2>3, RetiredRows DEF KeyInv
  <2>4. QED
    BY <2>1, <2>2, <2>3 DEF Next, Deploy, Issue, Activate, HandleJwks,
                            HandleChallenge, Submit, Drop, vars
<1>3. DocumentInv'
  <2>1. CASE document' = document
    BY <2>1 DEF DocumentInv, Keys
  <2>2. ASSUME NEW i \in Instance, HandleJwks(i) PROVE DocumentInv'
    BY <2>2, KeySetIsRight
  <2>3. QED
    BY <2>1, <2>2 DEF Next, Publish, Retire, Deploy, Issue, Activate,
                      HandleChallenge, Submit, Drop, vars
<1>4. QED
  BY <1>1, <1>2, <1>3

\* A key set that was built from the table has the key of every token that was
\* issued before it, by whichever instance and with whatever key, retired or not,
\* but for kids that were given to another key (build_jwks, list_signing_keys).
THEOREM KeySetsVerifyEveryToken == Spec => []WholeKeySetsVerifyAll
<1>1. Init => KeySetInv
  BY KeyInit DEF Init, KeySetInv, KidsAreUnique, DocumentInv
<1>2. KeySetInv => WholeKeySetsVerifyAll
  BY DEF KeySetInv, DocumentInv, WholeKeySetsVerifyAll
<1>3. QED
  BY <1>1, <1>2, KeySetStep, PTL DEF Spec

-----------------------------------------------------------------------------
-----------------------------------------------------------------------------
Blocks(q) ==
    [k \in 1..Len(Pushed(q.action)) |->
        Written(Pushed(q.action)[k], q.fields[Pushed(q.action)[k]])]

Readable(blocks) == BlocksWith(blocks, "unknown") = {}

\* What the handler of a challenge makes of the fields it found.
Complete(action, fields) == \A f \in Required(action): fields[f] # None

\* The fields of an action's message.
Carried(action) == Required(action) \cup {"service_id"}

\* No text of the question brings more than one line, or ends in a return.
OneLined(q) ==
    \A f \in Carried(q.action):
        q.fields[f] # None => q.fields[f] = OneLine(q.fields[f].first)

\* The challenge a client holds is the message of some question, and what a
\* handler took from it is what its lines say.
ChallengeInv ==
    /\ challenge # None => challenge.asked \in Questions
                           /\ challenge.blocks = Blocks(challenge.asked)
    /\ taken # None =>
         /\ challenge # None
         /\ taken.fields = TakeFields(challenge.blocks)
         /\ taken.answer = "Unauthorized" <=>
              ~(taken.sameSecret /\ Readable(challenge.blocks))
         /\ taken.sameSecret /\ Readable(challenge.blocks) =>
              (taken.answer = "ok" <=> Complete(challenge.asked.action, taken.fields))

\* A field has at most one place in the message of an action, and one if and only
\* if the handler requires it or it is the service.
LEMMA PushedOnce ==
    ASSUME NEW action \in Actions
    PROVE  /\ Len(Pushed(action)) \in Nat
           /\ \A k \in 1..Len(Pushed(action)): Pushed(action)[k] \in Carried(action)
           /\ \A f \in Carried(action): \E k \in 1..Len(Pushed(action)): Pushed(action)[k] = f
           /\ \A k, l \in 1..Len(Pushed(action)):
                Pushed(action)[k] = Pushed(action)[l] => k = l
           /\ Carried(action) \subseteq Field
<1> DEFINE p == Pushed(action)
<1> HIDE DEF p
<1>1. CASE action = "register"
  <2>1. p = <<"service_id", "service_url", "resources_allowlist_json",
              "pack_bundles_json">>
    BY <1>1 DEF p, Pushed
  <2>2. QED
    BY <1>1, <2>1 DEF p, Carried, Required, Field
<1>2. CASE action = "update"
  <2>1. p = <<"service_id", "resources_allowlist_json", "pack_bundles_json">>
    BY <1>2 DEF p, Pushed
  <2>2. QED
    BY <1>2, <2>1 DEF p, Carried, Required, Field
<1>3. CASE action = "issue"
  <2>1. p = <<"service_id", "payer", "pack_id", "total_uses", "validity_seconds",
              "resources_json">>
    BY <1>3 DEF p, Pushed
  <2>2. QED
    BY <1>3, <2>1 DEF p, Carried, Required, Field
<1>4. CASE action \in {"revoke", "session"}
  <2>1. p = <<"service_id", "jti">>
    BY <1>4 DEF p, Pushed
  <2>2. QED
    BY <1>4, <2>1 DEF p, Carried, Required, Field
<1>5. CASE action \in {"retire", "list"}
  <2>1. p = <<"service_id">>
    BY <1>5 DEF p, Pushed
  <2>2. QED
    BY <1>5, <2>1 DEF p, Carried, Required, Field
<1>6. QED
  BY <1>1, <1>2, <1>3, <1>4, <1>5 DEF Actions

\* A text of one line makes one line, which begins with its field.
LEMMA OneLineIsWritten ==
    ASSUME NEW f, NEW g, NEW text \in Text, text # None, text = OneLine(text.first)
    PROVE  /\ LinesOf(Written(g, text), f) = IF f = g THEN {1} ELSE {}
           /\ Written(g, text)[1].word = text.first
<1>1. Written(g, text) = <<[begins |-> g, word |-> text.first]>>
  <2>1. text.more = <<>>
    BY DEF OneLine
  <2>2. QED
    BY <2>1 DEF Written
<1>2. QED
  BY <1>1 DEF LinesOf

LEMMA MaxOfOne == ASSUME NEW n \in Nat PROVE Max({n}) = n
BY DEF Max

\* Of texts of one line each, what is read is what was written.
LEMMA LinesAreTaken ==
    ASSUME NEW q \in Questions, OneLined(q)
    PROVE  /\ Readable(Blocks(q))
           /\ \A f \in Field:
                TakeFields(Blocks(q))[f] = IF f \in Carried(q.action) THEN q.fields[f] ELSE None
<1> DEFINE p == Pushed(q.action)
           blocks == Blocks(q)
<1>1. q.action \in Actions /\ q.fields \in [Field -> Text \cup {None}]
  BY QuestionAssumption
<1>2. /\ Len(p) \in Nat
      /\ \A k \in 1..Len(p): p[k] \in Carried(q.action)
      /\ \A f \in Carried(q.action): \E k \in 1..Len(p): p[k] = f
      /\ \A k, l \in 1..Len(p): p[k] = p[l] => k = l
      /\ Carried(q.action) \subseteq Field
  BY <1>1, PushedOnce
<1>3. /\ DOMAIN blocks = 1..Len(p)
      /\ \A k \in 1..Len(p): blocks[k] = Written(p[k], q.fields[p[k]])
  BY DEF Blocks
<1> HIDE DEF p, blocks
<1>4. ASSUME NEW f, NEW k \in 1..Len(p)
      PROVE  /\ LinesOf(blocks[k], f) =
                  IF f = p[k] /\ q.fields[p[k]] # None THEN {1} ELSE {}
             /\ q.fields[p[k]] # None => blocks[k][1].word = q.fields[p[k]].first
  <2>1. CASE q.fields[p[k]] = None
    <3>1. blocks[k] = <<>>
      BY <1>3, <2>1 DEF Written
    <3>2. QED
      BY <2>1, <3>1 DEF LinesOf
  <2>2. CASE q.fields[p[k]] # None
    <3>1. p[k] \in Carried(q.action) /\ q.fields[p[k]] \in Text
      BY <1>1, <1>2, <2>2
    <3>2. q.fields[p[k]] = OneLine(q.fields[p[k]].first)
      BY <2>2, <3>1 DEF OneLined
    <3> DEFINE text == q.fields[p[k]]
    <3>3. /\ LinesOf(Written(p[k], text), f) = IF f = p[k] THEN {1} ELSE {}
          /\ Written(p[k], text)[1].word = text.first
      <4> HIDE DEF text
      <4>1. text \in Text /\ text # None /\ text = OneLine(text.first)
        BY <2>2, <3>1, <3>2 DEF text
      <4>2. QED
        BY <4>1, OneLineIsWritten
    <3>4. blocks[k] = Written(p[k], text)
      BY <1>3
    <3>5. QED
      BY <2>2, <3>3, <3>4
  <2>3. QED
    BY <2>1, <2>2
<1>5. ASSUME NEW f
      PROVE  BlocksWith(blocks, f) = {k \in 1..Len(p): f = p[k] /\ q.fields[f] # None}
  <2>1. ASSUME NEW k \in 1..Len(p)
        PROVE  LinesOf(blocks[k], f) # {} <=> f = p[k] /\ q.fields[f] # None
    BY <1>4
  <2>2. BlocksWith(blocks, f) = {k \in 1..Len(p): LinesOf(blocks[k], f) # {}}
    BY <1>3 DEF BlocksWith
  <2>3. QED
    BY <2>1, <2>2
<1>6. Readable(blocks)
  <2>1. "unknown" \notin Field
    BY DEF Field
  <2>2. QED
    BY <1>2, <1>5, <2>1 DEF Readable
<1>7. ASSUME NEW f \in Field
      PROVE  TakeFields(blocks)[f] = IF f \in Carried(q.action) THEN q.fields[f] ELSE None
  <2> DEFINE with == BlocksWith(blocks, f)
  <2>1. TakeFields(blocks)[f] =
          IF with = {} THEN None
          ELSE OneLine(blocks[Max(with)][Max(LinesOf(blocks[Max(with)], f))].word)
    BY DEF TakeFields
  <2>2. with = {k \in 1..Len(p): f = p[k] /\ q.fields[f] # None}
    BY <1>5
  <2> HIDE DEF with
  <2>3. CASE f \in Carried(q.action) /\ q.fields[f] # None
    <3>1. PICK k \in 1..Len(p): p[k] = f
      BY <1>2, <2>3
    <3>2. with = {k}
      BY <1>2, <2>2, <2>3, <3>1
    <3>3. Max(with) = k
      BY <1>2, <3>2, MaxOfOne
    <3>4. LinesOf(blocks[k], f) = {1}
      BY <1>4, <2>3, <3>1
    <3>5. Max(LinesOf(blocks[k], f)) = 1
      BY <3>4, MaxOfOne
    <3>6. blocks[k][1].word = q.fields[f].first
      BY <1>4, <2>3, <3>1
    <3>7. TakeFields(blocks)[f] = OneLine(q.fields[f].first)
      BY <2>1, <3>2, <3>3, <3>5, <3>6
    <3>8. QED
      BY <2>3, <3>7 DEF OneLined
  <2>4. CASE ~(f \in Carried(q.action) /\ q.fields[f] # None)
    <3>1. with = {}
      BY <1>2, <2>2, <2>4
    <3>2. QED
      BY <2>1, <2>4, <3>1
  <2>5. QED
    BY <2>3, <2>4
<1>8. QED
  BY <1>6, <1>7 DEF blocks

LEMMA ChallengeStep == ChallengeInv /\ [Next]_vars => ChallengeInv'
<1> SUFFICES ASSUME ChallengeInv, [Next]_vars PROVE ChallengeInv'
  OBVIOUS
<1>1. CASE UNCHANGED <<challenge, taken>>
  BY <1>1 DEF ChallengeInv
<1>2. CASE Drop
  BY <1>2 DEF Drop, ChallengeInv
<1>3. ASSUME NEW i \in Instance, HandleChallenge(i) PROVE ChallengeInv'
  <2>1. PICK q \in Questions: challenge' = BuildChallengeMessage(i, q)
    BY <1>3 DEF HandleChallenge
  <2>2. challenge'.asked = q /\ challenge'.blocks = Blocks(q)
    BY <2>1 DEF BuildChallengeMessage, Blocks
  <2>3. taken' = None
    BY <1>3 DEF HandleChallenge, ChallengeInv
  <2>4. QED
    BY <2>2, <2>3 DEF ChallengeInv
<1>4. ASSUME NEW i \in Instance, Submit(i) PROVE ChallengeInv'
  <2> DEFINE fields == TakeFields(challenge.blocks)
             same == challenge.hmac = config[i].hmac
             readable == Readable(challenge.blocks)
             found == Complete(challenge.asked.action, fields)
  <2>1. /\ challenge # None /\ challenge' = challenge
        /\ taken' = [fields |-> fields, sameSecret |-> same,
                     answer |-> CASE ~(same /\ readable) -> "Unauthorized"
                                  [] same /\ readable /\ ~found -> "Refused"
                                  [] OTHER -> "ok"]
    BY <1>4 DEF Submit, Readable, Complete
  <2> HIDE DEF fields, same, readable, found
  <2>2. /\ taken'.fields = fields /\ taken'.sameSecret = same
        /\ taken'.answer = "Unauthorized" <=> ~(same /\ readable)
        /\ same /\ readable => (taken'.answer = "ok" <=> found)
    BY <2>1
  <2>3. QED
    BY <2>1, <2>2 DEF ChallengeInv, fields, same, readable, found
<1>5. QED
  BY <1>1, <1>2, <1>3, <1>4
     DEF Next, Publish, Retire, Deploy, Issue, Activate, HandleJwks, vars

\* A client that asks for a challenge with texts of one line each is given a
\* message in which the handler of its action finds what was asked, all of it and
\* nothing else; an instance of the same secret reads it, and the handler goes on
\* if and only if nothing that it needs was left out (push_fields, take!,
\* required_field).
THEOREM RequestsAreCarried == Spec => []ChallengeCarriesRequest
<1>1. Init => ChallengeInv
  BY DEF Init, ChallengeInv
<1>2. ChallengeInv => ChallengeCarriesRequest
  <2> SUFFICES ASSUME ChallengeInv, taken # None, OneLined(challenge.asked)
               PROVE  LET asked == challenge.asked
                          carried == Required(asked.action) \cup {"service_id"}
                          complete == \A f \in Required(asked.action): asked.fields[f] # None
                      IN /\ taken.answer = "Unauthorized" <=> ~taken.sameSecret
                         /\ taken.sameSecret => (taken.answer = "ok" <=> complete)
                         /\ \A f \in Field: taken.fields[f] =
                              IF f \in carried THEN asked.fields[f] ELSE None
    BY DEF ChallengeCarriesRequest, OneLined, Carried
  <2> DEFINE asked == challenge.asked
  <2>1. /\ asked \in Questions
        /\ challenge.blocks = Blocks(asked) /\ taken.fields = TakeFields(Blocks(asked))
    BY DEF ChallengeInv
  <2>2. Readable(challenge.blocks)
    BY <2>1, LinesAreTaken
  <2>3. \A f \in Field: taken.fields[f] =
          IF f \in Carried(asked.action) THEN asked.fields[f] ELSE None
    BY <2>1, LinesAreTaken
  <2>4. Carried(asked.action) \subseteq Field
    BY <2>1, QuestionAssumption, PushedOnce
  <2>5. Complete(asked.action, taken.fields) <=>
          \A f \in Required(asked.action): asked.fields[f] # None
    BY <2>3, <2>4 DEF Complete, Carried
  <2>6. /\ taken.answer = "Unauthorized" <=> ~taken.sameSecret
        /\ taken.sameSecret => (taken.answer = "ok" <=> Complete(asked.action, taken.fields))
    BY <2>2 DEF ChallengeInv
  <2>7. QED
    BY <2>3, <2>5, <2>6 DEF Carried
<1>3. QED
  BY <1>1, <1>2, ChallengeStep, PTL DEF Spec

-----------------------------------------------------------------------------
AnswersAreKnown ==
    /\ verdict # None => verdict.answer \in {"ok", "Unauthorized", "Internal"}
    /\ taken # None => taken.answer \in {"ok", "Unauthorized", "Refused"}

\* The types, for every instance, configuration and question; and a key set never
\* has two keys for a kid, whatever the table lists beside the instance's own
\* (build_jwks).
THEOREM TypesAreRight == Spec => []TypeOK
<1>1. Init => AnswersAreKnown
  BY DEF Init, AnswersAreKnown
<1>2. AnswersAreKnown /\ [Next]_vars => AnswersAreKnown'
  <2> SUFFICES ASSUME AnswersAreKnown, [Next]_vars PROVE AnswersAreKnown'
    OBVIOUS
  <2>1. ASSUME NEW i \in Instance, Activate(i) PROVE AnswersAreKnown'
    <3>1. verdict'.answer \in {"ok", "Unauthorized", "Internal"}
      BY <2>1 DEF Activate, VerifyPackToken
    <3>2. QED
      BY <2>1, <3>1 DEF Activate, AnswersAreKnown
  <2>2. ASSUME NEW i \in Instance, Submit(i) PROVE AnswersAreKnown'
    <3>1. taken'.answer \in {"ok", "Unauthorized", "Refused"}
      BY <2>2 DEF Submit
    <3>2. QED
      BY <2>2, <3>1 DEF Submit, AnswersAreKnown
  <2>3. CASE UNCHANGED verdict /\ (taken' = None \/ UNCHANGED taken)
    BY <2>3 DEF AnswersAreKnown
  <2>4. QED
    BY <2>1, <2>2, <2>3 DEF Next, Publish, Retire, Deploy, Issue, HandleJwks,
                            HandleChallenge, Drop, vars
<1>3. Init => KeySetInv
  BY KeyInit DEF Init, KeySetInv, KidsAreUnique, DocumentInv
<1>4. KeySetInv /\ AnswersAreKnown => TypeOK
  <2> SUFFICES ASSUME KeySetInv, AnswersAreKnown PROVE TypeOK
    OBVIOUS
  <2>1. \A n \in 1..Len(table): table[n].kid \in Kid /\ table[n].key \in Key
    <3>1. \A n \in 1..Len(table): table[n] \in Row
      BY DEF KeySetInv, KeyInv, Types
    <3>2. QED
      BY <3>1 DEF Row
  <2>2. QED
    BY <2>1 DEF KeySetInv, KeyInv, Types, DocumentInv, AnswersAreKnown, TypeOK
<1>5. QED
  BY <1>1, <1>2, <1>3, <1>4, KeySetStep, PTL DEF Spec
=============================================================================
