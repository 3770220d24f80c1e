----------------------- MODULE ServiceRegistryProofs ------------------------
(***************************************************************************)
(* Proofs about ServiceRegistry, for any merchants, services, catalogs,     *)
(* challenges and number of concurrent requests.                            *)
(***************************************************************************)
EXTENDS ServiceRegistry, TLAPS

\* The types of all variables.
Types ==
    /\ services \in [Service -> Row \cup {None}]
    /\ packs \subseteq Pack
    /\ nonces \subseteq Challenge
    /\ pc \in [Req -> Labels]
    /\ job \in [Req -> Jobs \cup {None}]
    /\ seen \in [Req -> Row \cup {None}]
    /\ reply \in [Req -> Replies \cup {None}]
    /\ inForce \in [Req -> SUBSET (Row \cup {None})]

\* inForce tells which requests burned their challenge.
Burned(r) == inForce[r] # {}

HasJob == \A r \in Req: pc[r] # "idle" => job[r] \in Jobs

\* Who has burned a challenge is past it, and its row is gone.
BurnedIsGone ==
    \A r \in Req: Burned(r) =>
        /\ pc[r] \notin {"idle", "consumeNonce"}
        /\ Signed(r) \notin nonces

\* A challenge is burned by one request.
BurnedOnce ==
    \A q, r \in Req: Burned(q) /\ Burned(r) /\ Signed(q) = Signed(r) => q = r

\* Who is past the challenge has burned it, for the operation and the body it
\* signs.
Admitted ==
    \A r \in Req: pc[r] \in {"getService", "write", "answer"} =>
        /\ Burned(r)
        /\ Signed(r).action = job[r].op
        /\ BodyIsBound(r)

\* The row in the table is one of those in force.
Tracked == \A r \in Req: Burned(r) => services[Sid(r)] \in inForce[r]

\* What handle_issue finds before it inserts.
Sellable(order, seller, row) ==
    /\ row # None /\ row.active /\ row.merchant = seller
    /\ InAllowlist(order.resources, row.allow)
    /\ InCatalog(order, row.bundles)

Checked ==
    \A r \in Req: At(r, "issue", "write") =>
        /\ seen[r] \in inForce[r]
        /\ Sellable(Signed(r).bound, Signed(r).wallet, seen[r])
        /\ InRange(Signed(r).bound)

PacksSold ==
    \A p \in packs:
        /\ pc[p.jti] \in {"answer", "done"} /\ Burned(p.jti)
        /\ p.terms = Signed(p.jti).bound
        /\ InRange(p.terms)
        /\ \E v \in inForce[p.jti]: Sellable(p.terms, Signed(p.jti).wallet, v)

\* The challenges that made s what it is, if its merchant is m.
BurnedFor(s, m) ==
    {c \in Challenge \ nonces:
        c.action \in {"register", "update"} /\ c.bound.service = s /\ c.wallet = m}
Before(s) == {q[s]: q \in Registered} \ {None}
SignedFor(s, row) ==
    LET texts == {c.bound: c \in BurnedFor(s, row.merchant)} \cup Before(s) IN
    /\ \E b \in texts: b.allow = row.allow
    /\ \E b \in texts: b.bundles = row.bundles

AllSigned == \A s \in Service: services[s] # None => SignedFor(s, services[s])

RegistryInv ==
    /\ Types /\ HasJob /\ BurnedIsGone /\ BurnedOnce /\ Admitted
    /\ Tracked /\ Checked /\ PacksSold
    /\ IndexMatchesCatalog /\ AllSigned

-----------------------------------------------------------------------------
\* A challenge has a service.
LEMMA SidIsService ==
    ASSUME NEW j \in Jobs
    PROVE  j.challenge \in Challenge /\ j.challenge.bound.service \in Service
<1>1. j.challenge \in Challenge
  BY JobAssumption
<1>2. j.challenge.bound \in Bound
  BY <1>1, SignedAssumption
<1>3. QED
  BY <1>1, <1>2 DEF Bound, Body, Order

LEMMA RegistryInit == Init => RegistryInv
<1> SUFFICES ASSUME Init PROVE RegistryInv
  OBVIOUS
<1>1. services \in [Service -> Row \cup {None}]
  BY RegisteredAssumption DEF Init
<1>2. Types
  BY <1>1 DEF Init, Types, Labels
<1>3. IndexMatchesCatalog
  BY RegisteredAssumption DEF Init, IndexMatchesCatalog
<1>4. AllSigned
  BY DEF Init, AllSigned, SignedFor, Before
<1>5. QED
  BY <1>2, <1>3, <1>4 DEF Init, RegistryInv, HasJob, BurnedIsGone, BurnedOnce, Burned,
     Admitted, Tracked, Checked, At, PacksSold

\* A request is answered, and nothing else happens.
LEMMA AnswerStep ==
    ASSUME RegistryInv, NEW r \in Req, NEW answer \in Replies, Answer(r, answer),
           pc[r] # "idle",
           UNCHANGED <<services, packs, nonces, job, seen, inForce>>
    PROVE  RegistryInv'
<1>1. /\ pc' = [pc EXCEPT ![r] = "done"]
      /\ reply' = [reply EXCEPT ![r] = answer]
  BY DEF Answer, Goto
<1>2. \A q \in Req: pc'[q] = pc[q] \/ (q = r /\ pc'[q] = "done")
  BY <1>1 DEF RegistryInv, Types
<1>3. Types'
  BY <1>1 DEF RegistryInv, Types, Labels
<1>4. /\ HasJob' /\ BurnedIsGone' /\ BurnedOnce' /\ Admitted' /\ Tracked' /\ Checked'
  BY <1>2 DEF RegistryInv, HasJob, BurnedIsGone, BurnedOnce, Burned, Admitted, Tracked,
     Checked, At, Signed, Sid, BodyIsBound, Sellable, InRange
<1>5. PacksSold'
  <2>1. \A p \in packs: p.jti \in Req
    BY DEF RegistryInv, Types, Pack
  <2>2. QED
    BY <1>2, <2>1 DEF RegistryInv, PacksSold, Burned, Signed
<1>6. IndexMatchesCatalog' /\ AllSigned'
  BY DEF RegistryInv, IndexMatchesCatalog, AllSigned, SignedFor, BurnedFor
<1>7. QED
  BY <1>3, <1>4, <1>5, <1>6 DEF RegistryInv

LEMMA StartStep ==
    ASSUME RegistryInv, NEW r \in Req, Start(r)
    PROVE  RegistryInv'
<1>1. PICK j \in Jobs:
        /\ job' = [job EXCEPT ![r] = j]
        /\ \/ Answer(r, "BadRequest")
           \/ Goto(r, "consumeNonce") /\ UNCHANGED reply
  BY DEF Start
<1>2. pc[r] = "idle" /\ UNCHANGED <<services, packs, nonces, seen, inForce>>
  BY DEF Start
<1>3. PICK label \in {"done", "consumeNonce"}: pc' = [pc EXCEPT ![r] = label]
  BY <1>1 DEF Answer, Goto
<1>4. reply' \in [Req -> Replies \cup {None}]
  BY <1>1 DEF Answer, RegistryInv, Types, Replies
<1>5. ~Burned(r)
  BY <1>2 DEF RegistryInv, BurnedIsGone
<1>6. \A q \in Req:
        /\ q # r => pc'[q] = pc[q] /\ job'[q] = job[q]
        /\ q = r => pc'[q] \in {"done", "consumeNonce"} /\ job'[q] \in Jobs
  BY <1>1, <1>3 DEF RegistryInv, Types
<1>7. Types'
  BY <1>1, <1>2, <1>3, <1>4 DEF RegistryInv, Types, Labels
<1>8. HasJob'
  BY <1>6 DEF RegistryInv, HasJob
<1>9. BurnedIsGone' /\ BurnedOnce' /\ Tracked'
  BY <1>2, <1>5, <1>6 DEF RegistryInv, BurnedIsGone, BurnedOnce, Tracked, Burned,
     Signed, Sid
<1>10. Admitted' /\ Checked'
  BY <1>2, <1>5, <1>6 DEF RegistryInv, Admitted, Checked, At, Burned, Signed, BodyIsBound
<1>11. PacksSold'
  <2>1. \A p \in packs: p.jti \in Req /\ p.jti # r
    BY <1>5 DEF RegistryInv, Types, Pack, PacksSold
  <2>2. QED
    BY <1>2, <1>6, <2>1 DEF RegistryInv, PacksSold, Burned, Signed
<1>12. IndexMatchesCatalog' /\ AllSigned'
  BY <1>2 DEF RegistryInv, IndexMatchesCatalog, AllSigned, SignedFor, BurnedFor
<1>13. QED
  BY <1>7, <1>8, <1>9, <1>10, <1>11, <1>12 DEF RegistryInv

\* More burned challenges sign as much.
LEMMA MoreIsSigned ==
    ASSUME nonces' \subseteq nonces, UNCHANGED services, AllSigned
    PROVE  AllSigned'
<1>1. \A s, m: BurnedFor(s, m) \subseteq BurnedFor(s, m)'
  BY DEF BurnedFor
<1>2. \A s \in Service: services[s] # None => SignedFor(s, services[s])'
  BY <1>1 DEF AllSigned, SignedFor
<1>3. QED
  BY <1>2 DEF AllSigned

LEMMA ConsumeNonceStep ==
    ASSUME RegistryInv, NEW r \in Req, ConsumeNonce(r)
    PROVE  RegistryInv'
<1>1. CASE /\ Answer(r, "Unauthorized")
           /\ UNCHANGED <<services, packs, nonces, job, seen, inForce>>
           /\ pc[r] = "consumeNonce"
  BY <1>1, AnswerStep DEF Replies
<1>2. ASSUME /\ pc[r] = "consumeNonce"
             /\ Accepts(r)
             /\ nonces' = nonces \ {Signed(r)}
             /\ inForce' = [inForce EXCEPT ![r] = {services[Sid(r)]}]
             /\ IF BodyIsBound(r)
                THEN /\ Goto(r, IF job[r].op = "retire" THEN "write" ELSE "getService")
                     /\ UNCHANGED reply
                ELSE Answer(r, "Unauthorized")
             /\ UNCHANGED <<services, packs, job, seen>>
      PROVE  RegistryInv'
  <2>1. PICK label \in {"done", "write", "getService"}:
          /\ pc' = [pc EXCEPT ![r] = label]
          /\ label = "done" \/ BodyIsBound(r)
          /\ label = "write" => job[r].op # "issue"
    BY <1>2 DEF Goto, Answer
  <2>2. job[r] \in Jobs /\ Signed(r) \in Challenge /\ Sid(r) \in Service
    BY <1>2, SidIsService DEF RegistryInv, HasJob, Signed, Sid
  <2>3. ~Burned(r)
    BY <1>2 DEF RegistryInv, BurnedIsGone
  <2>4. /\ \A q \in Req: q # r => pc'[q] = pc[q] /\ inForce'[q] = inForce[q]
        /\ pc'[r] = label /\ inForce'[r] = {services[Sid(r)]}
    BY <1>2, <2>1 DEF RegistryInv, Types
  <2>5. Signed(r) \in nonces /\ Signed(r).action = job[r].op
    BY <1>2 DEF Accepts
  <2>6. Types'
    <3>1. reply' \in [Req -> Replies \cup {None}]
      BY <1>2 DEF Answer, RegistryInv, Types, Replies
    <3>2. services[Sid(r)] \in Row \cup {None}
      BY <2>2 DEF RegistryInv, Types
    <3>3. inForce' \in [Req -> SUBSET (Row \cup {None})]
      BY <1>2, <3>2 DEF RegistryInv, Types
    <3>4. QED
      BY <1>2, <2>1, <3>1, <3>3 DEF RegistryInv, Types, Labels
  <2>7. HasJob'
    BY <1>2, <2>2, <2>4 DEF RegistryInv, HasJob
  <2>8. BurnedIsGone'
    BY <1>2, <2>1, <2>4 DEF RegistryInv, BurnedIsGone, Burned, Signed
  <2>9. BurnedOnce'
    BY <1>2, <2>4, <2>5 DEF RegistryInv, BurnedOnce, BurnedIsGone, Burned, Signed
  <2>10. Admitted'
    BY <1>2, <2>1, <2>4, <2>5 DEF RegistryInv, Admitted, Burned, Signed, BodyIsBound
  <2>11. Tracked'
    BY <1>2, <2>4 DEF RegistryInv, Tracked, Burned, Sid, Signed
  <2>12. Checked'
    BY <1>2, <2>1, <2>4 DEF RegistryInv, Checked, At, Signed
  <2>13. PacksSold'
    <3>1. \A p \in packs: p.jti \in Req /\ p.jti # r
      BY <2>3 DEF RegistryInv, Types, Pack, PacksSold
    <3>2. QED
      BY <1>2, <2>4, <3>1 DEF RegistryInv, PacksSold, Burned, Signed
  <2>14. IndexMatchesCatalog'
    BY <1>2 DEF RegistryInv, IndexMatchesCatalog
  <2>15. AllSigned'
    BY <1>2, MoreIsSigned DEF RegistryInv
  <2>16. QED
    BY <2>6, <2>7, <2>8, <2>9, <2>10, <2>11, <2>12, <2>13, <2>14, <2>15 DEF RegistryInv
<1>3. QED
  BY <1>1, <1>2 DEF ConsumeNonce

LEMMA GetServiceStep ==
    ASSUME RegistryInv, NEW r \in Req, GetService(r)
    PROVE  RegistryInv'
<1>1. /\ pc[r] = "getService"
      /\ seen' = [seen EXCEPT ![r] = Lookup(r)]
      /\ UNCHANGED <<services, packs, nonces, job, inForce>>
  BY DEF GetService
<1>2. job[r] \in Jobs /\ Signed(r) \in Challenge /\ Sid(r) \in Service
  BY <1>1, SidIsService DEF RegistryInv, HasJob, Signed, Sid
<1>3. Burned(r) /\ Lookup(r) \in inForce[r] /\ Lookup(r) \in Row \cup {None}
  BY <1>1, <1>2 DEF RegistryInv, Admitted, Tracked, Lookup, Types
<1>4. PICK label \in {"write", "done"}:
        /\ pc' = [pc EXCEPT ![r] = label]
        /\ label = "write" => Refusal(r, Lookup(r)) = None
        /\ reply' \in [Req -> Replies \cup {None}]
  <2>1. Refusal(r, Lookup(r)) \in Replies \cup {None}
    BY DEF Refusal, Replies
  <2>2. CASE Refusal(r, Lookup(r)) # None
    BY <2>1, <2>2 DEF GetService, Answer, Goto, RegistryInv, Types
  <2>3. CASE Refusal(r, Lookup(r)) = None
    BY <2>3 DEF GetService, Goto, RegistryInv, Types
  <2>4. QED
    BY <2>2, <2>3
<1>5. /\ \A q \in Req: q # r => pc'[q] = pc[q] /\ seen'[q] = seen[q]
      /\ pc'[r] = label /\ seen'[r] = Lookup(r)
  BY <1>1, <1>4 DEF RegistryInv, Types
<1>6. Types'
  BY <1>1, <1>3, <1>4 DEF RegistryInv, Types, Labels
<1>7. HasJob' /\ BurnedIsGone' /\ BurnedOnce' /\ Admitted' /\ Tracked'
  BY <1>1, <1>4, <1>5 DEF RegistryInv, HasJob, BurnedIsGone, BurnedOnce, Admitted, Tracked,
     Burned, Signed, Sid, BodyIsBound
<1>8. Checked'
  <2>1. ASSUME job[r].op = "issue", label = "write"
        PROVE  /\ Sellable(Signed(r).bound, Signed(r).wallet, Lookup(r))
               /\ InRange(Signed(r).bound)
    <3>1. Refusal(r, Lookup(r)) = None
      BY <1>4, <2>1
    <3>2. /\ "Conflict" # None /\ "NotFound" # None /\ "Forbidden" # None
          /\ "Unauthorized" # None /\ "BadRequest" # None
      BY ReplyAssumption DEF Replies
    <3>3. QED
      BY <2>1, <3>1, <3>2 DEF Refusal, Sellable
  <2>2. QED
    BY <1>1, <1>3, <1>5, <2>1 DEF RegistryInv, Checked, At, Signed, Sellable, InRange
<1>9. PacksSold'
  <2>1. \A p \in packs: p.jti \in Req /\ p.jti # r
    BY <1>1 DEF RegistryInv, Types, Pack, PacksSold
  <2>2. QED
    BY <1>1, <1>5, <2>1 DEF RegistryInv, PacksSold, Burned, Signed
<1>10. IndexMatchesCatalog' /\ AllSigned'
  BY <1>1 DEF RegistryInv, IndexMatchesCatalog, AllSigned, SignedFor, BurnedFor
<1>11. QED
  BY <1>6, <1>7, <1>8, <1>9, <1>10 DEF RegistryInv

-----------------------------------------------------------------------------
\* The row of r's service becomes new.
LEMMA PutStep ==
    ASSUME RegistryInv, NEW r \in Req, NEW new \in Row,
           pc[r] = "write", job[r].op # "issue",
           new.index = Index[new.bundles],
           SignedFor(Sid(r), new),
           Put(Sid(r), new), Goto(r, "answer"),
           UNCHANGED <<packs, nonces, job, seen, reply>>
    PROVE  RegistryInv'
<1> DEFINE s == Sid(r)
<1>1. job[r] \in Jobs /\ s \in Service
  BY SidIsService DEF RegistryInv, HasJob, Signed, Sid
<1>2. /\ services' = [services EXCEPT ![s] = new]
      /\ inForce' = [q \in Req |->
           IF inForce[q] # {} /\ Sid(q) = s THEN inForce[q] \cup {new} ELSE inForce[q]]
  BY DEF Put
<1>3. /\ services'[s] = new
      /\ \A t \in Service: t # s => services'[t] = services[t]
  BY <1>1, <1>2 DEF RegistryInv, Types
<1>4. \A q \in Req:
        /\ inForce[q] \subseteq inForce'[q]
        /\ inForce'[q] # {} <=> inForce[q] # {}
        /\ inForce[q] # {} /\ Sid(q) = s => new \in inForce'[q]
  BY <1>2
<1>5. /\ pc' = [pc EXCEPT ![r] = "answer"]
      /\ \A q \in Req: q # r => pc'[q] = pc[q]
      /\ pc'[r] = "answer"
  BY DEF Goto, RegistryInv, Types
<1>6. Types'
  <2>1. services' \in [Service -> Row \cup {None}]
    BY <1>2 DEF RegistryInv, Types
  <2>2. inForce' \in [Req -> SUBSET (Row \cup {None})]
    BY <1>2 DEF RegistryInv, Types
  <2>3. QED
    BY <1>5, <2>1, <2>2 DEF RegistryInv, Types, Labels
<1>7. HasJob' /\ BurnedIsGone' /\ BurnedOnce' /\ Admitted'
  BY <1>4, <1>5 DEF RegistryInv, HasJob, BurnedIsGone, BurnedOnce, Admitted, Burned,
     Signed, BodyIsBound
<1>8. Tracked'
  <2>1. ASSUME NEW q \in Req, inForce[q] # {}
        PROVE  services'[Sid(q)] \in inForce'[q]
    <3>1. services[Sid(q)] \in inForce[q]
      BY <2>1 DEF RegistryInv, Tracked, Burned
    <3>2. Sid(q) \in Service
      BY <2>1, SidIsService DEF RegistryInv, BurnedIsGone, HasJob, Burned, Sid, Signed
    <3>3. QED
      BY <1>3, <1>4, <2>1, <3>1, <3>2
  <2>2. QED
    BY <1>4, <2>1 DEF Tracked, Burned, Sid, Signed
<1>9. Checked'
  BY <1>4, <1>5 DEF RegistryInv, Checked, At, Signed, Sellable, InRange
<1>10. PacksSold'
  <2>1. ASSUME NEW p \in packs
        PROVE  /\ pc'[p.jti] \in {"answer", "done"} /\ inForce'[p.jti] # {}
               /\ \E v \in inForce'[p.jti]: Sellable(p.terms, Signed(p.jti).wallet, v)
    <3>1. p.jti \in Req
      BY DEF RegistryInv, Types, Pack
    <3>2. QED
      BY <1>4, <1>5, <3>1 DEF RegistryInv, PacksSold, Burned
  <2>2. QED
    BY <2>1 DEF RegistryInv, PacksSold, Burned, Signed, Sellable, InRange
<1>11. IndexMatchesCatalog'
  BY <1>3 DEF RegistryInv, IndexMatchesCatalog
<1>12. AllSigned'
  <2>1. \A t \in Service: \A row: SignedFor(t, row) => SignedFor(t, row)'
    BY DEF SignedFor, BurnedFor, Before
  <2>2. QED
    BY <1>3, <2>1 DEF RegistryInv, AllSigned
<1>13. QED
  BY <1>6, <1>7, <1>8, <1>9, <1>10, <1>11, <1>12 DEF RegistryInv

\* Who writes a body has burned the challenge that signs it.
LEMMA WriterSigned ==
    ASSUME RegistryInv, NEW r \in Req, pc[r] = "write",
           job[r].op \in {"register", "update"}
    PROVE  /\ job[r].body \in Body /\ Sid(r) \in Service
           /\ Signed(r) \in BurnedFor(Sid(r), Signed(r).wallet)
           /\ Signed(r).bound = job[r].body
           /\ Signed(r).wallet \in Wallet
<1>1. job[r] \in Jobs /\ Signed(r) \in Challenge /\ Sid(r) \in Service
  BY SidIsService DEF RegistryInv, HasJob, Signed, Sid
<1>2. job[r].body \in Body
  BY <1>1, JobAssumption
<1>3. /\ Signed(r) \notin nonces /\ Signed(r).action = job[r].op
      /\ job[r].body = Signed(r).bound
  BY <1>1, <1>2, JobAssumption DEF RegistryInv, Admitted, BurnedIsGone, BodyIsBound
<1>4. QED
  BY <1>1, <1>2, <1>3, SignedAssumption DEF BurnedFor, Sid

LEMMA InsertServiceStep ==
    ASSUME RegistryInv, NEW r \in Req, InsertService(r)
    PROVE  RegistryInv'
<1>1. pc[r] = "write" /\ job[r].op = "register"
  BY DEF InsertService, At
<1>2. CASE services[Sid(r)] = None
  <2>1. /\ Put(Sid(r), NewRow(r)) /\ Goto(r, "answer")
        /\ UNCHANGED <<packs, nonces, job, seen, reply>>
    BY <1>2 DEF InsertService
  <2>2. NewRow(r) \in Row
    BY <1>1, WriterSigned DEF NewRow, Row, Body
  <2>3. SignedFor(Sid(r), NewRow(r))
    <3> DEFINE texts == {c.bound: c \in BurnedFor(Sid(r), Signed(r).wallet)}
                          \cup Before(Sid(r))
    <3>1. job[r].body \in texts
      BY <1>1, WriterSigned
    <3>2. /\ NewRow(r).merchant = Signed(r).wallet
          /\ NewRow(r).allow = job[r].body.allow
          /\ NewRow(r).bundles = job[r].body.bundles
      BY DEF NewRow
    <3>3. QED
      BY <3>1, <3>2 DEF SignedFor
  <2>4. NewRow(r).index = Index[NewRow(r).bundles]
    BY DEF NewRow
  <2>5. QED
    BY <1>1, <2>1, <2>2, <2>3, <2>4, PutStep
<1>3. CASE services[Sid(r)] # None
  BY <1>1, <1>3, AnswerStep DEF InsertService, Replies
<1>4. QED
  BY <1>2, <1>3

\* The row an UPDATE finds.
LEMMA FoundRow ==
    ASSUME RegistryInv, NEW r \in Req, pc[r] = "write", ActiveAndOwned(r)
    PROVE  /\ Sid(r) \in Service /\ services[Sid(r)] \in Row
           /\ services[Sid(r)].merchant = Signed(r).wallet
           /\ services[Sid(r)].index = Index[services[Sid(r)].bundles]
           /\ SignedFor(Sid(r), services[Sid(r)])
<1>1. Sid(r) \in Service
  BY SidIsService DEF RegistryInv, HasJob, Signed, Sid
<1>2. QED
  BY <1>1 DEF ActiveAndOwned, RegistryInv, Types, IndexMatchesCatalog, AllSigned

LEMMA UpdateServiceStep ==
    ASSUME RegistryInv, NEW r \in Req, UpdateService(r)
    PROVE  RegistryInv'
<1>1. pc[r] = "write" /\ job[r].op = "update"
  BY DEF UpdateService, At
<1>2. CASE ActiveAndOwned(r)
  <2> DEFINE old == services[Sid(r)]
             body == job[r].body
             new == Updated(old, body)
  <2>1. /\ Put(Sid(r), new) /\ Goto(r, "answer")
        /\ UNCHANGED <<packs, nonces, job, seen, reply>>
    BY <1>2 DEF UpdateService
  <2>2. /\ old \in Row /\ old.merchant = Signed(r).wallet
        /\ old.index = Index[old.bundles] /\ SignedFor(Sid(r), old)
    BY <1>1, <1>2, FoundRow
  <2>3. body \in Body
    BY <1>1, WriterSigned
  <2> HIDE DEF old, body
  <2>4. /\ new \in Row /\ new.merchant = old.merchant
        /\ new.allow = body.allow
        /\ new.bundles = IF body.bundles = None THEN old.bundles ELSE body.bundles
        /\ new.index = Index[new.bundles]
    BY <2>2, <2>3 DEF Updated, Row, Body
  <2>5. SignedFor(Sid(r), new)
    <3> DEFINE texts == {c.bound: c \in BurnedFor(Sid(r), Signed(r).wallet)}
                          \cup Before(Sid(r))
    <3>1. body \in texts
      BY <1>1, WriterSigned DEF body
    <3>2. \E b \in texts: b.bundles = old.bundles
      BY <2>2 DEF SignedFor
    <3>3. new.merchant = Signed(r).wallet
      BY <2>2, <2>4
    <3>4. QED
      BY <2>4, <3>1, <3>2, <3>3 DEF SignedFor
  <2>6. QED
    BY <1>1, <2>1, <2>4, <2>5, PutStep
<1>3. CASE ~ActiveAndOwned(r)
  BY <1>1, <1>3, AnswerStep DEF UpdateService, Replies
<1>4. QED
  BY <1>2, <1>3

LEMMA RetireServiceStep ==
    ASSUME RegistryInv, NEW r \in Req, RetireService(r)
    PROVE  RegistryInv'
<1>1. pc[r] = "write" /\ job[r].op = "retire"
  BY DEF RetireService, At
<1>2. CASE ActiveAndOwned(r)
  <2> DEFINE old == services[Sid(r)]
             new == [old EXCEPT !.active = FALSE]
  <2>1. /\ Put(Sid(r), new) /\ Goto(r, "answer")
        /\ UNCHANGED <<packs, nonces, job, seen, reply>>
    BY <1>2 DEF RetireService
  <2>2. /\ old \in Row
        /\ old.index = Index[old.bundles] /\ SignedFor(Sid(r), old)
    BY <1>1, <1>2, FoundRow
  <2> HIDE DEF old
  <2>3. /\ new \in Row /\ new.merchant = old.merchant /\ new.allow = old.allow
        /\ new.bundles = old.bundles /\ new.index = old.index
    BY <2>2 DEF Row
  <2> HIDE DEF new
  <2>4. SignedFor(Sid(r), new) /\ new.index = Index[new.bundles]
    BY <2>2, <2>3 DEF SignedFor
  <2>5. QED
    BY <1>1, <2>1, <2>3, <2>4, PutStep
<1>3. CASE ~ActiveAndOwned(r)
  BY <1>1, <1>3, AnswerStep DEF RetireService, Replies
<1>4. QED
  BY <1>2, <1>3

LEMMA InsertPackStep ==
    ASSUME RegistryInv, NEW r \in Req, InsertPack(r)
    PROVE  RegistryInv'
<1> DEFINE new == [jti |-> r, terms |-> Signed(r).bound]
<1>1. /\ pc[r] = "write" /\ job[r].op = "issue" /\ Goto(r, "answer")
      /\ packs' = packs \cup {new}
      /\ UNCHANGED <<services, nonces, job, seen, reply, inForce>>
  BY DEF InsertPack, At
<1>2. /\ Signed(r) \in Challenge /\ Signed(r).action = "issue" /\ Burned(r)
  BY <1>1, SidIsService DEF RegistryInv, HasJob, Admitted, Signed
<1>3. new \in Pack
  BY <1>2, SignedAssumption DEF Pack
<1>4. /\ InRange(new.terms)
      /\ \E v \in inForce[r]: Sellable(new.terms, Signed(r).wallet, v)
  BY <1>1 DEF RegistryInv, Checked, At
<1>5. /\ pc' = [pc EXCEPT ![r] = "answer"]
      /\ \A q \in Req: q # r => pc'[q] = pc[q]
      /\ pc'[r] = "answer"
  BY <1>1 DEF Goto, RegistryInv, Types
<1>6. Types'
  BY <1>1, <1>3, <1>5 DEF RegistryInv, Types, Labels
<1>7. /\ HasJob' /\ BurnedIsGone' /\ BurnedOnce' /\ Admitted' /\ Tracked' /\ Checked'
  BY <1>1, <1>5 DEF RegistryInv, HasJob, BurnedIsGone, BurnedOnce, Burned, Admitted, Tracked,
     Checked, At, Signed, Sid, BodyIsBound, Sellable, InRange
<1>8. PacksSold'
  <2>1. ASSUME NEW p \in packs'
        PROVE  /\ pc'[p.jti] \in {"answer", "done"} /\ Burned(p.jti)
               /\ p.terms = Signed(p.jti).bound /\ InRange(p.terms)
               /\ \E v \in inForce[p.jti]: Sellable(p.terms, Signed(p.jti).wallet, v)
    <3>1. CASE p \in packs
      <4>1. p.jti \in Req
        BY <3>1 DEF RegistryInv, Types, Pack
      <4>2. QED
        BY <1>5, <3>1, <4>1 DEF RegistryInv, PacksSold
    <3>2. CASE p = new
      BY <1>2, <1>4, <1>5, <3>2
    <3>3. QED
      BY <1>1, <3>1, <3>2
  <2>2. QED
    BY <1>1, <2>1 DEF PacksSold, Burned, Signed, Sellable, InRange
<1>9. IndexMatchesCatalog' /\ AllSigned'
  BY <1>1 DEF RegistryInv, IndexMatchesCatalog, AllSigned, SignedFor, BurnedFor
<1>10. QED
  BY <1>6, <1>7, <1>8, <1>9 DEF RegistryInv

LEMMA RegistryStep == RegistryInv /\ [Next]_vars => RegistryInv'
<1> SUFFICES ASSUME RegistryInv, [Next]_vars PROVE RegistryInv'
  OBVIOUS
<1>1. ASSUME NEW r \in Req, RejectOrder(r) \/ Respond(r) \/ GiveUp(r)
      PROVE  RegistryInv'
  <2>1. /\ \E answer \in Replies: Answer(r, answer)
        /\ pc[r] # "idle"
        /\ UNCHANGED <<services, packs, nonces, job, seen, inForce>>
    BY <1>1 DEF RejectOrder, At, Respond, GiveUp, Replies
  <2>2. QED
    BY <2>1, AnswerStep
<1>2. CASE UNCHANGED vars
  BY <1>2 DEF vars, RegistryInv, Types, HasJob, BurnedIsGone, BurnedOnce, Burned, Admitted,
     Tracked, Checked, At, Signed, Sid, BodyIsBound, PacksSold, IndexMatchesCatalog,
     AllSigned, SignedFor, BurnedFor
<1>3. QED
  BY <1>1, <1>2, StartStep, ConsumeNonceStep, GetServiceStep, InsertServiceStep,
     UpdateServiceStep, RetireServiceStep, InsertPackStep DEF Next, Quiet

LEMMA RegistryInvariant == Spec => []RegistryInv
BY RegistryInit, RegistryStep, PTL DEF Spec

-----------------------------------------------------------------------------
\* All state has its type, and no pack is sold with no uses or with more than
\* the configuration allows.
THEOREM TypeCorrect == Spec => []TypeOK
<1>1. ASSUME RegistryInv PROVE TypeOK
  <2>1. \A p \in packs: p.terms.uses \in 1..MaxUses
    BY <1>1 DEF RegistryInv, PacksSold, InRange
  <2>2. \A r \in Req: inForce[r] \subseteq Row \cup {None}
    BY <1>1 DEF RegistryInv, Types
  <2>3. QED
    BY <1>1, <2>1, <2>2 DEF RegistryInv, Types, TypeOK
<1>2. QED
  BY <1>1, RegistryInvariant, PTL

\* The category and tags a service is found by are those of the catalog it
\* shows, after any sequence of updates with and without bundles.
THEOREM IndexFollowsCatalog == Spec => []IndexMatchesCatalog
<1>1. RegistryInv => IndexMatchesCatalog
  BY DEF RegistryInv
<1>2. QED
  BY <1>1, RegistryInvariant, PTL

\* What a service says was signed by its merchant, in a challenge nobody can
\* use again, or was there before the run.
THEOREM ContentIsSigned == Spec => []MerchantSignedContent
<1>1. RegistryInv => MerchantSignedContent
  BY DEF RegistryInv, AllSigned, SignedFor, BurnedFor, Before, MerchantSignedContent
<1>2. QED
  BY <1>1, RegistryInvariant, PTL

\* A pack is sold on the terms of one version of its service that was in force
\* after the seller's challenge was burned.
THEOREM TermsWereInForce == Spec => []IssuedOnTermsInForce
<1>1. RegistryInv => IssuedOnTermsInForce
  BY DEF RegistryInv, PacksSold, Sellable, IssuedOnTermsInForce
<1>2. QED
  BY <1>1, RegistryInvariant, PTL

\* One signed order makes one pack.
THEOREM OrdersAreFilledOnce == Spec => []OnePackPerOrder
<1>1. ASSUME RegistryInv PROVE OnePackPerOrder
  <2>1. SUFFICES ASSUME NEW p \in packs, NEW q \in packs, Signed(p.jti) = Signed(q.jti)
                 PROVE  p = q
    BY DEF OnePackPerOrder
  <2>2. p \in Pack /\ q \in Pack
    BY <1>1 DEF RegistryInv, Types
  <2>3. p.jti = q.jti
    BY <1>1, <2>1, <2>2 DEF RegistryInv, PacksSold, BurnedOnce, Pack
  <2>4. p.terms = q.terms
    BY <1>1, <2>3 DEF RegistryInv, PacksSold
  <2>5. QED
    BY <2>2, <2>3, <2>4 DEF Pack
<1>2. QED
  BY <1>1, RegistryInvariant, PTL

LEMMA UpdatedRow ==
    ASSUME NEW old \in Row, NEW body \in Body
    PROVE  Updated(old, body) \in Row /\ Updated(old, body).merchant = old.merchant
<1>1. body.allow \in Allowlist /\ body.bundles \in Bundles \cup {None}
  BY DEF Body
<1>2. QED
  BY <1>1 DEF Updated, Row

\* What a step may do to one service: register it when it is free, update or
\* retire it for its merchant when it is active.
LEMMA ServiceStep ==
    ASSUME RegistryInv, [Next]_vars, NEW s \in Service, services[s] # None
    PROVE  \/ services'[s] = services[s]
           \/ /\ services[s].active
              /\ services'[s] # None /\ services'[s].merchant = services[s].merchant
<1>1. services[s] \in Row
  BY DEF RegistryInv, Types
<1>2. ASSUME NEW r \in Req, InsertService(r)
      PROVE  services'[s] = services[s]
  BY <1>2 DEF InsertService, Put, RegistryInv, Types
<1>3. ASSUME NEW r \in Req, UpdateService(r) \/ RetireService(r)
      PROVE  \/ services'[s] = services[s]
             \/ /\ services[s].active
                /\ services'[s] # None /\ services'[s].merchant = services[s].merchant
  <2>1. CASE services' = services
    BY <2>1
  <2>2. CASE services' # services
    <3>1. ActiveAndOwned(r)
      BY <1>3, <2>2 DEF UpdateService, RetireService
    <3>2. PICK new : /\ services' = [services EXCEPT ![Sid(r)] = new]
                     /\ \/ /\ job[r].op = "update"
                           /\ new = Updated(services[Sid(r)], job[r].body)
                        \/ new = [services[Sid(r)] EXCEPT !.active = FALSE]
      BY <1>3, <3>1 DEF UpdateService, RetireService, Put, At
    <3>3. CASE Sid(r) # s
      BY <3>2, <3>3 DEF RegistryInv, Types
    <3>4. CASE Sid(r) = s
      <4>1. services[s].active
        BY <3>1, <3>4 DEF ActiveAndOwned
      <4>2. services'[s] = new
        BY <3>2, <3>4 DEF RegistryInv, Types
      <4>3. /\ job[r] \in Jobs /\ job[r].op \in {"update", "retire"}
            /\ At(r, job[r].op, "write")
        BY <1>3 DEF UpdateService, RetireService, At, RegistryInv, HasJob
      <4>4. services'[s] # None /\ services'[s].merchant = services[s].merchant
        <5>1. new \in Row /\ new.merchant = services[s].merchant
          <6>1. job[r].op = "update" => job[r].body \in Body
            BY <4>3, JobAssumption
          <6>2. CASE new = [services[Sid(r)] EXCEPT !.active = FALSE]
            BY <1>1, <3>4, <6>2 DEF Row
          <6>3. CASE job[r].op = "update" /\ new = Updated(services[Sid(r)], job[r].body)
            BY <1>1, <3>4, <6>1, <6>3, UpdatedRow
          <6>4. QED
            BY <3>2, <4>3, <6>2, <6>3
        <5>2. QED
          BY <4>2, <5>1, RegisteredAssumption
      <4>5. QED
        BY <4>1, <4>4
    <3>5. QED
      BY <3>3, <3>4
  <2>3. QED
    BY <2>1, <2>2
<1>4. ASSUME UNCHANGED services
      PROVE  services'[s] = services[s]
  BY <1>4
<1>5. QED
  BY <1>2, <1>3, <1>4 DEF Next, Quiet, vars, Start, ConsumeNonce, RejectOrder, GetService,
     InsertPack, Respond, GiveUp

\* The first merchant to register a service_id keeps it.
THEOREM OwnersStay == Spec => OwnerIsForever
<1>1. RegistryInv /\ [Next]_vars =>
        [\A s \in Service: services[s] # None =>
           services'[s] # None /\ services'[s].merchant = services[s].merchant]_vars
  BY ServiceStep
<1>2. QED
  BY <1>1, RegistryInvariant, PTL DEF Spec, OwnerIsForever

\* A retired service stays as it is.
THEOREM RetiredStay == Spec => RetiredIsFinal
<1>1. RegistryInv /\ [Next]_vars =>
        [\A s \in Service: services[s] # None /\ ~services[s].active =>
           services'[s] = services[s]]_vars
  BY ServiceStep
<1>2. QED
  BY <1>1, RegistryInvariant, PTL DEF Spec, RetiredIsFinal
=============================================================================
