--------------------------- MODULE ServiceRegistry ---------------------------
(***************************************************************************)
(* The services merchants register, change and retire, and the packs they   *)
(* issue for them.  A handler validates what it was sent, burns the signed  *)
(* challenge, compares the body with what was signed, reads the service in  *)
(* one transaction and writes in another: what it read may be stale by      *)
(* then, and the writing statement's own WHERE clause is what it is safe by.*)
(* Each database call is one single-statement transaction, one step below.  *)
(***************************************************************************)
EXTENDS Naturals, FiniteSets

CONSTANTS
    Req,         \* requests; one also names the jti its issuance draws
    Service,     \* service_id values
    Wallet,      \* merchants
    Resource,
    PackId,      \* pack_id values
    Bundles,     \* pack_bundles documents
    Catalog,     \* Catalog[b][i]: the terms b gives for pack i, or None
    Index,       \* Index[b]: the category and tags in b; Index[None] is empty
    Challenge,   \* signed challenges issued before the run
    Jobs,        \* what requests ask for, with which challenge
    Registered,  \* the tables of services a run may begin with
    MaxUses,     \* max_pack_uses
    MinValidity, \* 3600
    MaxValidity, \* max_validity_seconds
    None         \* the absence of a value

Allowlist == SUBSET (Resource \cup {"*"})
Terms == [uses: Nat, validity: Nat \cup {None}]
Body == [service: Service, allow: Allowlist, bundles: Bundles \cup {None}]
Order == [service: Service, pack: PackId, uses: Nat, validity: Nat,
          resources: Allowlist]

Row ==
    [merchant: Wallet, allow: Allowlist, bundles: Bundles \cup {None},
     index: {Index[b]: b \in Bundles \cup {None}}, active: BOOLEAN]

\* What a challenge binds: a body, an order for a pack, or the service alone.
Bound == Body \cup Order \cup [service: Service]

Ops == {"register", "update", "retire", "issue"}

ASSUME CatalogAssumption ==
    /\ DOMAIN Index = Bundles \cup {None}
    /\ Catalog \in [Bundles -> [PackId -> Terms \cup {None}]]
ASSUME SignedAssumption ==
    /\ Challenge \subseteq
         [nonce: Nat, action: Ops, wallet: Wallet, bound: Bound]
    /\ \A c \in Challenge: c.action = "issue" => c.bound \in Order
ASSUME JobAssumption ==
    /\ Jobs \subseteq
         [op: Ops, body: Body \cup {None}, challenge: Challenge]
    /\ \A j \in Jobs: j.op \in {"register", "update"} <=> j.body # None
ASSUME RegisteredAssumption ==
    /\ Registered \subseteq [Service -> Row \cup {None}]
    /\ \A q \in Registered, s \in Service:
         q[s] # None => q[s].index = Index[q[s].bundles]
    /\ None \notin Row \cup Bundles \cup Terms \cup Body \cup Jobs

VARIABLES
    services, \* pack_auth_services
    packs,    \* pack_auth_packs, as far as issuance writes it
    nonces,   \* the challenges whose row is in pack_auth_nonces
    pc,       \* where the handler of r is
    job,      \* what r asks for, what its body says, the challenge it presents
    seen,     \* the service row r read
    reply,    \* the answer the client got
    inForce   \* history: the rows of r's service since its challenge was burned

vars == <<services, packs, nonces, pc, job, seen, reply, inForce>>

Labels == {"idle", "consumeNonce", "getService", "write", "answer", "done"}
Replies ==
    {"ok", "BadRequest", "Unauthorized", "Forbidden", "NotFound", "Conflict",
     "Internal"}
ASSUME ReplyAssumption == None \notin Replies

Pack == [jti: Req, terms: Order]

Init ==
    /\ services \in Registered
    /\ packs = {}
    /\ nonces = Challenge
    /\ pc = [r \in Req |-> "idle"]
    /\ job = [r \in Req |-> None]
    /\ seen = [r \in Req |-> None]
    /\ reply = [r \in Req |-> None]
    /\ inForce = [r \in Req |-> {}]

-----------------------------------------------------------------------------
Signed(r) == job[r].challenge
Sid(r) == Signed(r).bound.service

At(r, op, label) == pc[r] = label /\ job[r].op = op
Goto(r, label) == pc' = [pc EXCEPT ![r] = label]
Answer(r, answer) == Goto(r, "done") /\ reply' = [reply EXCEPT ![r] = answer]

\* validate_pack_bundles, as far as the terms go.
ValidBundles(b) ==
    b = None \/ \A i \in PackId: LET t == Catalog[b][i] IN
        t # None => /\ t.uses \in 1..MaxUses
                    /\ t.validity # None => t.validity >= MinValidity

\* A request arrives.  Register and update validate the body first.
Start(r) ==
    /\ pc[r] = "idle"
    /\ \E j \in Jobs:
         /\ job' = [job EXCEPT ![r] = j]
         /\ IF j.body # None /\ ~ValidBundles(j.body.bundles)
            THEN Answer(r, "BadRequest")
            ELSE Goto(r, "consumeNonce") /\ UNCHANGED reply
    /\ UNCHANGED <<services, packs, nonces, seen, inForce>>

\* Fault: the nonce is not what makes a challenge acceptable.
AcceptsReplayed(r) == Signed(r).action = job[r].op

\* verify_and_consume; a challenge may expire at any time.
Accepts(r) == Signed(r).action = job[r].op /\ Signed(r) \in nonces

\* Fault: only the service_id is compared.
BoundByServiceOnly(r) == job[r].body = None \/ job[r].body.service = Sid(r)

\* ensure_bound on every field of the body.
BodyIsBound(r) == job[r].body \in {None, Signed(r).bound}

ConsumeNonce(r) ==
    /\ pc[r] = "consumeNonce"
    /\ \/ /\ Accepts(r)
          /\ nonces' = nonces \ {Signed(r)}
          /\ inForce' = [inForce EXCEPT ![r] = {services[Sid(r)]}]
          /\ IF BodyIsBound(r)
             THEN /\ Goto(r, IF job[r].op = "retire" THEN "write"
                             ELSE "getService")
                  /\ UNCHANGED reply
             ELSE Answer(r, "Unauthorized")
       \/ Answer(r, "Unauthorized") /\ UNCHANGED <<nonces, inForce>>
    /\ UNCHANGED <<services, packs, job, seen>>

-----------------------------------------------------------------------------
\* Fault: an instance remembers the services it looked up.
LookupCached(r) ==
    IF \E q \in Req: seen[q] # None /\ Sid(q) = Sid(r)
    THEN seen[CHOOSE q \in Req: seen[q] # None /\ Sid(q) = Sid(r)]
    ELSE services[Sid(r)]

Lookup(r) == services[Sid(r)]

\* The pack is one the catalog has, on the terms it gives.
InCatalog(order, bundles) ==
    bundles # None =>
        LET t == Catalog[bundles][order.pack] IN
        t # None /\ t.uses = order.uses /\ t.validity \in {None, order.validity}

InAllowlist(resources, allow) ==
    "*" \in allow \/ ("*" \notin resources /\ resources \subseteq allow)

\* Fault: how many uses a pack may have is left to the catalog.
InRangeOfValidity(order) == order.validity \in MinValidity..MaxValidity

InRange(order) ==
    order.uses \in 1..MaxUses /\ order.validity \in MinValidity..MaxValidity

\* load_active_service and the checks on its row that r's handler makes, in
\* the order of the code; None when it may go on to write.
Refusal(r, s) ==
    LET order == Signed(r).bound IN
    IF job[r].op = "register" THEN IF s = None THEN None ELSE "Conflict"
    ELSE IF s = None THEN "NotFound"
    ELSE IF ~s.active THEN "Forbidden"
    ELSE IF s.merchant # Signed(r).wallet THEN "Unauthorized"
    ELSE IF job[r].op = "update" THEN None
    ELSE IF ~InAllowlist(order.resources, s.allow) THEN "Forbidden"
    ELSE IF ~InCatalog(order, s.bundles) THEN "Forbidden"
    ELSE IF ~InRange(order) THEN "BadRequest"
    ELSE None

\* An issuance for no resources is refused without looking at the service.
RejectOrder(r) ==
    /\ At(r, "issue", "getService") /\ Signed(r).bound.resources = {}
    /\ Answer(r, "BadRequest")
    /\ UNCHANGED <<services, packs, nonces, job, seen, inForce>>

GetService(r) ==
    /\ pc[r] = "getService"
    /\ job[r].op = "issue" => Signed(r).bound.resources # {}
    /\ seen' = [seen EXCEPT ![r] = Lookup(r)]
    /\ LET refusal == Refusal(r, Lookup(r)) IN
       IF refusal # None THEN Answer(r, refusal)
       ELSE Goto(r, "write") /\ UNCHANGED reply
    /\ UNCHANGED <<services, packs, nonces, job, inForce>>

-----------------------------------------------------------------------------
\* The service's row becomes new; whoever is between its challenge and its
\* answer may have read the old one.
Put(s, new) ==
    /\ services' = [services EXCEPT ![s] = new]
    /\ inForce' = [q \in Req |->
         IF inForce[q] # {} /\ Sid(q) = s THEN inForce[q] \cup {new}
         ELSE inForce[q]]

NewRow(r) ==
    [merchant |-> Signed(r).wallet, allow |-> job[r].body.allow,
     bundles |-> job[r].body.bundles, index |-> Index[job[r].body.bundles],
     active |-> TRUE]

\* Fault: INSERT ... ON CONFLICT DO UPDATE.
InsertServiceUpsert(r) ==
    /\ At(r, "register", "write")
    /\ Put(Sid(r), NewRow(r))
    /\ Goto(r, "answer")
    /\ UNCHANGED <<packs, nonces, job, seen, reply>>

\* The primary key stops the second of two registrations.
InsertService(r) ==
    /\ At(r, "register", "write")
    /\ IF services[Sid(r)] = None
       THEN Put(Sid(r), NewRow(r)) /\ Goto(r, "answer") /\ UNCHANGED reply
       ELSE Answer(r, "Internal") /\ UNCHANGED <<services, inForce>>
    /\ UNCHANGED <<packs, nonces, job, seen>>

\* Fault: the WHERE clause has lost its status.
OwnedByCaller(r) ==
    services[Sid(r)] # None /\ services[Sid(r)].merchant = Signed(r).wallet

\* WHERE service_id AND merchant_wallet AND status='active'.
ActiveAndOwned(r) ==
    /\ services[Sid(r)] # None
    /\ services[Sid(r)].merchant = Signed(r).wallet
    /\ services[Sid(r)].active

\* Fault: the bundles are always written, their index when there are any.
UpdatedWithoutIndex(old, body) ==
    [old EXCEPT !.allow = body.allow, !.bundles = body.bundles,
                !.index = IF body.bundles = None THEN @
                          ELSE Index[body.bundles]]

\* An update without bundles leaves the catalog and its index alone.
Updated(old, body) ==
    IF body.bundles = None THEN [old EXCEPT !.allow = body.allow]
    ELSE [old EXCEPT !.allow = body.allow, !.bundles = body.bundles,
                     !.index = Index[body.bundles]]

UpdateService(r) ==
    /\ At(r, "update", "write")
    /\ IF ActiveAndOwned(r)
       THEN /\ Put(Sid(r), Updated(services[Sid(r)], job[r].body))
            /\ Goto(r, "answer")
            /\ UNCHANGED reply
       ELSE Answer(r, "NotFound") /\ UNCHANGED <<services, inForce>>
    /\ UNCHANGED <<packs, nonces, job, seen>>

RetireService(r) ==
    /\ At(r, "retire", "write")
    /\ IF ActiveAndOwned(r)
       THEN /\ Put(Sid(r), [services[Sid(r)] EXCEPT !.active = FALSE])
            /\ Goto(r, "answer")
            /\ UNCHANGED reply
       ELSE Answer(r, "NotFound") /\ UNCHANGED <<services, inForce>>
    /\ UNCHANGED <<packs, nonces, job, seen>>

InsertPack(r) ==
    /\ At(r, "issue", "write")
    /\ packs' = packs \cup {[jti |-> r, terms |-> Signed(r).bound]}
    /\ Goto(r, "answer")
    /\ UNCHANGED <<services, nonces, job, seen, reply, inForce>>

Respond(r) ==
    /\ pc[r] = "answer"
    /\ Answer(r, "ok")
    /\ UNCHANGED <<services, packs, nonces, job, seen, inForce>>

\* The database fails, a wait times out or the function is stopped: the
\* client gets an error, whatever the last call came to.
GiveUp(r) ==
    /\ pc[r] \notin {"idle", "done"}
    /\ Answer(r, "Internal")
    /\ UNCHANGED <<services, packs, nonces, job, seen, inForce>>

Quiet == (\A r \in Req: pc[r] = "done") /\ UNCHANGED vars

Next ==
    \/ \E r \in Req:
         \/ Start(r) \/ ConsumeNonce(r) \/ RejectOrder(r) \/ GetService(r)
         \/ InsertService(r) \/ UpdateService(r) \/ RetireService(r)
         \/ InsertPack(r) \/ Respond(r) \/ GiveUp(r)
    \/ Quiet

Spec == Init /\ [][Next]_vars

-----------------------------------------------------------------------------
\* The types of the tables and of what each request remembers; no pack was
\* sold with more uses than the configuration allows, or with none.
TypeOK ==
    /\ services \in [Service -> Row \cup {None}]
    /\ packs \subseteq Pack
    /\ \A p \in packs: p.terms.uses \in 1..MaxUses
    /\ nonces \subseteq Challenge
    /\ pc \in [Req -> Labels]
    /\ job \in [Req -> Jobs \cup {None}]
    /\ seen \in [Req -> Row \cup {None}]
    /\ reply \in [Req -> Replies \cup {None}]
    /\ \A r \in Req: inForce[r] \subseteq Row \cup {None}

\* The first merchant to register a service_id keeps it, although two may
\* both have seen it free.
OwnerIsForever ==
    [][\A s \in Service: services[s] # None =>
         services'[s] # None /\ services'[s].merchant = services[s].merchant]_vars

\* A retired service stays as it is, also when an update that saw it active
\* is still to write.
RetiredIsFinal ==
    [][\A s \in Service: services[s] # None /\ ~services[s].active =>
         services'[s] = services[s]]_vars

\* The category and the tags the marketplace searches by are those of the
\* catalog it shows, after any sequence of updates with and without bundles.
IndexMatchesCatalog ==
    \A s \in Service: services[s] # None =>
        services[s].index = Index[services[s].bundles]

\* Everything a service says since the run began was signed by its merchant
\* in a challenge for that service that nobody can use again.
MerchantSignedContent ==
    \A s \in Service: services[s] # None =>
        LET burned == {c \in Challenge \ nonces:
                /\ c.action \in {"register", "update"} /\ c.bound.service = s
                /\ c.wallet = services[s].merchant}
            before == {q[s]: q \in Registered} \ {None}
        IN  /\ \E b \in {c.bound: c \in burned} \cup before:
                 b.allow = services[s].allow
            /\ \E b \in {c.bound: c \in burned} \cup before:
                 b.bundles = services[s].bundles

\* A pack is sold on the terms of one version of its service, active and the
\* seller's, that was in force after the seller's challenge was burned: the
\* catalog may change while the pack is written, but never before.
IssuedOnTermsInForce ==
    \A p \in packs: \E v \in inForce[p.jti]:
        /\ v # None /\ v.active /\ v.merchant = Signed(p.jti).wallet
        /\ InAllowlist(p.terms.resources, v.allow)
        /\ InCatalog(p.terms, v.bundles)

\* One signed order makes one pack, however often it is sent and although the
\* answer to the first try was lost.
OnePackPerOrder ==
    \A p, q \in packs: Signed(p.jti) = Signed(q.jti) => p = q
=============================================================================
