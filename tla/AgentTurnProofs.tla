--------------------------- MODULE AgentTurnProofs ---------------------------
(***************************************************************************)
(* Proofs about AgentTurn and what it is composed of, for any clients,     *)
(* agents, tools, backends and plans.                                      *)
(*                                                                         *)
(* Whatever requests and turns do to the entitlement are operations of the *)
(* manager, whatever they do to the token cache are steps of an exchange:  *)
(* what is proved of the parts holds of the whole.  A list is exact by the *)
(* sum of what was asked so far; and a turn that began settled stays so    *)
(* until something changes, which ends its calm.  The label of a request   *)
(* says whether its credential is under way (WaitInv), and each step of a  *)
(* turn leaves fewer stages, iterations or calls before its end (PaceInv). *)
(***************************************************************************)
EXTENDS AgentTurn, EntitlementProofs, TokenExchangeProofs

(***************************************************************************)
(* Steps of the whole are steps of the entitlement.                        *)
(***************************************************************************)

\* A client that can be resolved is one.
LEMMA ResolveIsEntitlement ==
  ASSUME EntitlementInv, NEW client, Resolve(client)
  PROVE  EntitlementNext
<1>1. client \in Clients
  BY DEF EntitlementInv, EntitlementTypeOK, Resolve, Resolves
<1>2. QED
  BY <1>1 DEF EntitlementNext

\* A request resolves its client, or leaves the entitlement alone.
LEMMA ServeIsEntitlement ==
  ASSUME EntitlementInv, NEW c \in Callers, Serve(c)
  PROVE  EntitlementNext \/ UNCHANGED entitlementVars
<1>1. CASE ResolveForList(c)
  BY <1>1, ResolveIsEntitlement DEF ResolveForList
<1>2. CASE ~ResolveForList(c)
  BY <1>2 DEF Serve, HeaderBodyMismatch, Replayed, Unauthorized, Authorized, Invalid, Call, EmptyList,
     CredentialForBackend, AwaitsCredential, Skipped, CredentialRaises, Connects, SessionLists,
     GateRejects, Listed, Quiet
<1>3. QED
  BY <1>1, <1>2

\* So does a turn, for its calls.
LEMMA TurnsAreEntitlement ==
  ASSUME EntitlementInv, NEW c \in Callers, Turns(c)
  PROVE  EntitlementNext \/ UNCHANGED entitlementVars
<1>1. ASSUME NEW tool \in Tools, CallsTool(c, tool)
      PROVE  EntitlementNext \/ UNCHANGED entitlementVars
  <2>1. Resolve(ClientOf(Agents[turn[c].agent])) \/ Below
    BY <1>1 DEF CallsTool, SetsTurn
  <2>2. QED
    BY <2>1, ResolveIsEntitlement DEF Below
<1>2. CASE Catalogued(c) \/ FinalAnswer(c) \/ AsksForTools(c) \/ PassesOver(c) \/ Decided(c)
            \/ Iterates(c) \/ TurnEnds(c)
  BY <1>2 DEF Catalogued, Answered, FinalAnswer, AsksForTools, PassesOver, Decided, Iterates,
     TurnEnds, Completes, SetsTurn, Below, Quiet
<1>3. QED
  BY <1>1, <1>2 DEF Turns

\* Every step of the whole is a step of the entitlement, or leaves it alone.
LEMMA NextIsEntitlement ==
  ASSUME EntitlementInv, [Next]_allVars
  PROVE  [EntitlementNext]_entitlementVars
<1>1. CASE UNCHANGED allVars
  BY <1>1 DEF allVars
<1>2. ASSUME NEW c \in Callers, Continues(c) PROVE [EntitlementNext]_entitlementVars
  <2>1. CASE Serves(c)
    BY <2>1, ServeIsEntitlement DEF Serves
  <2>2. CASE OtherAnswered(c)
    BY <2>2 DEF OtherAnswered, Answered
  <2>3. CASE Turns(c)
    BY <2>3, TurnsAreEntitlement
  <2>4. QED
    BY <1>2, <2>1, <2>2, <2>3 DEF Continues
<1>3. ASSUME NEW c \in Callers, Starts(c) PROVE [EntitlementNext]_entitlementVars
  BY <1>3 DEF Starts, RouteAndRun, OtherRequest, Submit, Quiet
<1>4. CASE Changes
  BY <1>4 DEF Changes, EntitlementNext
<1>5. CASE Synchronizes
  BY <1>5 DEF Synchronizes, EntitlementNext
<1>6. CASE Restarts
  BY <1>6 DEF Restarts, EntitlementNext
<1>7. CASE Failures
  BY <1>7 DEF Failures, ServeFails, CredentialFails, SessionFails, Fails, Quiet, TurnFails, SetsTurn,
     Below, Rotate, EntitlementNext
<1>8. CASE Ticks
  BY <1>8 DEF Ticks
<1>9. QED
  BY <1>1, <1>2, <1>3, <1>4, <1>5, <1>6, <1>7, <1>8 DEF Next

\* The requests and turns of any agents use the manager as its specification says.
THEOREM EntitlementImplemented == Spec => EntitlementSpec
<1>1. Init => InitEntitlement
  BY DEF Init
<1>2. EntitlementInv /\ [Next]_allVars => [EntitlementNext]_entitlementVars
  BY NextIsEntitlement
<1>3. QED
  BY <1>1, <1>2, EntitlementInitially, EntitlementInductive, PTL DEF Spec, EntitlementSpec

\* So what is settled agrees, and what is revoked stays so, in the whole as well.
THEOREM EntitlementHolds == Spec => [](SettledAgrees /\ RevokedStaysRevoked)
BY EntitlementImplemented, SyncSettles, RevocationLasts, PTL

(***************************************************************************)
(* Requests.  What a list has shown so far are the tools of the backends   *)
(* that have been asked: all but those to come, left out or being asked.   *)
(***************************************************************************)

ListFields == {"pc", "request", "client", "entitled", "todo", "at", "tools", "reply", "truth",
               "skipped"}

Labelled(l) == ~Mismatch(l.request.header, l.request.body)

Asking == {"credential", "session"}

\* The backends that have been asked.
Asked(l) ==
    DistinctBackendsFor(l.truth) \ (l.todo \cup l.skipped \cup (IF l.pc \in Asking THEN {l.at} ELSE {}))

Shown(l) == l.tools = l.truth \cap UNION {Offers[b] : b \in Asked(l)}

ListingSound(l) ==
    /\ Labelled(l) /\ l.request.body.method = "tools/list"
    /\ l.entitled = l.truth
    /\ l.todo \subseteq DistinctBackendsFor(l.truth) /\ l.todo \cap l.skipped = {}
    /\ l.pc \in Asking => l.at \in DistinctBackendsFor(l.truth) \ (l.todo \cup l.skipped)
    /\ Shown(l)

DoneSound(l) ==
    /\ l.reply \in {"listed", "call"} => Labelled(l)
    /\ l.reply = "listed" => /\ l.request.body.method = "tools/list"
                             /\ l.todo = {} /\ Shown(l)
    /\ l.reply = "call" => l.request.body.method = "tools/call"

Unserved(l) == l.tools = {} /\ l.truth = {} /\ l.skipped = {} /\ l.todo = {}

ListSound(l) ==
    /\ DOMAIN l = ListFields
    /\ l.pc \in {"idle", "gate", "verify", "serve", "backends", "credential", "session", "done"}
    /\ l.client # Absent => l.client = ClientOf(l.request.bearer)
    /\ l.pc # "done" => l.reply = Absent
    /\ l.pc \in {"idle", "gate", "verify", "serve"} => Unserved(l)
    /\ l.pc \in {"verify", "serve"} => Labelled(l)
    /\ l.pc \in {"backends"} \cup Asking => ListingSound(l)
    /\ l.pc = "done" => DoneSound(l)

FailedInv ==
    /\ \A c \in Callers : list[c].reply = "raised" \/ credential[c].pc = "raised" => failed
    /\ rotated # {} => failed

CatalogInv ==
    /\ DOMAIN list = Callers
    /\ failed \in BOOLEAN
    /\ \A c \in Callers : ListSound(list[c])
    /\ FailedInv

\* The backends that are asked are backends.
LEMMA BackendsOfTools == \A tools : DistinctBackendsFor(tools) \subseteq Configured \cup Unknown
BY ServicesAssumption DEF DistinctBackendsFor

\* Before any request.
LEMMA NoRequestSound ==
  /\ ListSound(NoRequest) /\ NoRequest.reply = Absent /\ NoRequest.pc = "idle"
BY DEF NoRequest, ListSound, ListFields, Unserved, Asking

\* A step of one request is judged by its record, if a failure is recorded.
LEMMA OneRequest ==
  ASSUME CatalogInv, NEW c \in Callers, NEW r, list' = [list EXCEPT ![c] = r], ListSound(r),
         failed' \in BOOLEAN, failed => failed', rotated' = rotated,
         r.reply = "raised" => failed',
         \A d \in Callers : credential'[d].pc = "raised" => credential[d].pc = "raised" \/ failed'
  PROVE  CatalogInv'
<1>1. DOMAIN list' = Callers /\ list'[c] = r /\ \A d \in Callers \ {c} : list'[d] = list[d]
  BY DEF CatalogInv
<1>2. FailedInv'
  BY <1>1 DEF CatalogInv, FailedInv
<1>3. \A d \in Callers : ListSound(list'[d])
  BY <1>1 DEF CatalogInv
<1>4. \A d \in Callers : ListSound(list[d])'
  BY <1>3 DEF ListSound, ListingSound, DoneSound, Unserved, Labelled, Shown, Asked
<1>5. QED
  BY <1>1, <1>2, <1>4 DEF CatalogInv

\* A request that ends without an answer of the handlers' is sound.
LEMMA EndsKeeps ==
  ASSUME CatalogInv, NEW c \in Callers, NEW reply, reply \notin {"listed", "call"},
         reply = "raised" => failed, Ends(c, reply), UNCHANGED credential
  PROVE  CatalogInv'
<1> DEFINE l == list[c]
           r == [l EXCEPT !.pc = "done", !.reply = reply]
<1>1. ListSound(l) /\ failed \in BOOLEAN
  BY DEF CatalogInv
<1>2. list' = [list EXCEPT ![c] = r] /\ UNCHANGED <<rotated, failed>>
  BY DEF Ends, SetsList
<1>3. /\ DOMAIN r = ListFields /\ r.pc = "done" /\ r.reply = reply
      /\ r.client = l.client /\ r.request = l.request
  BY <1>1 DEF ListSound, ListFields
<1>4. ListSound(r)
  BY <1>1, <1>3 DEF ListSound, DoneSound, Asking
<1> HIDE DEF r
<1>5. QED
  BY <1>1, <1>2, <1>3, <1>4, OneRequest

\* A request that goes on is sound if its record is.
LEMMA GoesOnKeeps ==
  ASSUME CatalogInv, NEW c \in Callers, NEW r, SetsList(c, r), ListSound(r), r.reply # "raised",
         \A d \in Callers : credential'[d].pc = "raised" => credential[d].pc = "raised" \/ failed'
  PROVE  CatalogInv'
<1>1. failed' \in BOOLEAN /\ failed' = failed /\ rotated' = rotated /\ list' = [list EXCEPT ![c] = r]
  BY DEF SetsList, CatalogInv
<1>2. QED
  BY <1>1, OneRequest

\* A new request is unserved.
LEMMA SubmitKeeps ==
  ASSUME CatalogInv, NEW c \in Callers, NEW request, Submit(c, request)
  PROVE  CatalogInv'
<1> DEFINE r == [NoRequest EXCEPT !.pc = "gate", !.request = request]
<1>1. ListSound(r) /\ r.reply # "raised"
  BY AbsentAssumption DEF NoRequest, ListSound, ListFields, Unserved, Asking
<1>2. SetsList(c, r) /\ UNCHANGED credential
  BY DEF Submit, Quiet, exchangeVars
<1> HIDE DEF r
<1>3. QED
  BY <1>1, <1>2, GoesOnKeeps

\* What the gate lets through is labelled as it is.
LEMMA GateKeeps ==
  ASSUME CatalogInv, NEW c \in Callers, HeaderBodyMismatch(c) \/ Replayed(c)
  PROVE  CatalogInv'
<1> DEFINE l == list[c]
           r == [l EXCEPT !.pc = "verify"]
<1>1. ListSound(l)
  BY DEF CatalogInv
<1>2. CASE HeaderBodyMismatch(c)
  BY <1>2, EndsKeeps DEF HeaderBodyMismatch, Quiet, exchangeVars
<1>3. CASE Replayed(c)
  <2>1. l.pc = "gate" /\ Labelled(l) /\ SetsList(c, r) /\ UNCHANGED credential
    BY <1>3 DEF Replayed, Labelled, Quiet, exchangeVars
  <2>2. /\ DOMAIN r = ListFields /\ r.pc = "verify"
        /\ r.client = l.client /\ r.request = l.request /\ r.reply = l.reply
        /\ r.tools = l.tools /\ r.truth = l.truth /\ r.skipped = l.skipped /\ r.todo = l.todo
    BY <1>1 DEF ListSound, ListFields
  <2>3. ListSound(r) /\ r.reply # "raised"
    BY <1>1, <2>1, <2>2, AbsentAssumption DEF ListSound, Labelled, Unserved, Asking
  <2> HIDE DEF r
  <2>4. QED
    BY <2>1, <2>3, GoesOnKeeps
<1>4. QED
  BY <1>2, <1>3

\* A request that is served is its bearer's.
LEMMA VerifyKeeps ==
  ASSUME CatalogInv, NEW c \in Callers, Unauthorized(c) \/ Authorized(c)
  PROVE  CatalogInv'
<1> DEFINE l == list[c]
           client == IF AuthConfigured THEN ClientOf(l.request.bearer) ELSE Absent
           r == [l EXCEPT !.pc = "serve", !.client = client]
<1>1. ListSound(l)
  BY DEF CatalogInv
<1>2. CASE Unauthorized(c)
  BY <1>2, EndsKeeps DEF Unauthorized, Quiet, exchangeVars
<1>3. CASE Authorized(c)
  <2>1. l.pc = "verify" /\ SetsList(c, r) /\ UNCHANGED credential
    BY <1>3 DEF Authorized, Quiet, exchangeVars
  <2>2. client # Absent => client = ClientOf(l.request.bearer)
    OBVIOUS
  <2> HIDE DEF client
  <2>3. /\ DOMAIN r = ListFields /\ r.pc = "serve"
        /\ r.client = client /\ r.request = l.request /\ r.reply = l.reply
        /\ r.tools = l.tools /\ r.truth = l.truth /\ r.skipped = l.skipped /\ r.todo = l.todo
    BY <1>1 DEF ListSound, ListFields
  <2>4. ListSound(r) /\ r.reply # "raised"
    BY <1>1, <2>1, <2>2, <2>3, AbsentAssumption DEF ListSound, Labelled, Unserved, Asking
  <2> HIDE DEF r
  <2>5. QED
    BY <2>1, <2>4, GoesOnKeeps
<1>4. QED
  BY <1>2, <1>3

\* A call and an empty list are answers to what the body asks for.
LEMMA DispatchKeeps ==
  ASSUME CatalogInv, NEW c \in Callers, Invalid(c) \/ Call(c) \/ EmptyList(c)
  PROVE  CatalogInv'
<1> DEFINE l == list[c]
<1>1. ListSound(l) /\ UNCHANGED credential
  BY DEF CatalogInv, Invalid, Call, EmptyList, Quiet, exchangeVars
<1>2. CASE Invalid(c)
  BY <1>1, <1>2, EndsKeeps DEF Invalid
<1>3. ASSUME NEW reply \in {"call", "listed"}, Ends(c, reply), l.pc = "serve",
             reply = "call" => l.request.body.method = "tools/call",
             reply = "listed" => l.request.body.method = "tools/list"
      PROVE  CatalogInv'
  <2> DEFINE r == [l EXCEPT !.pc = "done", !.reply = reply]
  <2>1. SetsList(c, r)
    BY <1>3 DEF Ends
  <2>2. /\ DOMAIN r = ListFields /\ r.pc = "done" /\ r.reply = reply
        /\ r.client = l.client /\ r.request = l.request
        /\ r.tools = l.tools /\ r.truth = l.truth /\ r.todo = l.todo
    BY <1>1 DEF ListSound, ListFields
  <2>3. Labelled(l) /\ Unserved(l)
    BY <1>1, <1>3 DEF ListSound
  <2>4. Labelled(r) /\ Shown(r) /\ r.todo = {}
    BY <2>2, <2>3 DEF Labelled, Unserved, Shown
  <2>5. ListSound(r) /\ r.reply # "raised"
    BY <1>1, <1>3, <2>2, <2>4 DEF ListSound, DoneSound, Asking
  <2> HIDE DEF r
  <2>6. QED
    BY <1>1, <2>1, <2>5, GoesOnKeeps
<1>4. QED
  BY <1>2, <1>3 DEF Call, EmptyList, Lists

\* The handler lists for what the manager has of the client in this moment.
LEMMA ResolveForListKeeps ==
  ASSUME CatalogInv, NEW c \in Callers, ResolveForList(c)
  PROVE  CatalogInv'
<1> DEFINE l == list[c]
           tools == cache'[l.client].allowed_tools
           truth == Truth(l.client)
           r == [l EXCEPT !.pc = "backends", !.entitled = tools,
                          !.todo = DistinctBackendsFor(tools), !.truth = truth]
<1>1. ListSound(l)
  BY DEF CatalogInv
<1>2. /\ l.pc = "serve" /\ l.request.body.method = "tools/list"
      /\ SetsList(c, r) /\ UNCHANGED credential
  BY DEF ResolveForList, Lists, exchangeVars
<1>3. tools = truth
  BY DEF ResolveForList, Resolve, Resolves, Resolved, With, Truth
<1> HIDE DEF tools, truth
<1>4. /\ DOMAIN r = ListFields /\ r.pc = "backends" /\ r.entitled = tools /\ r.truth = truth
      /\ r.todo = DistinctBackendsFor(tools)
      /\ r.client = l.client /\ r.request = l.request /\ r.reply = l.reply
      /\ r.tools = l.tools /\ r.skipped = l.skipped
  BY <1>1 DEF ListSound, ListFields
<1> HIDE DEF r
<1>5. l.tools = {} /\ l.skipped = {} /\ Labelled(l) /\ l.reply = Absent
  BY <1>1, <1>2 DEF ListSound, Unserved
<1>6. Asked(r) = {}
  BY <1>3, <1>4 DEF Asked, Asking
<1>7. ListingSound(r)
  BY <1>2, <1>3, <1>4, <1>5, <1>6 DEF ListingSound, Labelled, Shown, Asking
<1>8. ListSound(r) /\ r.reply # "raised"
  BY <1>1, <1>4, <1>5, <1>7, AbsentAssumption DEF ListSound, Asking
<1>9. QED
  BY <1>2, <1>8, GoesOnKeeps

\* A record of a list under way that has the same fields but the progress.
SameListing(r, l) ==
    /\ DOMAIN r = ListFields
    /\ r.client = l.client /\ r.request = l.request /\ r.reply = l.reply
    /\ r.entitled = l.entitled /\ r.truth = l.truth

\* Such a record is sound if it has shown what has been asked.
LEMMA ListingGoesOn ==
  ASSUME NEW l, NEW r, ListSound(l), l.pc \in {"backends"} \cup Asking, SameListing(r, l),
         r.pc \in {"backends"} \cup Asking,
         r.todo \subseteq DistinctBackendsFor(l.truth), r.todo \cap r.skipped = {},
         r.pc \in Asking => r.at \in DistinctBackendsFor(l.truth) \ (r.todo \cup r.skipped),
         Shown(r)
  PROVE  ListSound(r) /\ r.reply # "raised"
<1>1. ListingSound(l) /\ l.reply = Absent
  BY DEF ListSound, Asking
<1>2. ListingSound(r)
  BY <1>1 DEF SameListing, ListingSound, Labelled
<1>3. QED
  BY <1>1, <1>2, AbsentAssumption DEF ListSound, SameListing, Asking

\* A backend that is asked for its credential is one being asked.
LEMMA CredentialForBackendKeeps ==
  ASSUME CatalogInv, NEW c \in Callers, CredentialForBackend(c),
         \A d \in Callers : credential'[d].pc = "raised" => credential[d].pc = "raised"
  PROVE  CatalogInv'
<1> DEFINE l == list[c]
<1>1. ListSound(l) /\ l.pc = "backends"
  BY DEF CatalogInv, CredentialForBackend
<1>2. PICK b \in l.todo :
        SetsList(c, [l EXCEPT !.pc = "credential", !.at = b, !.todo = l.todo \ {b}])
  BY DEF CredentialForBackend
<1> DEFINE r == [l EXCEPT !.pc = "credential", !.at = b, !.todo = l.todo \ {b}]
<1>3. /\ SameListing(r, l) /\ r.pc = "credential" /\ r.at = b /\ r.todo = l.todo \ {b}
      /\ r.tools = l.tools /\ r.skipped = l.skipped
  BY <1>1 DEF ListSound, ListFields, SameListing
<1>4. SetsList(c, r)
  BY <1>2
<1> HIDE DEF r
<1>5. ListingSound(l)
  BY <1>1 DEF ListSound
<1>6. Asked(r) = Asked(l)
  BY <1>1, <1>3 DEF Asked, SameListing, Asking
<1>7. Shown(r)
  BY <1>3, <1>5, <1>6 DEF ListingSound, Shown, SameListing
<1>8. /\ r.todo \subseteq DistinctBackendsFor(l.truth) /\ r.todo \cap r.skipped = {}
      /\ r.at \in DistinctBackendsFor(l.truth) \ (r.todo \cup r.skipped)
  BY <1>3, <1>5 DEF ListingSound
<1>9. ListSound(r) /\ r.reply # "raised"
  BY <1>1, <1>3, <1>7, <1>8, ListingGoesOn DEF Asking
<1>10. QED
  BY <1>4, <1>9, GoesOnKeeps

\* A backend is left out only for want of a credential.
LEMMA SkippedKeeps ==
  ASSUME CatalogInv, NEW c \in Callers, Skipped(c)
  PROVE  CatalogInv'
<1> DEFINE l == list[c]
           r == [l EXCEPT !.pc = "backends", !.skipped = l.skipped \cup {l.at}]
<1>1. ListSound(l) /\ l.pc = "credential" /\ UNCHANGED credential
  BY DEF CatalogInv, Skipped, Quiet, exchangeVars
<1>2. SetsList(c, r)
  BY DEF Skipped
<1>3. /\ SameListing(r, l) /\ r.pc = "backends" /\ r.todo = l.todo
      /\ r.tools = l.tools /\ r.skipped = l.skipped \cup {l.at}
  BY <1>1 DEF ListSound, ListFields, SameListing
<1> HIDE DEF r
<1>4. ListingSound(l)
  BY <1>1 DEF ListSound, Asking
<1>5. Asked(r) = Asked(l)
  BY <1>1, <1>3 DEF Asked, SameListing, Asking
<1>6. Shown(r)
  BY <1>3, <1>4, <1>5 DEF ListingSound, Shown, SameListing
<1>7. r.todo \subseteq DistinctBackendsFor(l.truth) /\ r.todo \cap r.skipped = {}
  BY <1>1, <1>3, <1>4 DEF ListingSound, Asking
<1>8. ListSound(r) /\ r.reply # "raised"
  BY <1>1, <1>3, <1>6, <1>7, ListingGoesOn DEF Asking
<1>9. QED
  BY <1>1, <1>2, <1>8, GoesOnKeeps

\* With its credential the same backend is connected to.
LEMMA ConnectsKeeps ==
  ASSUME CatalogInv, NEW c \in Callers, Connects(c)
  PROVE  CatalogInv'
<1> DEFINE l == list[c]
           r == [l EXCEPT !.pc = "session"]
<1>1. ListSound(l) /\ l.pc = "credential" /\ UNCHANGED credential
  BY DEF CatalogInv, Connects, Quiet, exchangeVars
<1>2. SetsList(c, r)
  BY DEF Connects
<1>3. /\ SameListing(r, l) /\ r.pc = "session" /\ r.todo = l.todo /\ r.at = l.at
      /\ r.tools = l.tools /\ r.skipped = l.skipped
  BY <1>1 DEF ListSound, ListFields, SameListing
<1> HIDE DEF r
<1>4. ListingSound(l)
  BY <1>1 DEF ListSound, Asking
<1>5. Asked(r) = Asked(l)
  BY <1>1, <1>3 DEF Asked, SameListing, Asking
<1>6. Shown(r)
  BY <1>3, <1>4, <1>5 DEF ListingSound, Shown, SameListing
<1>7. /\ r.todo \subseteq DistinctBackendsFor(l.truth) /\ r.todo \cap r.skipped = {}
      /\ r.at \in DistinctBackendsFor(l.truth) \ (r.todo \cup r.skipped)
  BY <1>1, <1>3, <1>4 DEF ListingSound, Asking
<1>8. ListSound(r) /\ r.reply # "raised"
  BY <1>1, <1>3, <1>6, <1>7, ListingGoesOn DEF Asking
<1>9. QED
  BY <1>1, <1>2, <1>8, GoesOnKeeps

\* One more backend adds its offers.
LEMMA OfferedByMore ==
  ASSUME NEW A, NEW B, NEW x, B = A \cup {x}
  PROVE  UNION {Offers[b] : b \in B} = (UNION {Offers[b] : b \in A}) \cup Offers[x]
<1>1. \A tool : (\E b \in B : tool \in Offers[b]) <=> (\E b \in A : tool \in Offers[b]) \/ tool \in Offers[x]
  OBVIOUS
<1>2. QED
  BY <1>1

\* What a backend shows is what it offers and the client is entitled to.
LEMMA SessionListsKeeps ==
  ASSUME CatalogInv, NEW c \in Callers, SessionLists(c)
  PROVE  CatalogInv'
<1> DEFINE l == list[c]
           r == [l EXCEPT !.pc = "backends", !.tools = l.tools \cup Allowed(c)]
<1>1. ListSound(l) /\ l.pc = "session" /\ UNCHANGED credential
  BY DEF CatalogInv, SessionLists, Quiet, exchangeVars
<1>2. SetsList(c, r)
  BY DEF SessionLists
<1>3. ListingSound(l)
  BY <1>1 DEF ListSound, Asking
<1>4. Allowed(c) = Offers[l.at] \cap l.truth
  BY <1>3 DEF Allowed, ListingSound
<1>5. /\ SameListing(r, l) /\ r.pc = "backends" /\ r.todo = l.todo
      /\ r.tools = l.tools \cup (Offers[l.at] \cap l.truth) /\ r.skipped = l.skipped
  BY <1>1, <1>4 DEF ListSound, ListFields, SameListing
<1> HIDE DEF r
<1>6. Asked(r) = Asked(l) \cup {l.at}
  <2>1. Asked(r) = DistinctBackendsFor(l.truth) \ (l.todo \cup l.skipped)
    BY <1>5 DEF Asked, SameListing, Asking
  <2>2. Asked(l) = DistinctBackendsFor(l.truth) \ (l.todo \cup l.skipped \cup {l.at})
    BY <1>1 DEF Asked, Asking
  <2>3. l.at \in DistinctBackendsFor(l.truth) \ (l.todo \cup l.skipped)
    BY <1>1, <1>3 DEF ListingSound, Asking
  <2> HIDE DEF l
  <2>4. QED
    BY <2>1, <2>2, <2>3
<1>7. UNION {Offers[b] : b \in Asked(r)} = (UNION {Offers[b] : b \in Asked(l)}) \cup Offers[l.at]
  BY <1>6, OfferedByMore
<1>8. Shown(r)
  BY <1>3, <1>5, <1>7 DEF ListingSound, Shown, SameListing
<1>9. r.todo \subseteq DistinctBackendsFor(l.truth) /\ r.todo \cap r.skipped = {}
  BY <1>3, <1>5 DEF ListingSound
<1>10. ListSound(r) /\ r.reply # "raised"
  BY <1>1, <1>5, <1>8, <1>9, ListingGoesOn DEF Asking
<1>11. QED
  BY <1>1, <1>2, <1>10, GoesOnKeeps

\* The answer is what has been shown when nobody is left to ask.
LEMMA ListedKeeps ==
  ASSUME CatalogInv, NEW c \in Callers, Listed(c)
  PROVE  CatalogInv'
<1> DEFINE l == list[c]
           r == [l EXCEPT !.pc = "done", !.reply = "listed"]
<1>1. ListSound(l) /\ l.pc = "backends" /\ l.todo = {} /\ UNCHANGED credential
  BY DEF CatalogInv, Listed, Quiet, exchangeVars
<1>2. SetsList(c, r)
  BY DEF Listed, Ends
<1>3. /\ DOMAIN r = ListFields /\ r.pc = "done" /\ r.reply = "listed"
      /\ r.client = l.client /\ r.request = l.request /\ r.tools = l.tools
      /\ r.truth = l.truth /\ r.todo = l.todo /\ r.skipped = l.skipped
  BY <1>1 DEF ListSound, ListFields
<1> HIDE DEF r
<1>4. ListingSound(l)
  BY <1>1 DEF ListSound
<1>5. Asked(r) = Asked(l)
  BY <1>1, <1>3 DEF Asked, Asking
<1>6. DoneSound(r)
  BY <1>1, <1>3, <1>4, <1>5 DEF DoneSound, ListingSound, Labelled, Shown
<1>7. ListSound(r) /\ r.reply # "raised"
  BY <1>1, <1>3, <1>6 DEF ListSound, Asking
<1>8. QED
  BY <1>1, <1>2, <1>7, GoesOnKeeps

\* A request that raises does so after a failure.
LEMMA RaisesKeeps ==
  ASSUME CatalogInv, NEW c \in Callers, CredentialRaises(c) \/ GateRejects(c)
  PROVE  CatalogInv'
<1>1. failed /\ Ends(c, "raised") /\ UNCHANGED credential
  BY DEF CatalogInv, FailedInv, CredentialRaises, GateRejects, Rejects, Quiet, exchangeVars
<1>2. QED
  BY <1>1, EndsKeeps

\* An answered request is gone.
LEMMA AnsweredKeeps ==
  ASSUME CatalogInv, ExchangeInv, NEW c \in Callers, Answered(c)
  PROVE  CatalogInv'
<1>1. SetsList(c, NoRequest) /\ credential' = [credential EXCEPT ![c] = NoCredential]
  BY DEF Answered, Forgets, Sets
<1>2. \A d \in Callers : credential'[d].pc = "raised" => credential[d].pc = "raised"
  BY <1>1 DEF ExchangeInv, ExchangeTypeOK, NoCredential
<1>3. NoRequest.reply # "raised"
  BY NoRequestSound, AbsentAssumption
<1>4. QED
  BY <1>1, <1>2, <1>3, NoRequestSound, GoesOnKeeps

(***************************************************************************)
(* Requests and the credentials they wait for, step by step.               *)
(***************************************************************************)

RequestInv == ExchangeInv /\ CatalogInv

\* A step that touches neither keeps both.
LEMMA RequestsAlone ==
  ASSUME RequestInv, UNCHANGED <<exchangeVars, list, rotated, failed>>
  PROVE  RequestInv'
<1>1. ExchangeInv'
  BY ExchangeStutters DEF RequestInv
<1>2. UNCHANGED credential
  BY DEF exchangeVars
<1>3. \A c \in Callers : ListSound(list[c])'
  BY DEF RequestInv, CatalogInv, ListSound, ListingSound, DoneSound, Unserved, Labelled, Shown, Asked
<1>4. QED
  BY <1>1, <1>2, <1>3 DEF RequestInv, CatalogInv, FailedInv

\* A step that leaves the credentials alone keeps what is known of them.
LEMMA ExchangeAlone ==
  ASSUME RequestInv, UNCHANGED exchangeVars, CatalogInv'
  PROVE  RequestInv'
BY ExchangeStutters DEF RequestInv

\* Asking for a credential raises nothing, and asks a backend.
LEMMA CredentialForRequest ==
  ASSUME RequestInv, NEW c \in Callers, CredentialForBackend(c)
  PROVE  RequestInv'
<1>1. PICK b \in list[c].todo : CredentialFor(c, b)
  BY DEF CredentialForBackend
<1>2. b \in Configured \cup Unknown
  <2>1. list[c].pc = "backends" /\ ListSound(list[c])
    BY DEF CredentialForBackend, RequestInv, CatalogInv
  <2>2. list[c].todo \subseteq DistinctBackendsFor(list[c].truth)
    BY <2>1 DEF ListSound, ListingSound
  <2>3. QED
    BY <2>2, BackendsOfTools
<1>3. ExchangeInv'
  BY <1>1, <1>2, CredentialForKeeps DEF RequestInv
<1>4. \E r : r.pc # "raised" /\ credential' = [credential EXCEPT ![c] = r]
  <2>1. CASE Static(c, b)
    <3> DEFINE r == [NoCredential EXCEPT !.backend = b, !.pc =
                        IF b \in Configured /\ Modes[b] = "static" THEN "got" ELSE "unavailable"]
    <3>1. r.pc # "raised" /\ credential' = [credential EXCEPT ![c] = r]
      BY <2>1 DEF Static, Sets, NoCredential
    <3> HIDE DEF r
    <3>2. QED
      BY <3>1
  <2>2. CASE Hit(c, b)
    <3> DEFINE r == [NoCredential EXCEPT !.backend = b, !.pc = "got", !.asked = clock,
                        !.until = tokens[b].until, !.scope = tokens[b].scope, !.reused = TRUE]
    <3>1. r.pc # "raised" /\ credential' = [credential EXCEPT ![c] = r]
      BY <2>2 DEF Hit, Sets, NoCredential
    <3> HIDE DEF r
    <3>2. QED
      BY <3>1
  <2>3. CASE Miss(c, b)
    <3> DEFINE r == [NoCredential EXCEPT !.backend = b, !.pc = "subject", !.asked = clock]
    <3>1. r.pc # "raised" /\ credential' = [credential EXCEPT ![c] = r]
      BY <2>3 DEF Miss, Sets, NoCredential
    <3> HIDE DEF r
    <3>2. QED
      BY <3>1
  <2>4. QED
    BY <1>1, <2>1, <2>2, <2>3 DEF CredentialFor
<1>5. \A d \in Callers : credential'[d].pc = "raised" => credential[d].pc = "raised"
  BY <1>4 DEF RequestInv, ExchangeInv, ExchangeTypeOK
<1>6. QED
  BY <1>3, <1>5, CredentialForBackendKeeps DEF RequestInv

\* While the identity provider is waited for, no request changes.
LEMMA AwaitsRequest ==
  ASSUME RequestInv, NEW c \in Callers, AwaitsCredential(c)
  PROVE  RequestInv'
<1>1. ExchangeInv'
  BY SubjectTokenKeeps, IssueKeeps, ExchangedKeeps DEF RequestInv, AwaitsCredential
<1>2. credential[c] \in CredentialType /\ credential \in [Callers -> CredentialType]
  BY DEF RequestInv, ExchangeInv, ExchangeTypeOK
<1>3. \E r : r.pc # "raised" /\ credential' = [credential EXCEPT ![c] = r]
  <2>1. CASE SubjectToken(c)
    <3> DEFINE r == [credential[c] EXCEPT !.pc = "exchange"]
    <3>1. r.pc # "raised" /\ credential' = [credential EXCEPT ![c] = r]
      BY <1>2, <2>1 DEF SubjectToken, Sets, CredentialType
    <3> HIDE DEF r
    <3>2. QED
      BY <3>1
  <2>2. CASE Issue(c)
    <3>1. PICK life \in Lifetimes :
            Sets(c, [credential[c] EXCEPT !.pc = "issued", !.life = life, !.until = clock + life,
                                          !.scope = credential[c].backend])
      BY <2>2 DEF Issue
    <3> DEFINE r == [credential[c] EXCEPT !.pc = "issued", !.life = life, !.until = clock + life,
                                          !.scope = credential[c].backend]
    <3>2. r.pc # "raised"
      BY <1>2 DEF CredentialType
    <3>3. credential' = [credential EXCEPT ![c] = r]
      BY <3>1 DEF Sets
    <3> HIDE DEF r
    <3>4. QED
      BY <3>2, <3>3
  <2>3. CASE Exchanged(c)
    <3> DEFINE r == [credential[c] EXCEPT !.pc = "got"]
    <3>1. r.pc # "raised"
      BY <1>2 DEF CredentialType
    <3>2. credential' = [credential EXCEPT ![c] = r]
      BY <1>2, <2>3 DEF Exchanged
    <3> HIDE DEF r
    <3>3. QED
      BY <3>1, <3>2
  <2>4. QED
    BY <2>1, <2>2, <2>3 DEF AwaitsCredential
<1>4. \A d \in Callers : credential'[d].pc = "raised" => credential[d].pc = "raised"
  BY <1>2, <1>3
<1>5. UNCHANGED <<list, rotated, failed>>
  BY DEF AwaitsCredential, catalogVars
<1>6. \A d \in Callers : ListSound(list[d])'
  BY <1>5 DEF RequestInv, CatalogInv, ListSound, ListingSound, DoneSound, Unserved, Labelled, Shown,
     Asked
<1>7. CatalogInv'
  BY <1>4, <1>5, <1>6 DEF RequestInv, CatalogInv, FailedInv
<1>8. QED
  BY <1>1, <1>7 DEF RequestInv

\* An answered request gives its credential back.
LEMMA AnsweredRequest ==
  ASSUME RequestInv, NEW c \in Callers, Answered(c)
  PROVE  RequestInv'
<1>1. clock \in Nat /\ Sets(c, NoCredential)
  BY DEF RequestInv, ExchangeInv, ExchangeTypeOK, Answered, Forgets, Sets
<1>2. ExchangeInv'
  BY <1>1, NoCredentialSound, SetsKeeps DEF RequestInv
<1>3. QED
  BY <1>2, AnsweredKeeps DEF RequestInv

\* What a request does by itself.
LEMMA ServeRequest ==
  ASSUME RequestInv, NEW c \in Callers, Serve(c)
  PROVE  RequestInv'
<1>1. CASE CredentialForBackend(c) \/ AwaitsCredential(c)
  BY <1>1, CredentialForRequest, AwaitsRequest
<1>2. CASE ~(CredentialForBackend(c) \/ AwaitsCredential(c))
  <2>1. UNCHANGED exchangeVars
    BY <1>2 DEF Serve, HeaderBodyMismatch, Replayed, Unauthorized, Authorized, Invalid, Call,
       EmptyList, ResolveForList, Skipped, CredentialRaises, Connects, SessionLists, GateRejects,
       Listed, Quiet
  <2>2. CatalogInv'
    BY <1>2, GateKeeps, VerifyKeeps, DispatchKeeps, ResolveForListKeeps, SkippedKeeps, ConnectsKeeps,
       SessionListsKeeps, ListedKeeps, RaisesKeeps DEF RequestInv, Serve
  <2>3. QED
    BY <2>1, <2>2, ExchangeAlone
<1>3. QED
  BY <1>1, <1>2

\* A failure of the provider is a failure, and raises or leaves out.
LEMMA CredentialFailsRequest ==
  ASSUME RequestInv, NEW c \in Callers, CredentialFails(c)
  PROVE  RequestInv'
<1>1. ExchangeInv'
  BY ExchangeFailsKeeps DEF RequestInv, CredentialFails
<1>2. failed' = TRUE /\ UNCHANGED <<list, rotated>>
  BY DEF CredentialFails
<1>3. \A d \in Callers : ListSound(list[d])'
  BY <1>2 DEF RequestInv, CatalogInv, ListSound, ListingSound, DoneSound, Unserved, Labelled, Shown,
     Asked
<1>4. CatalogInv'
  BY <1>2, <1>3 DEF RequestInv, CatalogInv, FailedInv
<1>5. QED
  BY <1>1, <1>4 DEF RequestInv

\* So is one of a session.
LEMMA SessionFailsRequest ==
  ASSUME RequestInv, NEW c \in Callers, SessionFails(c)
  PROVE  RequestInv'
<1> DEFINE l == list[c]
           r == [l EXCEPT !.pc = "done", !.reply = "raised"]
<1>1. ListSound(l)
  BY DEF RequestInv, CatalogInv
<1>2. list' = [list EXCEPT ![c] = r] /\ failed' = TRUE /\ rotated' = rotated /\ UNCHANGED exchangeVars
  BY DEF SessionFails, Fails, Quiet
<1>3. /\ DOMAIN r = ListFields /\ r.pc = "done" /\ r.reply = "raised"
      /\ r.client = l.client /\ r.request = l.request
  BY <1>1 DEF ListSound, ListFields
<1> HIDE DEF r
<1>4. ListSound(r)
  BY <1>1, <1>3 DEF ListSound, DoneSound, Asking
<1>5. CatalogInv'
  BY <1>2, <1>4, OneRequest DEF RequestInv, exchangeVars
<1>6. QED
  BY <1>2, <1>5, ExchangeAlone

\* Another credential is a failure to come.
LEMMA RotateRequest ==
  ASSUME RequestInv, NEW b, Rotate(b)
  PROVE  RequestInv'
<1>1. failed' = TRUE /\ UNCHANGED <<list, exchangeVars>>
  BY DEF Rotate, Quiet
<1>2. \A d \in Callers : ListSound(list[d])'
  BY <1>1 DEF RequestInv, CatalogInv, ListSound, ListingSound, DoneSound, Unserved, Labelled, Shown,
     Asked
<1>3. CatalogInv'
  BY <1>1, <1>2 DEF RequestInv, CatalogInv, FailedInv
<1>4. QED
  BY <1>1, <1>3, ExchangeAlone

\* Time passes for credentials only.
LEMMA TickRequest ==
  ASSUME RequestInv, Tick, UNCHANGED <<list, rotated, failed>>
  PROVE  RequestInv'
<1>1. ExchangeInv' /\ UNCHANGED credential
  BY TickKeeps DEF RequestInv, Tick
<1>2. \A d \in Callers : ListSound(list[d])'
  BY DEF RequestInv, CatalogInv, ListSound, ListingSound, DoneSound, Unserved, Labelled, Shown, Asked
<1>3. QED
  BY <1>1, <1>2 DEF RequestInv, CatalogInv, FailedInv

\* Every step of the whole keeps requests and credentials sound.
LEMMA NextKeepsRequests ==
  ASSUME RequestInv, [Next]_allVars
  PROVE  RequestInv'
<1>1. CASE UNCHANGED allVars
  BY <1>1, RequestsAlone DEF allVars, catalogVars
<1>2. ASSUME NEW c \in Callers, Continues(c) PROVE RequestInv'
  <2>1. CASE Serves(c)
    BY <2>1, ServeRequest DEF Serves
  <2>2. CASE OtherAnswered(c) \/ Catalogued(c)
    BY <2>2, AnsweredRequest DEF OtherAnswered, Catalogued
  <2>3. CASE FinalAnswer(c) \/ AsksForTools(c) \/ PassesOver(c) \/ Decided(c) \/ Iterates(c)
             \/ TurnEnds(c)
    <3>1. UNCHANGED <<exchangeVars, list, rotated, failed>>
      BY <2>3 DEF FinalAnswer, AsksForTools, PassesOver, Decided, Iterates, TurnEnds, Completes,
         SetsTurn, Below, Quiet, catalogVars
    <3>2. QED
      BY <3>1, RequestsAlone
  <2>4. ASSUME NEW tool \in Tools, CallsTool(c, tool) PROVE RequestInv'
    <3>1. UNCHANGED <<exchangeVars, list, rotated, failed>>
      BY <2>4 DEF CallsTool, SetsTurn, Below, catalogVars
    <3>2. QED
      BY <3>1, RequestsAlone
  <2>5. QED
    BY <1>2, <2>1, <2>2, <2>3, <2>4 DEF Continues, Turns
<1>3. ASSUME NEW c \in Callers, Starts(c) PROVE RequestInv'
  <2>1. PICK request : Submit(c, request)
    BY <1>3 DEF Starts, RouteAndRun, OtherRequest
  <2>2. UNCHANGED exchangeVars
    BY <2>1 DEF Submit, Quiet
  <2>3. QED
    BY <2>1, <2>2, SubmitKeeps, ExchangeAlone DEF RequestInv
<1>4. CASE Changes \/ Synchronizes \/ Restarts
  BY <1>4, RequestsAlone DEF Changes, Synchronizes, Restarts, ExchangeAndCatalogRest, catalogVars
<1>5. CASE Failures
  <2>1. ASSUME NEW c \in Callers, ServeFails(c) PROVE RequestInv'
    BY <2>1, CredentialFailsRequest, SessionFailsRequest DEF ServeFails
  <2>2. ASSUME NEW c \in Callers, TurnFails(c) PROVE RequestInv'
    BY <2>2, RequestsAlone DEF TurnFails, SetsTurn, Below, catalogVars
  <2>3. ASSUME ExchangeAndCatalogRest PROVE RequestInv'
    BY <2>3, RequestsAlone DEF ExchangeAndCatalogRest, catalogVars
  <2>4. QED
    BY <1>5, <2>1, <2>2, <2>3, RotateRequest DEF Failures
<1>6. CASE Ticks
  BY <1>6, TickRequest DEF Ticks, catalogVars
<1>7. QED
  BY <1>1, <1>2, <1>3, <1>4, <1>5, <1>6 DEF Next

\* Initially nobody asks.
LEMMA RequestsInitially == Init => RequestInv
<1> SUFFICES ASSUME Init PROVE RequestInv
  OBVIOUS
<1>1. ExchangeInv
  BY ExchangeInitially DEF Init
<1>2. /\ DOMAIN list = Callers /\ failed = FALSE /\ rotated = {}
      /\ \A c \in Callers : list[c] = NoRequest /\ credential[c] = NoCredential
  BY DEF Init, InitCatalog, InitExchange
<1>3. NoRequest.reply # "raised" /\ NoCredential.pc # "raised"
  BY NoRequestSound, AbsentAssumption DEF NoCredential
<1>4. CatalogInv
  BY <1>2, <1>3, NoRequestSound DEF CatalogInv, FailedInv
<1>5. QED
  BY <1>1, <1>4 DEF RequestInv

\* What is sound is exact, served as it is labelled, and fresh.
LEMMA SoundRequests ==
  RequestInv => ReusedIsFresh /\ ListsAreExact /\ ServedAsLabelled /\ OnlyFailuresRaise
<1> SUFFICES ASSUME RequestInv
             PROVE  ReusedIsFresh /\ ListsAreExact /\ ServedAsLabelled /\ OnlyFailuresRaise
  OBVIOUS
<1>1. ReusedIsFresh
  BY DEF RequestInv, ExchangeInv, CallersInv, Fresh, ReusedIsFresh
<1>2. ListsAreExact
  <2> SUFFICES ASSUME NEW c \in Callers, list[c].pc = "done", list[c].reply = "listed"
               PROVE  list[c].tools = list[c].truth \cap
                          UNION {Offers[b] : b \in DistinctBackendsFor(list[c].truth) \ list[c].skipped}
    BY DEF ListsAreExact
  <2>1. list[c].todo = {} /\ Shown(list[c])
    BY DEF RequestInv, CatalogInv, ListSound, DoneSound
  <2>2. Asked(list[c]) = DistinctBackendsFor(list[c].truth) \ list[c].skipped
    BY <2>1 DEF Asked, Asking
  <2>3. QED
    BY <2>1, <2>2 DEF Shown
<1>3. ServedAsLabelled
  <2> SUFFICES ASSUME NEW c \in Callers, list[c].reply \in {"listed", "call"}
               PROVE  LET header == list[c].request.header
                          body == list[c].request.body
                      IN  /\ header.method \in {Absent, body.method}
                          /\ list[c].reply = "call" /\ body.name # Absent
                                 => header.name \in {Absent, body.name}
    BY DEF ServedAsLabelled
  <2>1. ListSound(list[c]) /\ list[c].reply # Absent
    BY AbsentAssumption DEF RequestInv, CatalogInv
  <2>2. /\ Labelled(list[c])
        /\ list[c].reply = "listed" => list[c].request.body.method = "tools/list"
        /\ list[c].reply = "call" => list[c].request.body.method = "tools/call"
    BY <2>1 DEF ListSound, DoneSound
  <2>3. list[c].request.body.method # Absent
    BY <2>2, AbsentAssumption
  <2>4. QED
    BY <2>2, <2>3 DEF Labelled, Mismatch, NameBearing
<1>4. OnlyFailuresRaise
  BY DEF RequestInv, CatalogInv, FailedInv, OnlyFailuresRaise
<1>5. QED
  BY <1>1, <1>2, <1>3, <1>4

\* Requests and credentials stay sound.
THEOREM RequestInvariance == Spec => []RequestInv
<1>1. RequestInv /\ [Next]_allVars => RequestInv'
  BY NextKeepsRequests
<1>2. QED
  BY <1>1, RequestsInitially, PTL DEF Spec

\* Whatever requests share the cache with, a token handed out again is fresh.
THEOREM FreshInRequests == Spec => []ReusedIsFresh
BY RequestInvariance, SoundRequests, PTL

\* tools/list answers with exactly what the client was entitled to when it was
\* served, however long the backends took and whatever changed meanwhile.
THEOREM ExactLists == Spec => []ListsAreExact
BY RequestInvariance, SoundRequests, PTL

\* No handler runs under headers that say otherwise.
THEOREM HonestLabels == Spec => []ServedAsLabelled
BY RequestInvariance, SoundRequests, PTL

\* Without a failure below, no request raises.
THEOREM NoOtherRaise == Spec => []OnlyFailuresRaise
BY RequestInvariance, SoundRequests, PTL

(***************************************************************************)
(* Turns: what a turn was shown and what its calls are decided on agree    *)
(* while it is calm.  Calm begins settled, so OPA has what the manager has *)
(* (Entitlement's invariant); nothing but a load, a revocation or a      *)
(* restart of OPA can change that, and each of them ends every calm.       *)
(* In between there is one truth about the client, and catalog, refusals,  *)
(* allowed tools and the audited content are all judged by it.             *)
(***************************************************************************)

TurnFields == {"pc", "agent", "catalog", "iteration", "asked", "tool", "profile", "audited",
               "decided", "reply", "calm", "refusals", "allowed"}

ClientOfTurn(t) == ClientOf(Agents[t.agent])

\* A list that is being served for a turn is asked by its agent.
AwaitsList(t, l) ==
    /\ l.request.bearer = Agents[t.agent]
    /\ t.catalog = {} /\ t.refusals = {} /\ t.allowed = {} /\ t.audited = {} /\ t.decided = {}
    /\ t.calm => l.truth \subseteq Truth(ClientOfTurn(t))

\* Under calm a turn knows nothing but the truth.
KnowsTruth(t) ==
    /\ t.catalog \subseteq Truth(ClientOfTurn(t))
    /\ t.refusals \cap Truth(ClientOfTurn(t)) = {}
    /\ t.allowed \subseteq Truth(ClientOfTurn(t))

\* The call under way is decided by the profile that resolve returned.
AwaitsDecision(t) ==
    /\ Resolves(ClientOfTurn(t))
    /\ t.profile = registered[ClientOfTurn(t)]
    /\ t.audited = loaded[t.profile]

TurnSound(t, l) ==
    /\ DOMAIN t = TurnFields
    /\ t.calm => settled
    /\ t.pc = "list" => AwaitsList(t, l)
    /\ t.calm /\ t.pc \notin {"idle", "list"} => KnowsTruth(t)
    /\ t.calm /\ t.pc = "decide" => AwaitsDecision(t)
    /\ t.calm /\ t.pc \in {"llm", "calls"} => t.decided = t.audited

TurnInv == DOMAIN turn = Callers /\ \A c \in Callers : TurnSound(turn[c], list[c])

\* A turn that is over, or has only begun, is sound.
LEMMA NoTurnSound == \A l : TurnSound(NoTurn, l)
BY DEF NoTurn, TurnSound, TurnFields

\* What a caller does is judged by its own record and its own request.
LEMMA OneTurn ==
  ASSUME TurnInv, NEW c \in Callers, NEW r, NEW l, turn' = [turn EXCEPT ![c] = r],
         UNCHANGED <<registered, loaded, settled>>,
         list'[c] = l, \A d \in Callers \ {c} : list'[d] = list[d], TurnSound(r, l)
  PROVE  TurnInv'
<1>1. DOMAIN turn' = Callers /\ turn'[c] = r /\ \A d \in Callers \ {c} : turn'[d] = turn[d]
  BY DEF TurnInv
<1>2. TurnSound(turn[c], list[c])'
  BY <1>1 DEF TurnSound, AwaitsList, KnowsTruth, AwaitsDecision, Truth, Resolves, ClientOfTurn
<1>3. ASSUME NEW d \in Callers \ {c} PROVE TurnSound(turn[d], list[d])'
  <2>1. TurnSound(turn[d], list[d]) /\ turn'[d] = turn[d] /\ list'[d] = list[d]
    BY <1>1 DEF TurnInv
  <2>2. QED
    BY <2>1 DEF TurnSound, AwaitsList, KnowsTruth, AwaitsDecision, Truth, Resolves, ClientOfTurn
<1>4. QED
  BY <1>1, <1>2, <1>3 DEF TurnInv

\* As long as registrations and profiles are as they were, and what was settled is,
\* turns stay sound that do not move, whatever requests are served beside them.
LEMMA TurnsAlone ==
  ASSUME TurnInv, UNCHANGED <<registered, loaded, turn>>, settled => settled',
         \A c \in Callers : turn[c].pc = "list" =>
             list'[c].request = list[c].request /\ list'[c].truth = list[c].truth
  PROVE  TurnInv'
<1>1. ASSUME NEW c \in Callers PROVE TurnSound(turn[c], list[c])'
  <2>1. TurnSound(turn[c], list[c])
    BY DEF TurnInv
  <2>2. QED
    BY <2>1 DEF TurnSound, AwaitsList, KnowsTruth, AwaitsDecision, Truth, Resolves, ClientOfTurn
<1>2. QED
  BY <1>1 DEF TurnInv

\* A record of a turn under way, and where it is from.
LEMMA SetsTurnKeeps ==
  ASSUME TurnInv, NEW c \in Callers, NEW r, turn' = [turn EXCEPT ![c] = r],
         UNCHANGED <<registered, loaded, settled, list>>, TurnSound(r, list[c])
  PROVE  TurnInv'
BY OneTurn

(***************************************************************************)
(* What changes ends the calm.                                             *)
(***************************************************************************)

\* Without calm nothing is claimed but what a waiting turn waits for.
LEMMA CalmEnds ==
  ASSUME TurnInv, UNCHANGED list, turn' = [c \in Callers |-> [turn[c] EXCEPT !.calm = FALSE]]
  PROVE  TurnInv'
<1>1. ASSUME NEW c \in Callers PROVE TurnSound(turn[c], list[c])'
  <2> DEFINE t == turn[c]
             r == [t EXCEPT !.calm = FALSE]
  <2>1. TurnSound(t, list[c]) /\ turn'[c] = r /\ list'[c] = list[c]
    BY DEF TurnInv
  <2>2. /\ DOMAIN r = TurnFields /\ r.calm = FALSE /\ r.pc = t.pc /\ r.agent = t.agent
        /\ r.catalog = t.catalog /\ r.refusals = t.refusals /\ r.allowed = t.allowed
        /\ r.audited = t.audited /\ r.decided = t.decided
    BY <2>1 DEF TurnSound, TurnFields
  <2> HIDE DEF r
  <2>3. QED
    BY <2>1, <2>2 DEF TurnSound, AwaitsList
<1>2. QED
  BY <1>1 DEF TurnInv

(***************************************************************************)
(* The list of a turn.                                                     *)
(***************************************************************************)

\* Whoever makes a request waits for its list.
LEMMA RouteAndRunKeeps ==
  ASSUME RequestInv, TurnInv, NEW c \in Callers, NEW current, NEW routed,
         RouteAndRun(c, current, routed)
  PROVE  TurnInv'
<1> DEFINE agent == Target(current, routed)
           labels == [method |-> "tools/list", name |-> Absent]
           request == [bearer |-> Agents[agent], header |-> labels, body |-> labels]
           r == [NoTurn EXCEPT !.pc = "list", !.agent = agent]
           l == [NoRequest EXCEPT !.pc = "gate", !.request = request]
<1>1. turn' = [turn EXCEPT ![c] = r] /\ list' = [list EXCEPT ![c] = l]
      /\ UNCHANGED <<registered, loaded, settled>>
  BY DEF RouteAndRun, Submit, SetsList, Quiet, entitlementVars
<1>2. l.request.bearer = Agents[agent]
  BY DEF NoRequest
<1>3. /\ DOMAIN r = TurnFields /\ r.pc = "list" /\ r.agent = agent /\ r.calm = FALSE
      /\ r.catalog = {} /\ r.refusals = {} /\ r.allowed = {} /\ r.audited = {} /\ r.decided = {}
  BY DEF NoTurn, TurnFields
<1> HIDE DEF agent, r, l
<1>4. TurnSound(r, l)
  BY <1>2, <1>3 DEF TurnSound, AwaitsList
<1>5. list'[c] = l /\ \A d \in Callers \ {c} : list'[d] = list[d]
  BY <1>1 DEF RequestInv, CatalogInv
<1>6. QED
  BY <1>1, <1>4, <1>5, OneTurn

\* A step of a request that was served before leaves the truth it was served by.
LEMMA ServeTruth ==
  ASSUME RequestInv, NEW c \in Callers, Serve(c)
  PROVE  /\ list'[c].request = list[c].request
         /\ list[c].pc # "serve" => list'[c].truth = list[c].truth
         /\ list[c].pc = "serve" => \/ list'[c].truth = {}
                                    \/ list'[c].truth = Truth(ClientOf(list[c].request.bearer))
         /\ \A d \in Callers \ {c} : list'[d] = list[d]
<1> DEFINE l == list[c]
<1>1. ListSound(l) /\ DOMAIN list = Callers
  BY DEF RequestInv, CatalogInv
<1>2. ASSUME NEW reply, Ends(c, reply)
      PROVE  /\ list'[c].request = l.request /\ list'[c].truth = l.truth
             /\ \A d \in Callers \ {c} : list'[d] = list[d]
  BY <1>1, <1>2 DEF Ends, SetsList, ListSound, ListFields
<1>3. l.pc = "serve" => l.truth = {}
  BY <1>1 DEF ListSound, Unserved
<1>4. CASE HeaderBodyMismatch(c) \/ Unauthorized(c) \/ Invalid(c) \/ Call(c) \/ EmptyList(c)
           \/ CredentialRaises(c) \/ GateRejects(c) \/ Listed(c)
  BY <1>2, <1>3, <1>4 DEF HeaderBodyMismatch, Unauthorized, Invalid, Call, EmptyList,
     CredentialRaises, GateRejects, Listed
<1>5. CASE Replayed(c) \/ Authorized(c)
  BY <1>1, <1>3, <1>5 DEF Replayed, Authorized, SetsList, ListSound, ListFields
<1>6. CASE Skipped(c) \/ Connects(c) \/ SessionLists(c)
  BY <1>1, <1>3, <1>6 DEF Skipped, Connects, SessionLists, SetsList, ListSound, ListFields
<1>7. CASE CredentialForBackend(c)
  BY <1>1, <1>3, <1>7 DEF CredentialForBackend, SetsList, ListSound, ListFields
<1>8. CASE AwaitsCredential(c)
  BY <1>3, <1>8 DEF AwaitsCredential, catalogVars
<1>9. CASE ResolveForList(c)
  <2>1. l.client = ClientOf(l.request.bearer) /\ l.pc = "serve"
    BY <1>1, <1>9 DEF ResolveForList, Lists, ListSound
  <2>2. list'[c].request = l.request /\ list'[c].truth = Truth(l.client)
        /\ \A d \in Callers \ {c} : list'[d] = list[d]
    BY <1>1, <1>9 DEF ResolveForList, SetsList, ListSound, ListFields
  <2>3. QED
    BY <2>1, <2>2
<1>10. QED
  BY <1>4, <1>5, <1>6, <1>7, <1>8, <1>9 DEF Serve

\* Neither registrations nor profiles nor what is settled change by serving.
LEMMA ServeLeaves ==
  ASSUME NEW c \in Callers, Serve(c)
  PROVE  UNCHANGED <<registered, loaded, settled>>
BY DEF Serve, HeaderBodyMismatch, Replayed, Unauthorized, Authorized, Invalid, Call, EmptyList,
   ResolveForList, Resolve, CredentialForBackend, AwaitsCredential, Skipped, CredentialRaises,
   Connects, SessionLists, GateRejects, Listed, Quiet, entitlementVars

\* Calm begins with the truth of the moment the list is served.
LEMMA ServesKeeps ==
  ASSUME RequestInv, TurnInv, NEW c \in Callers, Serves(c)
  PROVE  TurnInv'
<1> DEFINE t == turn[c]
           l == list[c]
<1>1. Serve(c) /\ UNCHANGED <<registered, loaded, settled>>
  BY ServeLeaves DEF Serves
<1>2. TurnSound(t, l)
  BY DEF TurnInv
<1>3. CASE t.pc = "list" /\ l.pc = "serve"
  <2> DEFINE r == [t EXCEPT !.calm = settled]
             m == list'[c]
  <2>1. turn' = [turn EXCEPT ![c] = r]
    BY <1>3 DEF Serves, TurnInv
  <2>2. /\ DOMAIN r = TurnFields /\ r.pc = "list" /\ r.agent = t.agent /\ r.calm = settled
        /\ r.catalog = t.catalog /\ r.refusals = t.refusals /\ r.allowed = t.allowed
        /\ r.audited = t.audited /\ r.decided = t.decided
    BY <1>2, <1>3 DEF TurnSound, TurnFields
  <2> HIDE DEF r
  <2>3. l.request.bearer = Agents[t.agent]
    BY <1>2, <1>3 DEF TurnSound, AwaitsList
  <2>4. m.request = l.request /\ m.truth \subseteq Truth(ClientOfTurn(t))
    BY <1>1, <1>3, <2>3, ServeTruth DEF ClientOfTurn
  <2>5. AwaitsList(r, m)
    BY <1>2, <1>3, <2>2, <2>3, <2>4 DEF TurnSound, AwaitsList, ClientOfTurn
  <2>6. TurnSound(r, m)
    BY <2>2, <2>5 DEF TurnSound
  <2>7. \A d \in Callers \ {c} : list'[d] = list[d]
    BY <1>1, ServeTruth
  <2> HIDE DEF m
  <2>8. m = list'[c]
    BY DEF m
  <2>9. QED
    BY <1>1, <2>1, <2>6, <2>7, <2>8, OneTurn
<1>4. CASE ~(t.pc = "list" /\ l.pc = "serve")
  <2>1. UNCHANGED turn
    BY <1>4 DEF Serves
  <2>2. \A d \in Callers : turn[d].pc = "list" =>
            list'[d].request = list[d].request /\ list'[d].truth = list[d].truth
    BY <1>1, <1>4, ServeTruth
  <2>3. QED
    BY <1>1, <2>1, <2>2, TurnsAlone
<1>5. QED
  BY <1>3, <1>4

\* A turn is shown the truth if it is calm.
LEMMA CataloguedKeeps ==
  ASSUME RequestInv, TurnInv, NEW c \in Callers, Catalogued(c)
  PROVE  TurnInv'
<1> DEFINE t == turn[c]
           l == list[c]
           shown == [t EXCEPT !.pc = "llm", !.catalog = l.tools]
           raised == [t EXCEPT !.pc = "done", !.reply = "raised"]
<1>1. /\ TurnSound(t, l) /\ AwaitsList(t, l) /\ l.pc = "done"
      /\ UNCHANGED <<registered, loaded, settled>>
  BY DEF TurnInv, TurnSound, Catalogued, Answered, entitlementVars
<1>2. list'[c] = NoRequest /\ \A d \in Callers \ {c} : list'[d] = list[d]
  BY DEF Catalogued, Answered, SetsList, RequestInv, CatalogInv
<1>3. CASE l.reply = "listed"
  <2>1. turn' = [turn EXCEPT ![c] = shown]
    BY <1>3 DEF Catalogued
  <2>2. /\ DOMAIN shown = TurnFields /\ shown.pc = "llm" /\ shown.catalog = l.tools
        /\ shown.agent = t.agent /\ shown.calm = t.calm /\ shown.refusals = t.refusals
        /\ shown.allowed = t.allowed /\ shown.audited = t.audited /\ shown.decided = t.decided
    BY <1>1 DEF TurnSound, TurnFields
  <2> HIDE DEF shown
  <2>3. l.tools \subseteq l.truth
    BY <1>1, <1>3, SoundRequests DEF ListsAreExact
  <2>4. t.calm => KnowsTruth(shown)
    BY <1>1, <2>2, <2>3 DEF AwaitsList, KnowsTruth, ClientOfTurn
  <2>5. TurnSound(shown, NoRequest)
    BY <1>1, <2>2, <2>4 DEF TurnSound, AwaitsList
  <2>6. QED
    BY <1>1, <1>2, <2>1, <2>5, OneTurn
<1>4. CASE l.reply # "listed"
  <2>1. turn' = [turn EXCEPT ![c] = raised]
    BY <1>4 DEF Catalogued
  <2>2. /\ DOMAIN raised = TurnFields /\ raised.pc = "done" /\ raised.catalog = t.catalog
        /\ raised.agent = t.agent /\ raised.calm = t.calm /\ raised.refusals = t.refusals
        /\ raised.allowed = t.allowed
    BY <1>1 DEF TurnSound, TurnFields
  <2> HIDE DEF raised
  <2>3. TurnSound(raised, NoRequest)
    BY <1>1, <2>2 DEF TurnSound, AwaitsList, KnowsTruth
  <2>4. QED
    BY <1>1, <1>2, <2>1, <2>3, OneTurn
<1>5. QED
  BY <1>3, <1>4

(***************************************************************************)
(* The calls of a turn.                                                    *)
(***************************************************************************)

\* A record that differs in nothing that is claimed.
SameKnowledge(r, t) ==
    /\ DOMAIN r = TurnFields /\ r.agent = t.agent /\ r.calm = t.calm
    /\ r.catalog = t.catalog /\ r.refusals = t.refusals /\ r.allowed = t.allowed

\* A turn that goes on without a decision knows what it knew.
LEMMA KnowledgeKeeps ==
  ASSUME NEW t, NEW l, NEW r, TurnSound(t, l), t.pc \notin {"idle", "list"}, SameKnowledge(r, t),
         r.pc \in {"done"} \/ (r.pc \in {"llm", "calls"} /\ t.pc \in {"llm", "calls"}
                              /\ r.audited = t.audited /\ r.decided = t.decided)
  PROVE  TurnSound(r, l)
BY DEF TurnSound, SameKnowledge, KnowsTruth, ClientOfTurn

\* The model answers, asks, or is not asked again; a call is passed over.
LEMMA GoesOnTurn ==
  ASSUME TurnInv, NEW c \in Callers,
         FinalAnswer(c) \/ AsksForTools(c) \/ PassesOver(c) \/ Iterates(c) \/ TurnFails(c)
  PROVE  TurnInv'
<1> DEFINE t == turn[c]
<1>1. TurnSound(t, list[c]) /\ DOMAIN t = TurnFields
  BY DEF TurnInv, TurnSound
<1>2. UNCHANGED <<registered, loaded, settled, list>>
  BY DEF FinalAnswer, AsksForTools, PassesOver, Iterates, TurnFails, Completes, SetsTurn, Below,
     Quiet, entitlementVars, catalogVars
<1>3. ASSUME NEW reply, t.pc \notin {"idle", "list"},
             turn' = [turn EXCEPT ![c].pc = "done", ![c].reply = reply]
      PROVE  TurnInv'
  <2> DEFINE r == [t EXCEPT !.pc = "done", !.reply = reply]
  <2>1. turn' = [turn EXCEPT ![c] = r]
    BY <1>1, <1>3 DEF TurnInv
  <2>2. SameKnowledge(r, t) /\ r.pc = "done"
    BY <1>1 DEF SameKnowledge, TurnFields
  <2> HIDE DEF r
  <2>3. TurnSound(r, list[c])
    BY <1>1, <1>3, <2>2, KnowledgeKeeps
  <2>4. QED
    BY <1>2, <2>1, <2>3, SetsTurnKeeps
<1>4. ASSUME NEW r, turn' = [turn EXCEPT ![c] = r], SameKnowledge(r, t),
             r.pc \in {"llm", "calls"}, t.pc \in {"llm", "calls"},
             r.audited = t.audited, r.decided = t.decided
      PROVE  TurnInv'
  BY <1>1, <1>2, <1>4, KnowledgeKeeps, SetsTurnKeeps
<1>5. CASE FinalAnswer(c)
  BY <1>3, <1>5 DEF FinalAnswer, Completes
<1>6. CASE AsksForTools(c)
  <2>1. PICK n : t.pc = "llm" /\ turn' = [turn EXCEPT ![c] = [t EXCEPT !.pc = "calls", !.asked = n]]
    BY <1>6 DEF AsksForTools, SetsTurn
  <2> DEFINE r == [t EXCEPT !.pc = "calls", !.asked = n]
  <2>2. /\ SameKnowledge(r, t) /\ r.pc = "calls"
        /\ r.audited = t.audited /\ r.decided = t.decided
    BY <1>1 DEF SameKnowledge, TurnFields
  <2>3. turn' = [turn EXCEPT ![c] = r]
    BY <2>1
  <2> HIDE DEF r
  <2>4. QED
    BY <1>4, <2>1, <2>2, <2>3
<1>7. CASE PassesOver(c)
  <2> DEFINE r == [t EXCEPT !.asked = t.asked - 1]
  <2>1. t.pc = "calls" /\ turn' = [turn EXCEPT ![c] = r]
    BY <1>7 DEF PassesOver, SetsTurn
  <2>2. /\ SameKnowledge(r, t) /\ r.pc = "calls"
        /\ r.audited = t.audited /\ r.decided = t.decided
    BY <1>1, <2>1 DEF SameKnowledge, TurnFields
  <2> HIDE DEF r
  <2>3. QED
    BY <1>4, <2>1, <2>2
<1>8. CASE Iterates(c)
  <2> DEFINE next == t.iteration + 1
  <2>1. CASE next < MaxIterations
    <3> DEFINE r == [t EXCEPT !.pc = "llm", !.iteration = next]
    <3>1. t.pc = "calls" /\ turn' = [turn EXCEPT ![c] = r]
      BY <1>8, <2>1 DEF Iterates, SetsTurn
    <3>2. /\ SameKnowledge(r, t) /\ r.pc = "llm"
          /\ r.audited = t.audited /\ r.decided = t.decided
      BY <1>1 DEF SameKnowledge, TurnFields
    <3> HIDE DEF r
    <3>3. QED
      BY <1>4, <3>1, <3>2
  <2>2. CASE ~(next < MaxIterations)
    BY <1>3, <1>8, <2>2 DEF Iterates, Completes
  <2>3. QED
    BY <2>1, <2>2
<1>9. CASE TurnFails(c)
  <2>1. t.pc \in {"llm", "decide"}
        /\ turn' = [turn EXCEPT ![c] = [t EXCEPT !.pc = "done", !.reply = "raised"]]
    BY <1>9 DEF TurnFails, SetsTurn
  <2>2. turn' = [turn EXCEPT ![c].pc = "done", ![c].reply = "raised"]
    BY <1>1, <2>1 DEF TurnInv
  <2>3. QED
    BY <1>3, <2>1, <2>2
<1>10. QED
  BY <1>5, <1>6, <1>7, <1>8, <1>9

\* A call goes to its decision with what resolve has of the client in this moment.
LEMMA CallsToolKeeps ==
  ASSUME TurnInv, NEW c \in Callers, NEW tool, CallsTool(c, tool)
  PROVE  TurnInv'
<1> DEFINE t == turn[c]
           bearer == Agents[t.agent]
           client == ClientOf(bearer)
           u == [t EXCEPT !.tool = tool]
<1>1. TurnSound(t, list[c]) /\ DOMAIN t = TurnFields /\ t.pc = "calls"
  BY DEF TurnInv, TurnSound, CallsTool
<1>2. UNCHANGED <<registered, loaded, settled, list>>
  BY DEF CallsTool, SetsTurn, Below, Resolve, entitlementVars, catalogVars
<1>3. CASE AuthConfigured /\ ~Validates(bearer)
  <2> DEFINE r == [u EXCEPT !.pc = "done", !.reply = "raised"]
  <2>1. turn' = [turn EXCEPT ![c] = r]
    BY <1>3 DEF CallsTool, SetsTurn
  <2>2. SameKnowledge(r, t) /\ r.pc = "done"
    BY <1>1 DEF SameKnowledge, TurnFields
  <2> HIDE DEF r
  <2>3. QED
    BY <1>1, <1>2, <2>1, <2>2, KnowledgeKeeps, SetsTurnKeeps
<1>4. CASE ~(AuthConfigured /\ ~Validates(bearer)) /\ (~AuthConfigured \/ ~Resolves(client))
  <2> DEFINE r == [u EXCEPT !.asked = u.asked - 1]
  <2>1. turn' = [turn EXCEPT ![c] = r]
    BY <1>4 DEF CallsTool, SetsTurn
  <2>2. /\ SameKnowledge(r, t) /\ r.pc = "calls"
        /\ r.audited = t.audited /\ r.decided = t.decided
    BY <1>1 DEF SameKnowledge, TurnFields
  <2> HIDE DEF r
  <2>3. QED
    BY <1>1, <1>2, <2>1, <2>2, KnowledgeKeeps, SetsTurnKeeps
<1>5. CASE ~(AuthConfigured /\ ~Validates(bearer)) /\ ~(~AuthConfigured \/ ~Resolves(client))
  <2> DEFINE r == [u EXCEPT !.pc = "decide", !.profile = cache'[client].profile,
                            !.audited = cache'[client].allowed_tools]
  <2>1. Resolve(client) /\ turn' = [turn EXCEPT ![c] = r]
    BY <1>5 DEF CallsTool
  <2>2. cache'[client] = [profile |-> registered[client], allowed_tools |-> loaded[registered[client]]]
    BY <2>1 DEF Resolve, With, Resolved
  <2>3. SameKnowledge(r, t) /\ r.pc = "decide" /\ r.profile = registered[client]
        /\ r.audited = loaded[registered[client]]
    BY <1>1, <2>2 DEF SameKnowledge, TurnFields
  <2> HIDE DEF r
  <2>4. AwaitsDecision(r)
    BY <2>1, <2>3 DEF AwaitsDecision, SameKnowledge, ClientOfTurn, Resolve
  <2>5. TurnSound(r, list[c])
    BY <1>1, <2>3, <2>4 DEF TurnSound, SameKnowledge, KnowsTruth, ClientOfTurn
  <2>6. QED
    BY <1>2, <2>1, <2>5, SetsTurnKeeps
<1>6. QED
  BY <1>3, <1>4, <1>5

\* While it is calm OPA decides a call by the truth, which is also what is audited.
LEMMA DecidedKeeps ==
  ASSUME EntitlementInv, TurnInv, NEW c \in Callers, Decided(c)
  PROVE  TurnInv'
<1> DEFINE t == turn[c]
           entitled == IF t.profile \in DOMAIN opa THEN opa[t.profile] ELSE {}
           allows == t.tool \in entitled
           r == [t EXCEPT !.pc = "calls", !.asked = t.asked - 1, !.decided = entitled,
                          !.allowed = IF allows THEN t.allowed \cup {t.tool} ELSE t.allowed,
                          !.refusals = IF allows THEN t.refusals ELSE t.refusals \cup {t.tool}]
<1>1. TurnSound(t, list[c]) /\ DOMAIN t = TurnFields /\ t.pc = "decide"
  BY DEF TurnInv, TurnSound, Decided
<1>2. UNCHANGED <<registered, loaded, settled, list>>
  BY DEF Decided, SetsTurn, Below, entitlementVars, catalogVars
<1>3. turn' = [turn EXCEPT ![c] = r]
  <2>1. turn' = [turn EXCEPT ![c] =
          IF allows THEN [[t EXCEPT !.pc = "calls", !.asked = t.asked - 1, !.decided = entitled]
                             EXCEPT !.allowed = @ \cup {t.tool}]
                    ELSE [[t EXCEPT !.pc = "calls", !.asked = t.asked - 1, !.decided = entitled]
                             EXCEPT !.refusals = @ \cup {t.tool}]]
    BY DEF Decided, SetsTurn
  <2> HIDE DEF entitled
  <2>2. CASE allows
    BY <1>1, <2>1, <2>2 DEF TurnFields
  <2>3. CASE ~allows
    BY <1>1, <2>1, <2>3 DEF TurnFields
  <2>4. QED
    BY <2>2, <2>3
<1>4. /\ DOMAIN r = TurnFields /\ r.pc = "calls" /\ r.agent = t.agent /\ r.calm = t.calm
      /\ r.catalog = t.catalog /\ r.audited = t.audited /\ r.decided = entitled
      /\ r.allowed = IF allows THEN t.allowed \cup {t.tool} ELSE t.allowed
      /\ r.refusals = IF allows THEN t.refusals ELSE t.refusals \cup {t.tool}
  BY <1>1 DEF TurnFields
<1> HIDE DEF r
<1>5. t.calm => entitled = Truth(ClientOfTurn(t)) /\ entitled = t.audited
  <2> SUFFICES ASSUME t.calm PROVE entitled = Truth(ClientOfTurn(t)) /\ entitled = t.audited
    OBVIOUS
  <2>1. AwaitsDecision(t) /\ settled
    BY <1>1 DEF TurnSound
  <2>2. t.profile \in DOMAIN opa /\ opa[t.profile] = loaded[t.profile]
    BY <2>1 DEF AwaitsDecision, Resolves, EntitlementInv, SettledInv, Agrees
  <2>3. QED
    BY <2>1, <2>2 DEF AwaitsDecision, Resolves, Truth
<1> HIDE DEF entitled
<1>6. t.calm => KnowsTruth(r)
  BY <1>1, <1>4, <1>5 DEF TurnSound, KnowsTruth, ClientOfTurn
<1>7. TurnSound(r, list[c])
  BY <1>1, <1>4, <1>5, <1>6 DEF TurnSound
<1>8. QED
  BY <1>2, <1>3, <1>7, SetsTurnKeeps

\* A turn that has ended is none.
LEMMA TurnEndsKeeps ==
  ASSUME TurnInv, NEW c \in Callers, TurnEnds(c)
  PROVE  TurnInv'
<1>1. turn' = [turn EXCEPT ![c] = NoTurn] /\ UNCHANGED <<registered, loaded, settled, list>>
  BY DEF TurnEnds, Quiet, entitlementVars
<1>2. QED
  BY <1>1, NoTurnSound, SetsTurnKeeps

(***************************************************************************)
(* Every step.                                                             *)
(***************************************************************************)

\* The steps of a caller by itself.
LEMMA ContinuesKeeps ==
  ASSUME EntitlementInv, RequestInv, TurnInv, NEW c \in Callers, Continues(c)
  PROVE  TurnInv'
<1>1. CASE OtherAnswered(c)
  <2>1. turn[c].pc = "idle" /\ UNCHANGED <<registered, loaded, settled, turn>>
        /\ \A d \in Callers \ {c} : list'[d] = list[d]
    BY <1>1 DEF OtherAnswered, Answered, SetsList, entitlementVars, RequestInv, CatalogInv
  <2>2. QED
    BY <2>1, TurnsAlone
<1>2. CASE Turns(c)
  BY <1>2, CataloguedKeeps, GoesOnTurn, CallsToolKeeps, DecidedKeeps, TurnEndsKeeps DEF Turns
<1>3. QED
  BY <1>1, <1>2, ServesKeeps DEF Continues

\* A new turn or another request.
LEMMA StartsKeeps ==
  ASSUME RequestInv, TurnInv, NEW c \in Callers, Starts(c)
  PROVE  TurnInv'
<1>1. ASSUME NEW request, OtherRequest(c, request) PROVE TurnInv'
  <2>1. turn[c].pc = "idle" /\ UNCHANGED <<registered, loaded, settled, turn>>
        /\ \A d \in Callers \ {c} : list'[d] = list[d]
    BY <1>1 DEF OtherRequest, Submit, SetsList, Quiet, entitlementVars, RequestInv, CatalogInv
  <2>2. QED
    BY <2>1, TurnsAlone
<1>2. QED
  BY <1>1, RouteAndRunKeeps DEF Starts

\* What fails below a turn leaves it where it is.
LEMMA FailuresKeep ==
  ASSUME RequestInv, TurnInv, Failures
  PROVE  TurnInv'
<1>1. ASSUME NEW c \in Callers, ServeFails(c), UNCHANGED turn PROVE TurnInv'
  <2>1. UNCHANGED <<registered, loaded, settled>>
    BY <1>1 DEF ServeFails, CredentialFails, SessionFails, Fails, Quiet, entitlementVars
  <2>2. \A d \in Callers : list'[d].request = list[d].request /\ list'[d].truth = list[d].truth
    <3>1. DOMAIN list = Callers /\ DOMAIN list[c] = ListFields
      BY DEF RequestInv, CatalogInv, ListSound
    <3>2. CASE CredentialFails(c)
      BY <3>2 DEF CredentialFails
    <3>3. CASE SessionFails(c)
      BY <3>1, <3>3 DEF SessionFails, Fails, ListFields
    <3>4. QED
      BY <1>1, <3>2, <3>3 DEF ServeFails
  <2>3. QED
    BY <1>1, <2>1, <2>2, TurnsAlone
<1>2. ASSUME NEW b, Rotate(b), UNCHANGED turn PROVE TurnInv'
  BY <1>2, TurnsAlone DEF Rotate, Quiet, entitlementVars
<1>3. ASSUME NEW s \in Syncs, PushFails(s), UNCHANGED turn, ExchangeAndCatalogRest PROVE TurnInv'
  BY <1>3, TurnsAlone DEF PushFails, ExchangeAndCatalogRest, catalogVars
<1>4. QED
  BY <1>1, <1>2, <1>3, GoesOnTurn DEF Failures

\* Every step of the whole keeps turns sound.
LEMMA NextKeepsTurns ==
  ASSUME EntitlementInv, RequestInv, TurnInv, [Next]_allVars
  PROVE  TurnInv'
<1>1. CASE UNCHANGED allVars
  BY <1>1, TurnsAlone DEF allVars, entitlementVars, catalogVars
<1>2. CASE Changes \/ Restarts
  BY <1>2, CalmEnds DEF Changes, Restarts, ExchangeAndCatalogRest, catalogVars
<1>3. CASE Synchronizes
  BY <1>3, TurnsAlone DEF Synchronizes, SyncStart, Push, ExchangeAndCatalogRest, catalogVars
<1>4. CASE Ticks
  BY <1>4, TurnsAlone DEF Ticks, entitlementVars, catalogVars
<1>5. QED
  BY <1>1, <1>2, <1>3, <1>4, ContinuesKeeps, StartsKeeps, FailuresKeep DEF Next

\* Initially there is no turn.
LEMMA TurnsInitially == Init => TurnInv
BY NoTurnSound DEF Init, TurnInv

\* What is sound agrees.
LEMMA SoundTurns == TurnInv => ListedIsCallable /\ VersionsAgree
BY DEF TurnInv, TurnSound, KnowsTruth, ClientOfTurn, ListedIsCallable, VersionsAgree

(***************************************************************************)
(* The theorems.                                                           *)
(***************************************************************************)

\* Turns stay sound.
THEOREM TurnInvariance == Spec => []TurnInv
<1>1. EntitlementInv /\ RequestInv /\ TurnInv /\ [Next]_allVars => TurnInv'
  BY NextKeepsTurns
<1>2. QED
  BY <1>1, TurnsInitially, RequestInvariance, EntitlementImplemented, EntitlementInvariance, PTL
     DEF Spec

\* While nothing changes, a listed tool is never refused as not entitled and what
\* is allowed was the client's: tools/list's filter and OPA's rule agree.
THEOREM ListedStaysCallable == Spec => []ListedIsCallable
BY TurnInvariance, SoundTurns, PTL

\* While nothing changes, the audited entitlement_version is the deciding one.
THEOREM AuditNamesDecision == Spec => []VersionsAgree
BY TurnInvariance, SoundTurns, PTL

(***************************************************************************)
(* Requests and their credentials: who waits for what.                     *)
(***************************************************************************)

Before == {"idle", "gate", "verify", "serve"}

\* A request has no credential before it asks one, and is at "credential" as long
\* as the exchange is under way.
Waits(l, k) ==
    /\ l.pc \in Before => k = NoCredential
    /\ l.pc # "credential" => k.pc \notin {"subject", "exchange", "issued"}

WaitInv == \A c \in Callers : Waits(list[c], credential[c])

\* What a caller waits for is judged by its request and its credential.
LEMMA OneWaits ==
  ASSUME RequestInv, WaitInv, NEW c \in Callers, NEW r, NEW k,
         list' = [list EXCEPT ![c] = r], credential' = [credential EXCEPT ![c] = k], Waits(r, k)
  PROVE  WaitInv'
<1>1. DOMAIN list = Callers /\ DOMAIN credential = Callers
  BY DEF RequestInv, CatalogInv, ExchangeInv, ExchangeTypeOK
<1>2. \A d \in Callers : list'[d] = (IF d = c THEN r ELSE list[d])
                         /\ credential'[d] = (IF d = c THEN k ELSE credential[d])
  BY <1>1
<1>3. QED
  BY <1>2 DEF WaitInv

\* A request that goes on with the credential it has.
LEMMA RequestWaits ==
  ASSUME RequestInv, WaitInv, NEW c \in Callers, NEW r,
         list' = [list EXCEPT ![c] = r], UNCHANGED credential, Waits(r, credential[c])
  PROVE  WaitInv'
<1>1. credential' = [credential EXCEPT ![c] = credential[c]]
  BY DEF RequestInv, ExchangeInv, ExchangeTypeOK
<1>2. QED
  BY <1>1, OneWaits

\* A credential that is waited for goes on.
LEMMA CredentialWaits ==
  ASSUME RequestInv, WaitInv, NEW c \in Callers, NEW k, list[c].pc = "credential",
         UNCHANGED list, credential' = [credential EXCEPT ![c] = k]
  PROVE  WaitInv'
<1>1. \A d \in Callers : credential'[d] = IF d = c THEN k ELSE credential[d]
  BY DEF RequestInv, ExchangeInv, ExchangeTypeOK
<1>2. Waits(list[c], k)
  BY DEF Waits, Before
<1>3. QED
  BY <1>1, <1>2 DEF WaitInv

\* On the way in nothing is asked for, and what ends there ends without.
LEMMA WayInWaits ==
  ASSUME RequestInv, WaitInv, NEW c \in Callers,
         HeaderBodyMismatch(c) \/ Replayed(c) \/ Unauthorized(c) \/ Authorized(c)
           \/ Invalid(c) \/ Call(c) \/ EmptyList(c)
  PROVE  WaitInv'
<1> DEFINE l == list[c]
<1>1. DOMAIN l = ListFields /\ Waits(l, credential[c])
  BY DEF RequestInv, CatalogInv, ListSound, WaitInv
<1>2. UNCHANGED credential /\ l.pc \in Before
  BY DEF HeaderBodyMismatch, Replayed, Unauthorized, Authorized, Invalid, Call, EmptyList, Lists,
     Quiet, exchangeVars, Before
<1>3. credential[c] = NoCredential /\ NoCredential.pc = "idle"
  BY <1>1, <1>2 DEF Waits, NoCredential
<1>4. \E r : list' = [list EXCEPT ![c] = r]
  BY DEF HeaderBodyMismatch, Replayed, Unauthorized, Authorized, Invalid, Call, EmptyList, Ends,
     SetsList
<1>5. QED
  BY <1>2, <1>3, <1>4, RequestWaits DEF Waits

\* The list is resolved, and goes from one backend to the next.
LEMMA ListingWaits ==
  ASSUME RequestInv, WaitInv, NEW c \in Callers,
         ResolveForList(c) \/ Skipped(c) \/ CredentialRaises(c) \/ Connects(c) \/ SessionLists(c)
           \/ GateRejects(c) \/ Listed(c)
  PROVE  WaitInv'
<1> DEFINE l == list[c]
<1>1. DOMAIN l = ListFields /\ Waits(l, credential[c])
  BY DEF RequestInv, CatalogInv, ListSound, WaitInv
<1>2. UNCHANGED credential
  BY DEF ResolveForList, Skipped, CredentialRaises, Connects, SessionLists, GateRejects, Listed,
     Quiet, exchangeVars
<1>3. credential[c].pc \notin {"subject", "exchange", "issued"}
  BY <1>1 DEF Waits, ResolveForList, Skipped, CredentialRaises, Connects, SessionLists, GateRejects,
     Listed, Lists
<1>4. ASSUME NEW r, list' = [list EXCEPT ![c] = r], r.pc \notin Before PROVE WaitInv'
  BY <1>2, <1>3, <1>4, RequestWaits DEF Waits
<1>5. CASE ResolveForList(c)
  <2> DEFINE tools == cache'[l.client].allowed_tools
             r == [l EXCEPT !.pc = "backends", !.entitled = tools,
                            !.todo = DistinctBackendsFor(tools), !.truth = Truth(l.client)]
  <2>1. list' = [list EXCEPT ![c] = r]
    BY <1>5 DEF ResolveForList, SetsList
  <2>2. r.pc = "backends"
    BY <1>1 DEF ListFields
  <2> HIDE DEF r
  <2>3. QED
    BY <1>4, <2>1, <2>2 DEF Before
<1>6. CASE Skipped(c)
  <2> DEFINE r == [l EXCEPT !.pc = "backends", !.skipped = @ \cup {l.at}]
  <2>1. list' = [list EXCEPT ![c] = r] /\ r.pc = "backends"
    BY <1>1, <1>6 DEF Skipped, SetsList, ListFields
  <2> HIDE DEF r
  <2>2. QED
    BY <1>4, <2>1 DEF Before
<1>7. CASE CredentialRaises(c) \/ GateRejects(c) \/ Listed(c)
  <2>1. PICK reply : list' = [list EXCEPT ![c] = [l EXCEPT !.pc = "done", !.reply = reply]]
    BY <1>7 DEF CredentialRaises, GateRejects, Listed, Ends, SetsList
  <2> DEFINE r == [l EXCEPT !.pc = "done", !.reply = reply]
  <2>2. list' = [list EXCEPT ![c] = r] /\ r.pc = "done"
    BY <1>1, <2>1 DEF ListFields
  <2> HIDE DEF r
  <2>3. QED
    BY <1>4, <2>2 DEF Before
<1>8. CASE Connects(c)
  <2> DEFINE r == [l EXCEPT !.pc = "session"]
  <2>1. list' = [list EXCEPT ![c] = r] /\ r.pc = "session"
    BY <1>1, <1>8 DEF Connects, SetsList, ListFields
  <2> HIDE DEF r
  <2>2. QED
    BY <1>4, <2>1 DEF Before
<1>9. CASE SessionLists(c)
  <2> DEFINE r == [l EXCEPT !.pc = "backends", !.tools = @ \cup Allowed(c)]
  <2>1. list' = [list EXCEPT ![c] = r] /\ r.pc = "backends"
    BY <1>1, <1>9 DEF SessionLists, SetsList, ListFields
  <2> HIDE DEF r
  <2>2. QED
    BY <1>4, <2>1 DEF Before
<1>10. QED
  BY <1>5, <1>6, <1>7, <1>8, <1>9

\* A credential is asked for, waited for, and given back; or it fails.
LEMMA AskingWaits ==
  ASSUME RequestInv, WaitInv, NEW c \in Callers,
         CredentialForBackend(c) \/ AwaitsCredential(c) \/ Answered(c) \/ CredentialFails(c)
           \/ SessionFails(c)
  PROVE  WaitInv'
<1> DEFINE l == list[c]
<1>1. DOMAIN l = ListFields /\ Waits(l, credential[c])
  BY DEF RequestInv, CatalogInv, ListSound, WaitInv
<1>2. CASE CredentialForBackend(c)
  <2>1. PICK b \in l.todo :
          /\ CredentialFor(c, b)
          /\ list' = [list EXCEPT ![c] = [l EXCEPT !.pc = "credential", !.at = b, !.todo = @ \ {b}]]
    BY <1>2 DEF CredentialForBackend, SetsList
  <2> DEFINE r == [l EXCEPT !.pc = "credential", !.at = b, !.todo = @ \ {b}]
  <2>2. list' = [list EXCEPT ![c] = r] /\ r.pc = "credential"
    BY <1>1, <2>1 DEF ListFields
  <2>3. \E k : credential' = [credential EXCEPT ![c] = k]
    BY <2>1 DEF CredentialFor, Static, Hit, Miss, Sets
  <2> HIDE DEF r
  <2>4. \A k : Waits(r, k)
    BY <2>2 DEF Waits, Before
  <2>5. QED
    BY <2>2, <2>3, <2>4, OneWaits
<1>3. CASE AwaitsCredential(c) \/ CredentialFails(c)
  <2>1. l.pc = "credential" /\ UNCHANGED list
    BY <1>3 DEF AwaitsCredential, CredentialFails, catalogVars
  <2>2. \E k : credential' = [credential EXCEPT ![c] = k]
    BY <1>3 DEF AwaitsCredential, CredentialFails, SubjectToken, Issue, Exchanged, ExchangeFails, Sets
  <2>3. QED
    BY <2>1, <2>2, CredentialWaits
<1>4. CASE Answered(c)
  <2>1. list' = [list EXCEPT ![c] = NoRequest] /\ credential' = [credential EXCEPT ![c] = NoCredential]
    BY <1>4 DEF Answered, SetsList, Forgets, Sets
  <2>2. Waits(NoRequest, NoCredential)
    BY DEF Waits, NoCredential
  <2>3. QED
    BY <2>1, <2>2, OneWaits
<1>5. CASE SessionFails(c)
  <2> DEFINE r == [l EXCEPT !.pc = "done", !.reply = "raised"]
  <2>1. l.pc = "session" /\ list' = [list EXCEPT ![c] = r] /\ UNCHANGED credential /\ r.pc = "done"
    BY <1>1, <1>5 DEF SessionFails, Fails, Quiet, exchangeVars, ListFields
  <2> HIDE DEF r
  <2>2. Waits(r, credential[c])
    BY <1>1, <2>1 DEF Waits, Before
  <2>3. QED
    BY <2>1, <2>2, RequestWaits
<1>6. QED
  BY <1>2, <1>3, <1>4, <1>5

\* A new request waits for nothing.
LEMMA SubmitWaits ==
  ASSUME RequestInv, WaitInv, NEW c \in Callers, NEW request, Submit(c, request)
  PROVE  WaitInv'
<1>1. list[c].pc = "idle" /\ UNCHANGED credential /\ \E r : list' = [list EXCEPT ![c] = r]
  BY DEF Submit, SetsList, Quiet, exchangeVars
<1>2. credential[c] = NoCredential /\ NoCredential.pc = "idle"
  BY <1>1 DEF WaitInv, Waits, Before, NoCredential
<1>3. QED
  BY <1>1, <1>2, RequestWaits DEF Waits

\* Every step leaves callers waiting for what they asked.
LEMMA NextWaits ==
  ASSUME RequestInv, WaitInv, [Next]_allVars
  PROVE  WaitInv'
<1>1. ASSUME UNCHANGED <<list, credential>> PROVE WaitInv'
  BY <1>1 DEF WaitInv, Waits
<1>2. ASSUME NEW c \in Callers, Continues(c) PROVE WaitInv'
  <2>1. CASE Serves(c)
    BY <2>1, WayInWaits, ListingWaits, AskingWaits DEF Serves, Serve
  <2>2. CASE OtherAnswered(c) \/ Catalogued(c)
    BY <2>2, AskingWaits DEF OtherAnswered, Catalogued
  <2>3. CASE FinalAnswer(c) \/ AsksForTools(c) \/ PassesOver(c) \/ Decided(c) \/ Iterates(c) \/ TurnEnds(c)
    BY <1>1, <2>3 DEF FinalAnswer, AsksForTools, PassesOver, Decided, Iterates, TurnEnds, Completes,
       SetsTurn, Below, Quiet, catalogVars, exchangeVars
  <2>4. ASSUME NEW tool, CallsTool(c, tool) PROVE WaitInv'
    BY <1>1, <2>4 DEF CallsTool, SetsTurn, Below, catalogVars, exchangeVars
  <2>5. QED
    BY <1>2, <2>1, <2>2, <2>3, <2>4 DEF Continues, Turns
<1>3. ASSUME NEW c \in Callers, Starts(c) PROVE WaitInv'
  BY <1>3, SubmitWaits DEF Starts, RouteAndRun, OtherRequest
<1>4. CASE Changes \/ Synchronizes \/ Restarts
  BY <1>1, <1>4 DEF Changes, Synchronizes, Restarts, ExchangeAndCatalogRest, catalogVars, exchangeVars
<1>5. CASE Failures
  <2>1. ASSUME NEW c \in Callers, ServeFails(c) PROVE WaitInv'
    BY <2>1, AskingWaits DEF ServeFails
  <2>2. ASSUME NEW c \in Callers, TurnFails(c) PROVE WaitInv'
    BY <1>1, <2>2 DEF TurnFails, SetsTurn, Below, catalogVars, exchangeVars
  <2>3. ASSUME NEW b, Rotate(b) PROVE WaitInv'
    BY <1>1, <2>3 DEF Rotate, Quiet, exchangeVars
  <2>4. ASSUME ExchangeAndCatalogRest PROVE WaitInv'
    BY <1>1, <2>4 DEF ExchangeAndCatalogRest, catalogVars, exchangeVars
  <2>5. QED
    BY <1>5, <2>1, <2>2, <2>3, <2>4 DEF Failures
<1>6. CASE Ticks \/ UNCHANGED allVars
  BY <1>1, <1>6 DEF Ticks, Tick, allVars, catalogVars, exchangeVars
<1>7. QED
  BY <1>2, <1>3, <1>4, <1>5, <1>6 DEF Next

\* Callers wait for what they asked, and for nothing else.
THEOREM WaitInvariance == Spec => []WaitInv
<1>1. ASSUME Init PROVE WaitInv
  <2>1. \A c \in Callers : list[c] = NoRequest /\ credential[c] = NoCredential
    BY <1>1 DEF Init, InitCatalog, InitExchange
  <2>2. Waits(NoRequest, NoCredential)
    BY DEF Waits, NoCredential
  <2>3. QED
    BY <2>1, <2>2 DEF WaitInv
<1>2. RequestInv /\ WaitInv /\ [Next]_allVars => WaitInv'
  BY NextWaits
<1>3. QED
  BY <1>1, <1>2, RequestInvariance, PTL DEF Spec

(***************************************************************************)
(* Steps of the whole are steps of the exchange.                           *)
(***************************************************************************)

\* A backend of the list asks for its credential while no other is under way.
LEMMA CredentialIsExchange ==
  ASSUME RequestInv, WaitInv, NEW c \in Callers, CredentialForBackend(c)
  PROVE  ExchangeNext
<1>1. list[c].pc = "backends" /\ ListSound(list[c]) /\ Waits(list[c], credential[c])
  BY DEF CredentialForBackend, RequestInv, CatalogInv, WaitInv
<1>2. PICK b \in list[c].todo : CredentialFor(c, b)
  BY DEF CredentialForBackend
<1>3. b \in Configured \cup Unknown
  BY <1>1, <1>2, BackendsOfTools DEF ListSound, ListingSound
<1>4. ~InExchange(c)
  BY <1>1 DEF Waits, InExchange
<1>5. QED
  BY <1>2, <1>3, <1>4 DEF ExchangeNext

\* A request is answered when its credential is not waited for any more.
LEMMA AnsweredIsExchange ==
  ASSUME WaitInv, NEW c \in Callers, Answered(c)
  PROVE  ExchangeNext
<1>1. Forgets(c) /\ list[c].pc = "done" /\ Waits(list[c], credential[c])
  BY DEF Answered, WaitInv
<1>2. ~InExchange(c)
  BY <1>1 DEF Waits, InExchange
<1>3. QED
  BY <1>1, <1>2 DEF ExchangeNext

\* A request being served asks for a credential, waits for it, or leaves it alone.
LEMMA ServeIsExchange ==
  ASSUME RequestInv, WaitInv, NEW c \in Callers, Serve(c)
  PROVE  [ExchangeNext]_exchangeVars
<1>1. CASE CredentialForBackend(c)
  BY <1>1, CredentialIsExchange
<1>2. CASE AwaitsCredential(c)
  BY <1>2 DEF AwaitsCredential, ExchangeNext, Awaits
<1>3. CASE ~CredentialForBackend(c) /\ ~AwaitsCredential(c)
  BY <1>3 DEF Serve, HeaderBodyMismatch, Replayed, Unauthorized, Authorized, Invalid, Call, EmptyList,
     ResolveForList, Skipped, CredentialRaises, Connects, SessionLists, GateRejects, Listed, Quiet
<1>4. QED
  BY <1>1, <1>2, <1>3

\* Every step of the whole is a step of the exchange, or leaves it alone.
LEMMA NextIsExchange ==
  ASSUME RequestInv, WaitInv, [Next]_allVars
  PROVE  [ExchangeNext]_exchangeVars
<1>1. CASE UNCHANGED allVars
  BY <1>1 DEF allVars
<1>2. ASSUME NEW c \in Callers, Continues(c) PROVE [ExchangeNext]_exchangeVars
  <2>1. CASE Serves(c)
    BY <2>1, ServeIsExchange DEF Serves
  <2>2. CASE OtherAnswered(c) \/ Catalogued(c)
    BY <2>2, AnsweredIsExchange DEF OtherAnswered, Catalogued
  <2>3. CASE FinalAnswer(c) \/ AsksForTools(c) \/ PassesOver(c) \/ Decided(c) \/ Iterates(c) \/ TurnEnds(c)
    BY <2>3 DEF FinalAnswer, AsksForTools, PassesOver, Decided, Iterates, TurnEnds, Completes,
       SetsTurn, Below, Quiet
  <2>4. ASSUME NEW tool, CallsTool(c, tool) PROVE UNCHANGED exchangeVars
    BY <2>4 DEF CallsTool, SetsTurn, Below
  <2>5. QED
    BY <1>2, <2>1, <2>2, <2>3, <2>4 DEF Continues, Turns
<1>3. ASSUME NEW c \in Callers, Starts(c) PROVE UNCHANGED exchangeVars
  BY <1>3 DEF Starts, RouteAndRun, OtherRequest, Submit, Quiet
<1>4. CASE Changes \/ Synchronizes \/ Restarts
  BY <1>4 DEF Changes, Synchronizes, Restarts, ExchangeAndCatalogRest
<1>5. CASE Failures
  <2>1. ASSUME NEW c \in Callers, ServeFails(c) PROVE [ExchangeNext]_exchangeVars
    BY <2>1 DEF ServeFails, CredentialFails, SessionFails, Fails, Quiet, ExchangeNext, Awaits
  <2>2. ASSUME NEW c \in Callers, TurnFails(c) PROVE UNCHANGED exchangeVars
    BY <2>2 DEF TurnFails, SetsTurn, Below
  <2>3. QED
    BY <1>5, <2>1, <2>2 DEF Failures, Rotate, Quiet, ExchangeAndCatalogRest
<1>6. CASE Ticks
  BY <1>6 DEF Ticks, ExchangeNext
<1>7. QED
  BY <1>1, <1>2, <1>3, <1>4, <1>5, <1>6 DEF Next

\* The requests and turns of any agents use the provider of credentials as its
\* specification says: no caller asks it again while it is being served.
THEOREM ExchangeImplemented == Spec => ExchangeSpec
<1>1. Init => InitExchange
  BY DEF Init
<1>2. RequestInv /\ WaitInv /\ [Next]_allVars => [ExchangeNext]_exchangeVars
  BY NextIsExchange
<1>3. QED
  BY <1>1, <1>2, RequestInvariance, WaitInvariance, PTL DEF Spec, ExchangeSpec

(***************************************************************************)
(* How far a turn has come: it is at a stage, in an iteration, and has so  *)
(* many calls left to make.                                                *)
(***************************************************************************)

TurnTyped(t) ==
    /\ t.pc \in {"idle", "list", "llm", "calls", "decide", "done"}
    /\ t.asked \in 0..MaxToolCalls
    /\ t.iteration \in 0..(MaxIterations - 1)
    /\ t.pc = "decide" => t.asked > 0

\* A turn that has its catalog has no request under way.
Answers(t, l) == t.pc \notin {"idle", "list"} => l.pc = "idle"

PaceInv == \A c \in Callers : TurnTyped(turn[c]) /\ Answers(turn[c], list[c])

Stays(r, t) == r.pc = t.pc /\ r.asked = t.asked /\ r.iteration = t.iteration

\* The turn is done from wherever it was; so many calls are left in this iteration.
Stops(r, t) ==
    t.pc \notin {"idle", "done"} /\ r.pc = "done" /\ r.asked = t.asked /\ r.iteration = t.iteration
Leaves(r, t, n) == r.asked = n /\ r.iteration = t.iteration

\* What one step can do to a turn.
Moves(r, t) ==
    \/ Stays(r, t)
    \/ t.pc = "idle" /\ r.pc = "list" /\ r.asked = 0 /\ r.iteration = 0
    \/ Stops(r, t)
    \/ t.pc = "list" /\ r.pc = "llm" /\ Leaves(r, t, t.asked)
    \/ t.pc = "llm" /\ r.pc = "calls" /\ \E n \in 1..MaxToolCalls : Leaves(r, t, n)
    \/ t.pc = "calls" /\ t.asked > 0 /\ r.pc = "decide" /\ Leaves(r, t, t.asked)
    \/ t.pc \in {"calls", "decide"} /\ t.asked > 0 /\ r.pc = "calls" /\ Leaves(r, t, t.asked - 1)
    \/ /\ t.pc = "calls" /\ r.pc = "llm" /\ r.asked = t.asked
       /\ r.iteration = t.iteration + 1 /\ r.iteration < MaxIterations
    \/ t.pc = "done" /\ r.pc = "idle" /\ r.asked = 0 /\ r.iteration = 0

Paced(c) == Moves(turn'[c], turn[c]) /\ Answers(turn'[c], list'[c])

\* The stages in the order in which they are left behind, and within an iteration
\* what is left: an answer of the model, and then a call less each time.
Stage(t) == IF t.pc = "idle" THEN 0 ELSE IF t.pc = "done" THEN 1 ELSE IF t.pc = "list" THEN 3 ELSE 2

Point(t) ==
    IF t.pc = "llm" THEN 2 * MaxToolCalls + 2
    ELSE IF t.pc = "calls" THEN 2 * t.asked + 1 ELSE 2 * t.asked

\* Nearer to its end: by stage, then by iteration, then by what is left of it.
Nearer(r, t) ==
    \/ Stage(r) < Stage(t)
    \/ /\ Stage(r) = 2 /\ Stage(t) = 2
       /\ \/ r.iteration > t.iteration
          \/ r.iteration = t.iteration /\ Point(r) < Point(t)

\* A turn under way stays where it is, or comes nearer to its end.
Advances(c) == turn[c].pc # "idle" => Stays(turn'[c], turn[c]) \/ Nearer(turn'[c], turn[c])

\* Whatever moves so keeps its type.
LEMMA MovesTyped ==
  ASSUME NEW t, NEW r, TurnTyped(t), Moves(r, t)
  PROVE  TurnTyped(r)
<1> USE IterationsAssumption DEF TurnTyped
<1>1. CASE t.pc = "llm" /\ r.pc = "calls" /\ \E n \in 1..MaxToolCalls : Leaves(r, t, n)
  BY <1>1 DEF Leaves
<1>2. CASE \/ t.pc = "calls" /\ t.asked > 0 /\ r.pc = "decide" /\ Leaves(r, t, t.asked)
           \/ t.pc \in {"calls", "decide"} /\ t.asked > 0 /\ r.pc = "calls" /\ Leaves(r, t, t.asked - 1)
  BY <1>2 DEF Leaves
<1>3. CASE /\ t.pc = "calls" /\ r.pc = "llm" /\ r.asked = t.asked
           /\ r.iteration = t.iteration + 1 /\ r.iteration < MaxIterations
  BY <1>3
<1>4. CASE \/ Stays(r, t) \/ Stops(r, t)
           \/ t.pc = "idle" /\ r.pc = "list" /\ r.asked = 0 /\ r.iteration = 0
           \/ t.pc = "list" /\ r.pc = "llm" /\ Leaves(r, t, t.asked)
           \/ t.pc = "done" /\ r.pc = "idle" /\ r.asked = 0 /\ r.iteration = 0
  BY <1>4 DEF Stays, Stops, Leaves
<1>5. QED
  BY <1>1, <1>2, <1>3, <1>4 DEF Moves

\* And comes nearer to its end.
LEMMA MovesNearer ==
  ASSUME NEW t, NEW r, TurnTyped(t), Moves(r, t), t.pc # "idle"
  PROVE  Stays(r, t) \/ Nearer(r, t)
<1> USE IterationsAssumption DEF TurnTyped, Nearer, Stage, Point
<1>1. CASE t.pc = "llm" /\ r.pc = "calls" /\ \E n \in 1..MaxToolCalls : Leaves(r, t, n)
  BY <1>1 DEF Leaves
<1>2. CASE \/ t.pc = "calls" /\ t.asked > 0 /\ r.pc = "decide" /\ Leaves(r, t, t.asked)
           \/ t.pc \in {"calls", "decide"} /\ t.asked > 0 /\ r.pc = "calls" /\ Leaves(r, t, t.asked - 1)
  BY <1>2 DEF Leaves
<1>3. CASE /\ t.pc = "calls" /\ r.pc = "llm" /\ r.asked = t.asked
           /\ r.iteration = t.iteration + 1 /\ r.iteration < MaxIterations
  BY <1>3
<1>4. CASE \/ Stays(r, t) \/ Stops(r, t)
           \/ t.pc = "list" /\ r.pc = "llm" /\ Leaves(r, t, t.asked)
           \/ t.pc = "done" /\ r.pc = "idle" /\ r.asked = 0 /\ r.iteration = 0
  BY <1>4 DEF Stops
<1>5. QED
  BY <1>1, <1>2, <1>3, <1>4 DEF Moves

\* A turn that does not move, beside requests that are not its own.
LEMMA StillPaced ==
  ASSUME PaceInv, NEW c \in Callers, Stays(turn'[c], turn[c]),
         turn[c].pc \notin {"idle", "list"} => list'[c] = list[c]
  PROVE  Paced(c)
BY DEF PaceInv, Paced, Moves, Stays, Answers

\* The step of one turn leaves the others where they are.
LEMMA OthersPaced ==
  ASSUME PaceInv, NEW c \in Callers, Paced(c),
         \A d \in Callers \ {c} : turn'[d] = turn[d] /\ list'[d] = list[d]
  PROVE  \A d \in Callers : Paced(d)
BY StillPaced DEF Stays

\* The model answers or asks, calls are passed over, decided or counted down; the
\* turn fails, or is over.
LEMMA TurnPaced ==
  ASSUME TurnInv, PaceInv, NEW c \in Callers,
         FinalAnswer(c) \/ AsksForTools(c) \/ PassesOver(c) \/ Decided(c) \/ Iterates(c)
           \/ TurnFails(c) \/ TurnEnds(c)
  PROVE  \A d \in Callers : Paced(d)
<1> DEFINE t == turn[c]
           r == turn'[c]
<1>1. DOMAIN turn = Callers /\ DOMAIN t = TurnFields /\ TurnTyped(t) /\ Answers(t, list[c])
  BY DEF TurnInv, TurnSound, PaceInv
<1>2. UNCHANGED list /\ \A d \in Callers \ {c} : turn'[d] = turn[d]
  BY <1>1 DEF FinalAnswer, AsksForTools, PassesOver, Decided, Iterates, TurnFails, TurnEnds, Completes,
     SetsTurn, Below, Quiet, catalogVars
<1>3. t.pc \notin {"idle", "list"}
  BY DEF FinalAnswer, AsksForTools, PassesOver, Decided, Iterates, TurnFails, TurnEnds
<1>4. ASSUME NEW reply, turn' = [turn EXCEPT ![c].pc = "done", ![c].reply = reply], t.pc # "done"
      PROVE  Moves(r, t)
  BY <1>1, <1>3, <1>4 DEF Moves, Stops, TurnFields
<1>5. ASSUME FinalAnswer(c) PROVE Moves(r, t)
  BY <1>4, <1>5 DEF FinalAnswer, Completes
<1>6. ASSUME AsksForTools(c) PROVE Moves(r, t)
  <2>1. PICK n \in 1..MaxToolCalls :
          t.pc = "llm" /\ turn' = [turn EXCEPT ![c] = [t EXCEPT !.pc = "calls", !.asked = n]]
    BY <1>6 DEF AsksForTools, SetsTurn
  <2>2. r.pc = "calls" /\ Leaves(r, t, n)
    BY <1>1, <2>1 DEF Leaves, TurnFields
  <2>3. QED
    BY <2>1, <2>2 DEF Moves
<1>7. ASSUME PassesOver(c) PROVE Moves(r, t)
  <2>1. t.pc = "calls" /\ t.asked > 0 /\ turn' = [turn EXCEPT ![c] = [t EXCEPT !.asked = t.asked - 1]]
    BY <1>7 DEF PassesOver, SetsTurn
  <2>2. r.pc = "calls" /\ Leaves(r, t, t.asked - 1)
    BY <1>1, <2>1 DEF Leaves, TurnFields
  <2>3. QED
    BY <2>1, <2>2 DEF Moves
<1>8. ASSUME Decided(c) PROVE Moves(r, t)
  <2>1. t.pc = "decide" /\ r.pc = "calls" /\ Leaves(r, t, t.asked - 1)
    BY <1>1, <1>8 DEF Decided, SetsTurn, Leaves, TurnFields
  <2>2. t.asked > 0
    BY <1>1, <2>1 DEF TurnTyped
  <2>3. QED
    BY <2>1, <2>2 DEF Moves
<1>9. ASSUME Iterates(c) PROVE Moves(r, t)
  <2>1. CASE t.iteration + 1 < MaxIterations
    <3>1. t.pc = "calls"
          /\ turn' = [turn EXCEPT ![c] = [t EXCEPT !.pc = "llm", !.iteration = t.iteration + 1]]
      BY <1>9, <2>1 DEF Iterates, SetsTurn
    <3>2. r.pc = "llm" /\ r.asked = t.asked /\ r.iteration = t.iteration + 1
      BY <1>1, <3>1 DEF TurnFields
    <3>3. QED
      BY <2>1, <3>1, <3>2 DEF Moves
  <2>2. CASE ~(t.iteration + 1 < MaxIterations)
    BY <1>4, <1>9, <2>2 DEF Iterates, Completes
  <2>3. QED
    BY <2>1, <2>2
<1>10. ASSUME TurnFails(c) PROVE Moves(r, t)
  <2>1. t.pc \in {"llm", "decide"}
        /\ turn' = [turn EXCEPT ![c] = [t EXCEPT !.pc = "done", !.reply = "raised"]]
    BY <1>10 DEF TurnFails, SetsTurn
  <2>2. r.pc = "done" /\ r.asked = t.asked /\ r.iteration = t.iteration
    BY <1>1, <2>1 DEF TurnFields
  <2>3. QED
    BY <2>1, <2>2 DEF Moves, Stops
<1>11. ASSUME TurnEnds(c) PROVE Moves(r, t)
  <2>1. t.pc = "done" /\ r = NoTurn
    BY <1>1, <1>11 DEF TurnEnds
  <2>2. QED
    BY <2>1 DEF NoTurn, Moves
<1>12. Moves(r, t)
  BY <1>5, <1>6, <1>7, <1>8, <1>9, <1>10, <1>11
<1>13. Paced(c)
  BY <1>1, <1>2, <1>3, <1>12 DEF Paced, Answers
<1>14. QED
  BY <1>2, <1>13, OthersPaced

\* A call of a tool is turned away, counted, or put before OPA.
LEMMA CallPaced ==
  ASSUME TurnInv, PaceInv, NEW c \in Callers, NEW tool, CallsTool(c, tool)
  PROVE  \A d \in Callers : Paced(d)
<1> DEFINE t == turn[c]
           r == turn'[c]
           client == ClientOf(Agents[t.agent])
           asked == [t EXCEPT !.tool = tool]
<1>1. DOMAIN turn = Callers /\ DOMAIN t = TurnFields /\ TurnTyped(t) /\ Answers(t, list[c])
  BY DEF TurnInv, TurnSound, PaceInv
<1>2. t.pc = "calls" /\ t.asked > 0 /\ UNCHANGED list
  BY DEF CallsTool, SetsTurn, Below, catalogVars
<1>3. \/ turn' = [turn EXCEPT ![c] = [asked EXCEPT !.pc = "done", !.reply = "raised"]]
      \/ turn' = [turn EXCEPT ![c] = [asked EXCEPT !.asked = @ - 1]]
      \/ turn' = [turn EXCEPT ![c] = [asked EXCEPT !.pc = "decide",
                    !.profile = cache'[client].profile, !.audited = cache'[client].allowed_tools]]
  BY DEF CallsTool, SetsTurn
<1>4. ASSUME turn' = [turn EXCEPT ![c] = [asked EXCEPT !.pc = "done", !.reply = "raised"]]
      PROVE  Moves(r, t)
  BY <1>1, <1>2, <1>4 DEF Moves, Stops, TurnFields
<1>5. ASSUME turn' = [turn EXCEPT ![c] = [asked EXCEPT !.asked = @ - 1]]
      PROVE  Moves(r, t)
  <2>1. r.pc = "calls" /\ Leaves(r, t, t.asked - 1)
    BY <1>1, <1>2, <1>5 DEF Leaves, TurnFields
  <2>2. QED
    BY <1>2, <2>1 DEF Moves
<1>6. ASSUME turn' = [turn EXCEPT ![c] = [asked EXCEPT !.pc = "decide",
                    !.profile = cache'[client].profile, !.audited = cache'[client].allowed_tools]]
      PROVE  Moves(r, t)
  <2>1. r.pc = "decide" /\ Leaves(r, t, t.asked)
    BY <1>1, <1>6 DEF Leaves, TurnFields
  <2>2. QED
    BY <1>2, <2>1 DEF Moves
<1>7. Paced(c)
  <2>1. Moves(r, t)
    BY <1>3, <1>4, <1>5, <1>6
  <2>2. QED
    BY <1>1, <1>2, <2>1 DEF Paced, Answers
<1>8. \A d \in Callers \ {c} : turn'[d] = turn[d]
  BY <1>1, <1>3
<1>9. QED
  BY <1>2, <1>7, <1>8, OthersPaced

\* A turn that waits for its list goes on when it is answered; others do not wait.
LEMMA AnsweredPaced ==
  ASSUME RequestInv, TurnInv, PaceInv, NEW c \in Callers, Catalogued(c) \/ OtherAnswered(c)
  PROVE  \A d \in Callers : Paced(d)
<1> DEFINE t == turn[c]
           r == turn'[c]
<1>1. DOMAIN turn = Callers /\ DOMAIN t = TurnFields
  BY DEF TurnInv, TurnSound
<1>2. list'[c].pc = "idle" /\ \A d \in Callers \ {c} : turn'[d] = turn[d] /\ list'[d] = list[d]
  BY <1>1 DEF Catalogued, OtherAnswered, Answered, SetsList, RequestInv, CatalogInv, NoRequest
<1>3. ASSUME Catalogued(c) PROVE Moves(r, t)
  <2>1. /\ t.pc = "list" /\ r.pc \in {"llm", "done"} /\ r.asked = t.asked
        /\ r.iteration = t.iteration
    BY <1>1, <1>3 DEF Catalogued, TurnFields
  <2>2. QED
    BY <2>1 DEF Moves, Stops, Leaves
<1>4. ASSUME OtherAnswered(c) PROVE Moves(r, t)
  BY <1>4 DEF OtherAnswered, Moves, Stays
<1>5. Paced(c)
  BY <1>2, <1>3, <1>4 DEF Paced, Answers
<1>6. QED
  BY <1>2, <1>5, OthersPaced

\* A turn begins with its list, and other requests are nobody's turn.
LEMMA StartsPaced ==
  ASSUME RequestInv, TurnInv, PaceInv, NEW c \in Callers, Starts(c)
  PROVE  \A d \in Callers : Paced(d)
<1>1. DOMAIN turn = Callers /\ turn[c].pc = "idle"
      /\ \A d \in Callers \ {c} : turn'[d] = turn[d] /\ list'[d] = list[d]
  BY DEF Starts, RouteAndRun, OtherRequest, Submit, SetsList, TurnInv, RequestInv, CatalogInv
<1>2. CASE UNCHANGED turn
  BY <1>1, <1>2, StillPaced, OthersPaced DEF Stays
<1>3. CASE \E agent : turn' = [turn EXCEPT ![c] = [NoTurn EXCEPT !.pc = "list", !.agent = agent]]
  <2>1. turn'[c].pc = "list" /\ turn'[c].asked = 0 /\ turn'[c].iteration = 0
    BY <1>1, <1>3 DEF NoTurn
  <2>2. Paced(c)
    BY <1>1, <2>1 DEF Paced, Moves, Answers
  <2>3. QED
    BY <1>1, <2>2, OthersPaced
<1>4. QED
  BY <1>2, <1>3 DEF Starts, RouteAndRun, OtherRequest

\* A request that is being served is not one of a turn that has its catalog.
LEMMA ServesPaced ==
  ASSUME RequestInv, TurnInv, PaceInv, NEW c \in Callers,
         Serves(c) \/ (ServeFails(c) /\ UNCHANGED turn)
  PROVE  \A d \in Callers : Paced(d)
<1>1. \A d \in Callers \ {c} : list'[d] = list[d]
  BY ServeTruth DEF Serves, ServeFails, CredentialFails, SessionFails, Fails, RequestInv, CatalogInv
<1>2. list[c].pc # "idle"
  BY DEF Serves, Serve, ServeFails, CredentialFails, SessionFails, HeaderBodyMismatch, Replayed,
     Unauthorized, Authorized, Invalid, Call, EmptyList, Lists, ResolveForList, CredentialForBackend,
     AwaitsCredential, Skipped, CredentialRaises, Connects, SessionLists, GateRejects, Listed
<1>3. turn[c].pc \in {"idle", "list"}
  BY <1>2 DEF PaceInv, Answers
<1>4. \A d \in Callers : Stays(turn'[d], turn[d])
  <2>1. DOMAIN turn = Callers /\ DOMAIN turn[c] = TurnFields
    BY DEF TurnInv, TurnSound
  <2>2. CASE UNCHANGED turn
    BY <2>2 DEF Stays
  <2>3. CASE turn' = [turn EXCEPT ![c].calm = settled]
    BY <2>1, <2>3 DEF Stays, TurnFields
  <2>4. QED
    BY <2>2, <2>3 DEF Serves
<1>5. QED
  BY <1>1, <1>3, <1>4, StillPaced

\* Every step of the whole paces every turn.
LEMMA NextPaces ==
  ASSUME RequestInv, TurnInv, PaceInv, [Next]_allVars
  PROVE  \A c \in Callers : Paced(c)
<1>1. CASE UNCHANGED <<turn, list>>
  BY <1>1, StillPaced DEF Stays
<1>2. ASSUME NEW c \in Callers, Continues(c) PROVE \A d \in Callers : Paced(d)
  BY <1>2, ServesPaced, AnsweredPaced, TurnPaced, CallPaced DEF Continues, Turns
<1>3. ASSUME NEW c \in Callers, Starts(c) PROVE \A d \in Callers : Paced(d)
  BY <1>3, StartsPaced
<1>4. CASE Changes \/ Restarts
  <2>1. UNCHANGED list /\ turn' = [c \in Callers |-> [turn[c] EXCEPT !.calm = FALSE]]
    BY <1>4 DEF Changes, Restarts, ExchangeAndCatalogRest, catalogVars
  <2>2. \A c \in Callers : DOMAIN turn[c] = TurnFields
    BY DEF TurnInv, TurnSound
  <2>3. \A c \in Callers : Stays(turn'[c], turn[c])
    BY <2>1, <2>2 DEF Stays, TurnFields
  <2>4. QED
    BY <2>1, <2>3, StillPaced
<1>5. CASE Failures
  <2>1. ASSUME NEW b, Rotate(b), UNCHANGED turn PROVE UNCHANGED <<turn, list>>
    BY <2>1 DEF Rotate
  <2>2. ASSUME ExchangeAndCatalogRest, UNCHANGED turn PROVE UNCHANGED <<turn, list>>
    BY <2>2 DEF ExchangeAndCatalogRest, catalogVars
  <2>3. QED
    BY <1>1, <1>5, <2>1, <2>2, ServesPaced, TurnPaced DEF Failures
<1>6. CASE Synchronizes \/ Ticks \/ UNCHANGED allVars
  BY <1>1, <1>6 DEF Synchronizes, Ticks, ExchangeAndCatalogRest, catalogVars, allVars
<1>7. QED
  BY <1>2, <1>3, <1>4, <1>5, <1>6 DEF Next

\* A paced turn keeps its type.
LEMMA PacedKeeps ==
  ASSUME PaceInv, \A c \in Callers : Paced(c)
  PROVE  PaceInv'
<1>1. \A c \in Callers : TurnTyped(turn'[c])
  BY MovesTyped DEF PaceInv, Paced
<1>2. \A c \in Callers : TurnTyped(turn[c])'
  BY <1>1 DEF TurnTyped
<1>3. QED
  BY <1>2 DEF PaceInv, Paced, Answers

\* Turns keep their types and their pace.
THEOREM PaceInvariance == Spec => []PaceInv
<1>1. ASSUME Init PROVE PaceInv
  <2>1. \A c \in Callers : turn[c] = NoTurn
    BY <1>1 DEF Init
  <2>2. TurnTyped(NoTurn) /\ NoTurn.pc = "idle"
    BY IterationsAssumption DEF TurnTyped, NoTurn
  <2>3. QED
    BY <2>1, <2>2 DEF PaceInv, Answers
<1>2. RequestInv /\ TurnInv /\ PaceInv /\ [Next]_allVars => PaceInv'
  BY NextPaces, PacedKeeps
<1>3. QED
  BY <1>1, <1>2, RequestInvariance, TurnInvariance, PTL DEF Spec

\* A turn never goes back: every step that moves it brings it nearer to its end,
\* whatever the model asks for and whatever fails.
THEOREM TurnsAdvance == Spec => [][\A c \in Callers : Advances(c)]_allVars
<1>1. ASSUME RequestInv, TurnInv, PaceInv, [Next]_allVars
      PROVE  \A c \in Callers : Advances(c)
  BY <1>1, NextPaces, MovesNearer DEF PaceInv, Paced, Advances
<1>2. RequestInv /\ TurnInv /\ PaceInv /\ [Next]_allVars => [\A c \in Callers : Advances(c)]_allVars
  BY <1>1
<1>3. QED
  BY <1>2, RequestInvariance, TurnInvariance, PaceInvariance, PTL DEF Spec

\* The types of the whole: what is registered, pushed, cached and asked for is of
\* the configuration, credentials are those of requests, and turns are within their
\* bounds.
THEOREM TypeCorrect == Spec => []TypeOK
<1>1. ASSUME EntitlementInv, EntitlementTyped, ExchangingInv, RequestInv, WaitInv, PaceInv
      PROVE  TypeOK
  <2>1. \A c \in Callers : list[c].pc \in Before \cup {"backends", "credential", "session", "done"}
    BY <1>1 DEF RequestInv, CatalogInv, ListSound, Before
  <2>2. \A c \in Callers :
          /\ credential[c].pc # "idle" => list[c].pc \in {"credential", "session", "backends", "done"}
          /\ list[c].pc = "idle" => credential[c] = NoCredential
    <3>1. NoCredential.pc = "idle"
      BY DEF NoCredential
    <3>2. QED
      BY <1>1, <2>1, <3>1 DEF WaitInv, Waits, Before
  <2>3. \A c \in Callers :
          /\ turn[c].pc \notin {"idle", "list"} => list[c].pc = "idle"
          /\ turn[c].asked \in 0..MaxToolCalls
          /\ turn[c].iteration \in 0..(MaxIterations - 1)
    BY <1>1 DEF PaceInv, TurnTyped, Answers
  <2>4. /\ registered \in Registrations \cup
             UNION {{Without(r, C) : C \in SUBSET Clients} : r \in Registrations}
        /\ loaded \in Generations
        /\ DOMAIN opa \subseteq Profiles /\ \A p \in DOMAIN opa : opa[p] \in Contents
        /\ DOMAIN cache \subseteq Clients
        /\ \A s \in Syncs : syncs[s].todo \subseteq DOMAIN syncs[s].of
        /\ DOMAIN tokens \subseteq Exchanging
    BY <1>1 DEF EntitlementInv, EntitlementTypeOK, EntitlementTyped, Assignments, Pushable,
       ExchangingInv
  <2>5. QED
    BY <2>2, <2>3, <2>4 DEF TypeOK
<1>2. QED
  BY <1>1, EntitlementImplemented, EntitlementInvariance, ContentsCorrect, ExchangeImplemented,
     OnlyConfiguredExchange, RequestInvariance, WaitInvariance, PaceInvariance, PTL
===============================================================================
