------------------------------- MODULE Catalog -------------------------------
(***************************************************************************)
(* tools/list: a request on its way through the Gateway's ASGI app         *)
(* (canonical_request.py), the bearer token's verification (identity/),    *)
(* and on_list_tools (gateway/server.py), which asks the entitlement and   *)
(* one backend after the other, each behind its BackendCredentialGate.     *)
(* tools/call of the same path is Gateway's.                               *)
(***************************************************************************)
EXTENDS Entitlement, TokenExchange, FiniteSets

CONSTANTS
    Services,       \* capability -> the backend.service of its ACTIVE manifest
    Offers,         \* backend -> the tools its own tools/list has
    Guarded,        \* the backends behind a BackendCredentialGate
    AuthConfigured, \* build_auth found an identity provider
    Leeway,         \* leeway_seconds of TokenValidator
    Absent          \* no such header, token, claim or value

ASSUME ServicesAssumption ==
    \A t \in DOMAIN Services : Services[t] \in Configured \cup Unknown
ASSUME AbsentAssumption ==
    Absent \notin {"tools/list", "tools/call", "listed", "call", "raised"}

VARIABLES
    list,           \* caller -> its request's progress
    rotated,        \* the backends whose gate expects another credential now
    failed,         \* history: a backend, the provider or a credential has failed
    trail           \* caller -> the events of its request the sink has

catalogVars == <<list, rotated, failed, trail>>

\* pc: "idle", "gate", "verify", "serve", "backends", "credential", "session",
\* or "done".  History: truth, the tools the client was entitled to when its
\* request was served, and skipped, the backends that had no credential then.
NoRequest ==
    [pc |-> "idle", request |-> Absent, client |-> Absent, entitled |-> {}, todo |-> {},
     at |-> Absent, tools |-> {}, reply |-> Absent, truth |-> {}, skipped |-> {}]

InitCatalog ==
    /\ list = [c \in Callers |-> NoRequest]
    /\ rotated = {}
    /\ failed = FALSE
    /\ trail = [c \in Callers |-> {}]

SetsList(c, r) ==
    /\ list' = [list EXCEPT ![c] = r]
    /\ UNCHANGED <<rotated, failed>>

Ends(c, reply) == SetsList(c, [list[c] EXCEPT !.pc = "done", !.reply = reply])

Quiet == UNCHANGED <<entitlementVars, exchangeVars>>

\* A sink that fails is suppressed: the event is lost, the request goes on.
Emits(c, event) ==
    \/ trail' = [trail EXCEPT ![c] = @ \cup {event}]
    \/ trail' = trail

-----------------------------------------------------------------------------
(* The way in.                                                             *)

Submit(c, request) ==
    /\ list[c].pc = "idle"
    /\ SetsList(c, [NoRequest EXCEPT !.pc = "gate", !.request = request])
    /\ trail' = [trail EXCEPT ![c] = {}]
    /\ Quiet

\* NAME_BEARING_METHODS of the SDK, as far as the Gateway serves them.
NameBearing == {"tools/call"}

\* A mutant: the name is not compared.
MismatchOfMethod(header, body) ==
    header.method # Absent /\ body.method # Absent /\ header.method # body.method

\* find_header_body_mismatch.  A body whose method or name is Absent is not
\* JSON-RPC, or has no string there.
Mismatch(header, body) ==
    /\ body.method # Absent
    /\ \/ header.method # Absent /\ header.method # body.method
       \/ /\ header.name # Absent
          /\ body.method \in NameBearing
          /\ body.name # Absent
          /\ header.name # body.name

HeaderBodyMismatch(c) ==
    /\ list[c].pc = "gate"
    /\ Mismatch(list[c].request.header, list[c].request.body)
    /\ Ends(c, "header_body_mismatch")
    /\ Quiet /\ UNCHANGED trail

\* The buffered body is replayed to the app.
Replayed(c) ==
    /\ list[c].pc = "gate"
    /\ ~Mismatch(list[c].request.header, list[c].request.body)
    /\ SetsList(c, [list[c] EXCEPT !.pc = "verify"])
    /\ Quiet /\ UNCHANGED trail

\* TokenValidator.validate: signature, issuer and audience, expiry, and a client
\* named by azp or else by client_id.
ClientOf(bearer) == IF bearer.azp # Absent THEN bearer.azp ELSE bearer.client_id

Validates(bearer) ==
    /\ bearer # Absent
    /\ bearer.genuine
    /\ bearer.exp > clock - Leeway
    /\ ClientOf(bearer) # Absent

\* verify_token gives the SDK's middleware no user, which answers 401.
Unauthorized(c) ==
    /\ list[c].pc = "verify"
    /\ AuthConfigured
    /\ ~Validates(list[c].request.bearer)
    /\ Ends(c, "unauthorized")
    /\ Quiet /\ UNCHANGED trail

\* Without build_auth's middleware every request is served, as nobody's.
Authorized(c) ==
    /\ list[c].pc = "verify"
    /\ AuthConfigured => Validates(list[c].request.bearer)
    /\ SetsList(c, [list[c] EXCEPT !.pc = "serve",
           !.client = IF AuthConfigured THEN ClientOf(list[c].request.bearer) ELSE Absent])
    /\ Quiet /\ UNCHANGED trail

\* The SDK answers what is no request of a tools method.
Invalid(c) ==
    /\ list[c].pc = "serve"
    /\ list[c].request.body.method = Absent
    /\ Ends(c, "invalid")
    /\ Quiet /\ UNCHANGED trail

\* on_call_tool takes it from here, with the body's name.
Call(c) ==
    /\ list[c].pc = "serve"
    /\ list[c].request.body.method = "tools/call"
    /\ Ends(c, "call")
    /\ Quiet /\ UNCHANGED trail

-----------------------------------------------------------------------------
(* on_list_tools.                                                          *)

Lists(c) == list[c].pc = "serve" /\ list[c].request.body.method = "tools/list"

Truth(client) ==
    IF client \in DOMAIN registered /\ registered[client] \in DOMAIN loaded
    THEN loaded[registered[client]] ELSE {}

\* Nobody's request, or a client resolve does not know: an empty list, no event.
EmptyList(c) ==
    /\ Lists(c)
    /\ list[c].client = Absent \/ ~Resolves(list[c].client)
    /\ Ends(c, "listed")
    /\ Quiet /\ UNCHANGED trail

DistinctBackendsFor(tools) == {Services[t] : t \in tools \cap DOMAIN Services}

ResolveForList(c) ==
    LET client == list[c].client IN
    /\ Lists(c)
    /\ client # Absent
    /\ Resolve(client)
    /\ LET tools == cache'[client].allowed_tools IN
       SetsList(c, [list[c] EXCEPT !.pc = "backends", !.entitled = tools,
                                   !.todo = DistinctBackendsFor(tools), !.truth = Truth(client)])
    /\ Emits(c, "client_authenticated")
    /\ UNCHANGED exchangeVars

\* The next backend; which one comes first makes no difference here.
CredentialForBackend(c) ==
    /\ list[c].pc = "backends"
    /\ \E b \in list[c].todo :
         /\ CredentialFor(c, b)
         /\ SetsList(c, [list[c] EXCEPT !.pc = "credential", !.at = b, !.todo = @ \ {b}])
    /\ UNCHANGED <<entitlementVars, trail>>

\* A backend without a credential is left out.
Skipped(c) ==
    /\ list[c].pc = "credential"
    /\ credential[c].pc = "unavailable"
    /\ SetsList(c, [list[c] EXCEPT !.pc = "backends", !.skipped = @ \cup {list[c].at}])
    /\ Quiet /\ UNCHANGED trail

CredentialRaises(c) ==
    /\ list[c].pc = "credential"
    /\ credential[c].pc = "raised"
    /\ Ends(c, "raised")
    /\ Quiet /\ UNCHANGED trail

Connects(c) ==
    /\ list[c].pc = "credential"
    /\ credential[c].pc = "got"
    /\ SetsList(c, [list[c] EXCEPT !.pc = "session"])
    /\ Quiet /\ UNCHANGED trail

\* BackendCredentialGate: the credential is the one the backend was started with.
Rejects(b) == b \in Guarded \cap rotated

\* A mutant: what the backend offers is listed as it is.
AllowedAll(c) == Offers[list[c].at]

Allowed(c) == Offers[list[c].at] \cap list[c].entitled

SessionLists(c) ==
    /\ list[c].pc = "session"
    /\ ~Rejects(list[c].at)
    /\ SetsList(c, [list[c] EXCEPT !.pc = "backends", !.tools = @ \cup Allowed(c)])
    /\ Quiet /\ UNCHANGED trail

\* The gate answers 401 and reports a bypass, to the backend's own sink.
GateRejects(c) ==
    /\ list[c].pc = "session"
    /\ Rejects(list[c].at)
    /\ Ends(c, "raised")
    /\ trail' = [trail EXCEPT ![c] = @ \cup {"bypass_attempt_detected"}]
    /\ Quiet

Fails(c, r) ==
    /\ list' = [list EXCEPT ![c] = r]
    /\ failed' = TRUE
    /\ UNCHANGED <<rotated, trail>>
    /\ Quiet

\* A mutant: a backend that fails is left out.
SessionSkipped(c) ==
    /\ list[c].pc = "session"
    /\ Fails(c, [list[c] EXCEPT !.pc = "backends"])

\* The connection, the initialization or the backend's answer fails: so does
\* the whole request.
SessionFails(c) ==
    /\ list[c].pc = "session"
    /\ Fails(c, [list[c] EXCEPT !.pc = "done", !.reply = "raised"])

\* A mutant: an event that the sink refuses is not let go.
EmissionRaises(c) ==
    /\ list[c].pc = "backends"
    /\ list[c].todo = {}
    /\ \/ Ends(c, "listed") /\ trail' = [trail EXCEPT ![c] = @ \cup {"tools_list_filtered"}]
       \/ Ends(c, "raised") /\ UNCHANGED trail
    /\ Quiet

Listed(c) ==
    /\ list[c].pc = "backends"
    /\ list[c].todo = {}
    /\ Ends(c, "listed")
    /\ Emits(c, "tools_list_filtered")
    /\ Quiet

\* The client has its answer.
Answered(c) ==
    /\ list[c].pc = "done"
    /\ SetsList(c, NoRequest)
    /\ Forgets(c)
    /\ trail' = [trail EXCEPT ![c] = {}]
    /\ UNCHANGED entitlementVars

AwaitsCredential(c) ==
    /\ list[c].pc = "credential"
    /\ SubjectToken(c) \/ Issue(c) \/ Exchanged(c)
    /\ UNCHANGED <<entitlementVars, catalogVars>>

CredentialFails(c) ==
    /\ list[c].pc = "credential"
    /\ ExchangeFails(c)
    /\ failed' = TRUE
    /\ UNCHANGED <<entitlementVars, list, rotated, trail>>

\* The credential a backend expects is changed, or changed back.
Rotate(b) ==
    /\ rotated' = IF b \in rotated THEN rotated \ {b} ELSE rotated \cup {b}
    /\ failed' = TRUE
    /\ UNCHANGED <<list, trail>>
    /\ Quiet

-----------------------------------------------------------------------------
\* What a request does when nothing fails, and what may fail under way.
Serve(c) ==
    \/ HeaderBodyMismatch(c) \/ Replayed(c)
    \/ Unauthorized(c) \/ Authorized(c)
    \/ Invalid(c) \/ Call(c)
    \/ EmptyList(c) \/ ResolveForList(c)
    \/ CredentialForBackend(c) \/ AwaitsCredential(c)
    \/ Skipped(c) \/ CredentialRaises(c) \/ Connects(c)
    \/ SessionLists(c) \/ GateRejects(c)
    \/ Listed(c)

ServeFails(c) == CredentialFails(c) \/ SessionFails(c)

-----------------------------------------------------------------------------
\* A list shows what the client was entitled to when its request was served:
\* never more, whatever was resolved for the client before, and never less but
\* for the backends that have no credential; one that fails is not left out.
ListsAreExact ==
    \A c \in Callers : list[c].pc = "done" /\ list[c].reply = "listed" =>
        list[c].tools = list[c].truth \cap
            UNION {Offers[b] : b \in DistinctBackendsFor(list[c].truth) \ list[c].skipped}

\* A handler runs what the headers say that it runs, when they say something.
ServedAsLabelled ==
    \A c \in Callers : list[c].reply \in {"listed", "call"} =>
        LET header == list[c].request.header
            body == list[c].request.body
        IN  /\ header.method \in {Absent, body.method}
            /\ list[c].reply = "call" /\ body.name # Absent => header.name \in {Absent, body.name}

\* A request raises only after a backend, the identity provider or a credential
\* has failed: a sink that loses events does not take the answer with it.
OnlyFailuresRaise == \A c \in Callers : list[c].reply = "raised" => failed
=============================================================================
