------------------------------- MODULE Gateway -------------------------------
(***************************************************************************)
(* The Gateway's tools/call (gateway/server.py) with the parts it calls:   *)
(* the Entitlement Manager's profiles and their push into OPA, the two     *)
(* queries of PDPClient.evaluate, ApprovalService, the Capability Router   *)
(* and the backend's credential, the call downstream.                      *)
(*                                                                         *)
(* Calls are coroutines of one event loop: an action is what a handler     *)
(* does from one await to the next.  An await ends with an answer or with  *)
(* an error, whichever comes first.  OPA outlives the Gateway and keeps    *)
(* what was pushed; approvals live in the Gateway's memory.                *)
(***************************************************************************)
EXTENDS Policy, ApprovalStore, FiniteSets, TLC

CONSTANTS
    Calls,          \* slots for the calls in flight
    Requests,       \* the calls clients make: client (None: no token), tool, args
    Registrations,  \* client -> profile name
    Versions,       \* the profiles on disk, version after version: name -> profile
    Manifests,      \* tool -> service and type, for each ACTIVE manifest
    Backends,       \* service -> how its credential is had: "static", "unset"
                    \* (no environment variable, no exchange client), "exchange"
    Ttl,            \* an approval's ttl_seconds
    MaxTime,        \* bound on the clock
    Weight,         \* request -> what a call of it takes of MaxCalls
    MaxCalls,       \* bound on the calls received
    MaxDecisions,   \* bound on the approvals granted and denied
    MaxSyncs,       \* bound on the boots and reloads
    MaxFailures     \* bound on the Gateway's crashes and failed boots and on
                    \* OPA's restarts, taken together

ASSUME RegistrationsAssumption == None \notin DOMAIN Registrations
ASSUME VersionsAssumption ==
    /\ Len(Versions) \in Nat \ {0} /\ DOMAIN Versions = 1..Len(Versions)
    /\ \A v \in DOMAIN Versions : DOMAIN Versions[v] # {}
ASSUME TtlAssumption == Ttl \in Nat \ {0}
ASSUME CallsAssumption == IsFiniteSet(Calls)
ASSUME BackendsAssumption == \A s \in DOMAIN Backends : Backends[s] \in {"static", "unset", "exchange"}
ASSUME BoundsAssumption ==
    /\ {MaxTime, MaxCalls, MaxDecisions, MaxSyncs, MaxFailures} \subseteq Nat
    /\ \A r \in Requests : Weight[r] \in Nat
ASSUME NoneAssumption ==
    None \notin {"DENY", "REQUIRE_APPROVAL", "ALLOW", "RESULT", "tool_call_allowed",
                 "tool_call_denied", "tool_call_require_approval", "pdp_unavailable",
                 "backend_credential_unavailable"}

VARIABLES
    gateway,    \* "down", "boot" (lifespan before its yield) or "up"
    version,    \* the version of the profiles on disk
    profiles,   \* EntitlementManager._profiles
    toPush,     \* the profiles sync_profiles_to_pdp has not pushed yet
    opa,        \* OPA's data: profile name -> document
    requests,   \* ApprovalService._requests
    now,        \* the clock
    call,       \* each slot's call
    ledger,     \* history, per operation: its grants and the times a backend
                \* ran it on the strength of an approval
    budget      \* what is left of the bounds above

entitlement == <<version, profiles, toPush, opa>>
vars == <<gateway, entitlement, requests, now, call, ledger, budget>>

Nothing == [x \in {} |-> x]

Operations ==
    {[profile |-> Registrations[r.client], tool |-> r.tool, args |-> r.args] :
        r \in {s \in Requests : s.client \in DOMAIN Registrations}}

Replies == {"RESULT", "RAISED", "UNAUTHENTICATED", "UNKNOWN_CLIENT", "PDP_UNAVAILABLE",
            "NOT_IN_ENTITLEMENT", "TRANSACTION_POLICY_DENIED", "REQUIRE_APPROVAL",
            "UNROUTABLE_CAPABILITY", "UNSUPPORTED_BACKEND_TYPE"}

\* op: None, or what was asked in the resolved profile's name.  outcome: what
\* evaluate returned.  sent: the call is on its way downstream.  ran: a backend
\* ran it.  reply, event: what the client and the audit sink got.  seen: OPA's
\* data at each moment of the evaluation (history).
NoCall == [pc |-> "idle", op |-> None, outcome |-> None, sent |-> FALSE, ran |-> FALSE,
           reply |-> None, event |-> None, seen |-> {}]

Init ==
    /\ gateway = "down"
    /\ version = 1
    /\ profiles = Nothing
    /\ toPush = {}
    /\ opa = Nothing
    /\ requests = <<>>
    /\ now = 0
    /\ call = [c \in Calls |-> NoCall]
    /\ ledger = [o \in Operations |-> [grants |-> 0, runs |-> 0]]
    /\ budget = [calls |-> MaxCalls, decisions |-> MaxDecisions,
                 syncs |-> MaxSyncs, failures |-> MaxFailures]

-----------------------------------------------------------------------------
(* The end of a handler: a structured result, or an exception that leaves  *)
(* on_call_tool.                                                           *)

Answer(c, reply, event) ==
    call' = [call EXCEPT ![c].pc = "done", ![c].reply = reply, ![c].event = event]

Raise(c) == Answer(c, "RAISED", None)

Gated(c) == call[c].outcome = "REQUIRE_APPROVAL"

\* The slots are alike, so one of those that are free will do.
FreeSlot == CHOOSE c \in Calls : call[c].pc = "idle" \/ \A d \in Calls : call[d].pc # "idle"

\* Up to the first await: the token, the client's registration and profile.
Receive(c, r) ==
    /\ gateway = "up"
    /\ c = FreeSlot
    /\ call[c].pc = "idle"
    /\ budget.calls >= Weight[r]
    /\ budget' = [budget EXCEPT !.calls = @ - Weight[r]]
    /\ \/ /\ r.client = None
          /\ Answer(c, "UNAUTHENTICATED", None)
       \/ /\ r.client # None
          /\ ~(r.client \in DOMAIN Registrations /\ Registrations[r.client] \in DOMAIN profiles)
          /\ Answer(c, "UNKNOWN_CLIENT", None)
       \/ /\ r.client \in DOMAIN Registrations
          /\ Registrations[r.client] \in DOMAIN profiles
          /\ call' = [call EXCEPT
                ![c].pc = "entitle",
                ![c].op = [profile |-> Registrations[r.client], tool |-> r.tool, args |-> r.args],
                ![c].seen = {opa}]
    /\ UNCHANGED <<gateway, entitlement, requests, now, ledger>>

\* A mutant: the first answer is not looked at.
EntitlementForgotten(c) ==
    /\ call[c].pc = "entitle"
    /\ call' = [call EXCEPT ![c].pc = "transact"]
    /\ UNCHANGED <<gateway, entitlement, requests, now, ledger, budget>>

EntitlementAnswer(c) ==
    /\ call[c].pc = "entitle"
    /\ IF EntitlementAllow(opa, call[c].op.profile, call[c].op.tool)
       THEN call' = [call EXCEPT ![c].pc = "transact"]
       ELSE Answer(c, "NOT_IN_ENTITLEMENT", "tool_call_denied")
    /\ UNCHANGED <<gateway, entitlement, requests, now, ledger, budget>>

\* OPA evaluates the transaction; the handler goes on later, with this answer.
TransactionAnswer(c) ==
    /\ call[c].pc = "transact"
    /\ call' = [call EXCEPT
          ![c].pc = "answered",
          ![c].outcome = TransactionOutcome(opa, call[c].op.profile, call[c].op.args, None)]
    /\ UNCHANGED <<gateway, entitlement, requests, now, ledger, budget>>

\* A mutant: the queries have no timeout.
PdpWaitsForever(c) == FALSE /\ UNCHANGED vars

\* A timeout, a connection error, an error status.
PdpUnavailable(c) ==
    /\ call[c].pc \in {"entitle", "transact"}
    /\ Answer(c, "PDP_UNAVAILABLE", "pdp_unavailable")
    /\ UNCHANGED <<gateway, entitlement, requests, now, ledger, budget>>

\* A body that is not JSON, or not an object: response.json() and body.get
\* raise what _query does not catch.
PdpGarbled(c) ==
    /\ call[c].pc \in {"entitle", "transact"}
    /\ Raise(c)
    /\ UNCHANGED <<gateway, entitlement, requests, now, ledger, budget>>

Denied(c) ==
    /\ call[c].pc = "answered"
    /\ call[c].outcome = "DENY"
    /\ Answer(c, "TRANSACTION_POLICY_DENIED", "tool_call_denied")
    /\ UNCHANGED <<gateway, entitlement, requests, now, ledger, budget>>

-----------------------------------------------------------------------------
(* The route, the credential, the call downstream.                         *)

\* A mutant: a denial is the reply to any failure downstream.
FailureIsDenial(c) == Answer(c, "UNROUTABLE_CAPABILITY", "tool_call_denied")

DownstreamError(c) == Raise(c)

Unroutable(tool) ==
    tool \notin DOMAIN Manifests \/ Manifests[tool].service \notin DOMAIN Backends

Mode(tool) == Backends[Manifests[tool].service]

\* With the credential in hand.
Connect(c) ==
    IF Manifests[call[c].op.tool].type = "mcp"
    THEN call' = [call EXCEPT ![c].pc = "connect", ![c].sent = TRUE]
    ELSE Answer(c, "UNSUPPORTED_BACKEND_TYPE", "backend_credential_unavailable")

\* A credential that is not configured raises BackendCredentialUnavailableError,
\* which nothing on the way catches.
Dispatch(c) ==
    LET tool == call[c].op.tool IN
    IF Unroutable(tool) THEN Answer(c, "UNROUTABLE_CAPABILITY", "tool_call_denied")
    ELSE CASE Mode(tool) = "unset" -> Raise(c)
           [] Mode(tool) = "static" -> Connect(c)
           [] Mode(tool) = "exchange" -> call' = [call EXCEPT ![c].pc = "exchange"]

Allowed(c) ==
    /\ call[c].pc = "answered"
    /\ call[c].outcome = "ALLOW"
    /\ Dispatch(c)
    /\ UNCHANGED <<gateway, entitlement, requests, now, ledger, budget>>

IsFirst(i, ids) == i \in ids /\ \A j \in ids : i <= j

\* A mutant: the approval is left granted.
KeepApproval(i) == UNCHANGED requests

SpendApproval(i) == requests' = WithStatus(requests, i, "consumed")

Spendable(o) == {i \in DOMAIN requests : Releasable(requests[i], o, now)}

\* check_and_consume is True.  No await comes between it and Dispatch.
Approved(c) ==
    /\ call[c].pc = "answered"
    /\ Gated(c)
    /\ \E i \in DOMAIN requests : IsFirst(i, Spendable(call[c].op)) /\ SpendApproval(i)
    /\ Dispatch(c)
    /\ UNCHANGED <<gateway, entitlement, now, ledger, budget>>

\* check_and_consume is False: the live pending request for the operation is
\* named in the reply, a new one if there is none.
AskApproval(c) ==
    /\ call[c].pc = "answered"
    /\ Gated(c)
    /\ Spendable(call[c].op) = {}
    /\ IF \E i \in DOMAIN requests : LivePending(requests[i], call[c].op, now)
       THEN UNCHANGED requests
       ELSE requests' = Append(requests, NewRequest(call[c].op, now, Ttl))
    /\ Answer(c, "REQUIRE_APPROVAL", "tool_call_require_approval")
    /\ UNCHANGED <<gateway, entitlement, now, ledger, budget>>

ExchangeAnswer(c) ==
    /\ call[c].pc = "exchange"
    /\ Connect(c)
    /\ UNCHANGED <<gateway, entitlement, requests, now, ledger, budget>>

ExchangeFails(c) ==
    /\ call[c].pc = "exchange"
    /\ Raise(c)
    /\ UNCHANGED <<gateway, entitlement, requests, now, ledger, budget>>

\* A backend runs the tool; the Gateway may have given up by then.
DownstreamRuns(c) ==
    /\ call[c].sent
    /\ call' = [call EXCEPT ![c].sent = FALSE, ![c].ran = TRUE]
    /\ ledger' = IF Gated(c) THEN [ledger EXCEPT ![call[c].op].runs = @ + 1] ELSE ledger
    /\ UNCHANGED <<gateway, entitlement, requests, now, budget>>

\* A backend answers is_error without running anything: it has no such tool, or
\* the arguments are not those the tool declares.
DownstreamRefuses(c) ==
    /\ call[c].sent
    /\ call' = [call EXCEPT ![c].sent = FALSE]
    /\ UNCHANGED <<gateway, entitlement, requests, now, ledger, budget>>

\* The backend's answer, whatever it says, is the result of an allowed call.
DownstreamReturns(c) ==
    /\ call[c].pc = "connect"
    /\ ~call[c].sent
    /\ Answer(c, "RESULT", "tool_call_allowed")
    /\ UNCHANGED <<gateway, entitlement, requests, now, ledger, budget>>

\* The session breaks, whether or not the backend has run the call.
DownstreamFails(c) ==
    /\ call[c].pc = "connect"
    /\ DownstreamError(c)
    /\ UNCHANGED <<gateway, entitlement, requests, now, ledger, budget>>

\* The reply is out and the slot is free for another call.
Return(c) ==
    /\ call[c].pc = "done"
    /\ call' = [call EXCEPT ![c] = NoCall]
    /\ UNCHANGED <<gateway, entitlement, requests, now, ledger, budget>>

-----------------------------------------------------------------------------
(* Approvers, on the event loop.                                           *)

Grant(i) ==
    /\ gateway = "up"
    /\ budget.decisions > 0
    /\ budget' = [budget EXCEPT !.decisions = @ - 1]
    /\ requests' = WithStatus(requests, i, "granted")
    /\ ledger' = [ledger EXCEPT ![requests[i].op].grants = @ + 1]
    /\ UNCHANGED <<gateway, entitlement, now, call>>

Deny(i) ==
    /\ gateway = "up"
    /\ budget.decisions > 0
    /\ budget' = [budget EXCEPT !.decisions = @ - 1]
    /\ requests' = WithStatus(requests, i, "denied")
    /\ UNCHANGED <<gateway, entitlement, now, call, ledger>>

-----------------------------------------------------------------------------
(* Boot, the push of the profiles into OPA, crashes.                       *)

\* What every evaluation under way sees of a change of OPA's data.
OpaBecomes(data) ==
    /\ opa' = data
    /\ call' = [c \in Calls |->
          IF call[c].pc \in {"entitle", "transact"}
          THEN [call[c] EXCEPT !.seen = @ \cup {data}] ELSE call[c]]

LoadProfiles(v) ==
    /\ budget.syncs > 0
    /\ budget' = [budget EXCEPT !.syncs = @ - 1]
    /\ version' = v
    /\ profiles' = Versions[v]
    /\ toPush' = DOMAIN Versions[v]

Start ==
    /\ gateway = "down"
    /\ gateway' = "boot"
    /\ \E v \in version..Len(Versions) : LoadProfiles(v)
    /\ UNCHANGED <<opa, requests, now, call, ledger>>

\* load_profiles and sync_profiles_to_pdp on a Gateway that serves calls, one
\* sync at a time.
Reload ==
    /\ gateway = "up"
    /\ toPush = {}
    /\ \E v \in version..Len(Versions) : LoadProfiles(v)
    /\ UNCHANGED <<gateway, opa, requests, now, call, ledger>>

Pushed(p) ==
    [q \in {p} \cup DOMAIN opa |-> IF q = p THEN Document(profiles[p]) ELSE opa[q]]

\* A boot is over with its last push.
Push(p) ==
    /\ p \in toPush
    /\ toPush' = toPush \ {p}
    /\ OpaBecomes(Pushed(p))
    /\ gateway' = IF toPush' = {} THEN "up" ELSE gateway
    /\ UNCHANGED <<version, profiles, requests, now, ledger, budget>>

Down ==
    /\ budget.failures > 0
    /\ budget' = [budget EXCEPT !.failures = @ - 1]
    /\ gateway' = "down"
    /\ profiles' = Nothing
    /\ requests' = <<>>

\* OPA may have taken the document; that it takes it after the Gateway has given
\* up on it is left out.  A boot fails with the push; a reload leaves the rest
\* unpushed.
PushFails(p) ==
    /\ p \in toPush
    /\ toPush' = {}
    /\ \E data \in {opa, Pushed(p)} : OpaBecomes(data)
    /\ \/ gateway = "boot" /\ Down
       \/ gateway = "up" /\ UNCHANGED <<gateway, profiles, requests, budget>>
    /\ UNCHANGED <<version, now, ledger>>

\* The process dies with its calls and its approvals; what was sent downstream
\* may still be run.
Crash ==
    /\ gateway = "up"
    /\ Down
    /\ toPush' = {}
    /\ call' = [c \in Calls |->
          IF call[c].sent THEN [call[c] EXCEPT !.pc = "done", !.reply = "RAISED"] ELSE NoCall]
    /\ UNCHANGED <<version, opa, now, ledger>>

\* OPA keeps no data across a restart.
OpaRestart ==
    /\ budget.failures > 0
    /\ budget' = [budget EXCEPT !.failures = @ - 1]
    /\ OpaBecomes(Nothing)
    /\ UNCHANGED <<gateway, version, profiles, toPush, requests, now, ledger>>

Tick ==
    /\ now < MaxTime
    /\ now' = now + 1
    /\ UNCHANGED <<gateway, entitlement, requests, call, ledger, budget>>

-----------------------------------------------------------------------------
\* What a handler does by itself, the timeouts of its HTTP clients for OPA and
\* the identity provider included.
Handle(c) ==
    \/ PdpUnavailable(c)
    \/ Denied(c)
    \/ Allowed(c)
    \/ Approved(c)
    \/ AskApproval(c)
    \/ ExchangeFails(c)
    \/ Return(c)

\* The services a handler waits for.  _with_downstream_session sets no timeout:
\* a backend may keep its session open for good.
Respond(c) ==
    \/ EntitlementAnswer(c)
    \/ TransactionAnswer(c)
    \/ PdpGarbled(c)
    \/ ExchangeAnswer(c)
    \/ DownstreamRuns(c)
    \/ DownstreamRefuses(c)
    \/ DownstreamReturns(c)
    \/ DownstreamFails(c)

Next ==
    \/ \E c \in Calls, r \in Requests : Receive(c, r)
    \/ \E c \in Calls : Handle(c) \/ Respond(c)
    \/ \E i \in DOMAIN requests : Grant(i) \/ Deny(i)
    \/ \E p \in toPush : Push(p) \/ PushFails(p)
    \/ Start
    \/ Reload
    \/ Crash
    \/ OpaRestart
    \/ Tick

Spec == Init /\ [][Next]_vars

\* The event loop runs what is ready, and httpx gives up on a silent OPA or
\* identity provider.  Nothing is assumed of backends.
FairSpec == Spec /\ \A c \in Calls : WF_vars(Handle(c))

-----------------------------------------------------------------------------
TypeOK ==
    /\ gateway \in {"down", "boot", "up"}
    /\ version \in DOMAIN Versions
    /\ profiles \in {Nothing} \cup {Versions[v] : v \in DOMAIN Versions}
    /\ toPush \subseteq DOMAIN profiles
    /\ \A p \in DOMAIN opa :
        \E v \in DOMAIN Versions : p \in DOMAIN Versions[v] /\ opa[p] = Document(Versions[v][p])
    /\ \A i \in DOMAIN requests :
        requests[i] \in [op : Operations, status : Statuses, expires_at : Ttl..MaxTime + Ttl]
    /\ now \in 0..MaxTime
    /\ \A c \in Calls :
        /\ call[c].pc \in {"idle", "entitle", "transact", "answered", "exchange",
                           "connect", "done"}
        /\ call[c].op \in Operations \cup {None}
        /\ call[c].outcome \in {None, "DENY", "REQUIRE_APPROVAL", "ALLOW"}
        /\ call[c].reply \in Replies \cup {None}
    /\ ledger \in [Operations -> [grants : 0..MaxDecisions, runs : 0..MaxDecisions]]
    /\ budget \in [calls : 0..MaxCalls, decisions : 0..MaxDecisions,
                   syncs : 0..MaxSyncs, failures : 0..MaxFailures]

\* A call goes downstream only if, on data OPA held while the call was
\* evaluated, its profile is entitled to the tool and the transaction policy
\* answers what the call went by.  When no push or restart of OPA falls into
\* the evaluation, that is the two-step decision on one and the same data; when
\* one does, each step may have answered on different data, and no more can be
\* said: a call that neither version of a profile allows may then run.
DecidedByPolicy ==
    \A c \in Calls : call[c].sent \/ call[c].ran =>
        LET o == call[c].op IN
        /\ \E d \in call[c].seen : EntitlementAllow(d, o.profile, o.tool)
        /\ \E d \in call[c].seen :
            /\ TransactionOutcome(d, o.profile, o.args, None) = call[c].outcome
            /\ call[c].outcome # "DENY"

\* Over crashes, expiries and lost replies, the times a backend ran or is about
\* to run an operation that needs approval never exceed the grants it was given.
GatedRunsBackedByGrants ==
    \A o \in Operations :
        ledger[o].runs + Cardinality({c \in Calls : call[c].sent /\ Gated(c) /\ call[c].op = o})
            <= ledger[o].grants

\* A denial is final: no backend ran the call a client or the audit trail is
\* told was denied, and none will run it, though a failure downstream, or a
\* crash, may leave it on its way.
DeniedIsNotRun ==
    \A c \in Calls :
        call[c].pc = "done"
            /\ (call[c].reply \notin {"RESULT", "RAISED"}
                 \/ call[c].event \notin {None, "tool_call_allowed"})
        => ~call[c].sent /\ ~call[c].ran

\* A call is never left hanging on an OPA or an identity provider that is
\* silent: it ends, or gets to a backend.  There it may wait without bound.
CallsAnswered == \A c \in Calls : call[c].pc # "idle" ~> call[c].pc \in {"idle", "connect"}

\* What GrantPromise says of approvals and runs is kept: Spendable is on offer; a
\* call that took an offer is under way until a backend runs it or it is lost.
OnItsWay(k) == (k.sent \/ k.pc = "exchange") /\ k.outcome = "REQUIRE_APPROVAL"

OnWay(o) == {c \in Calls : OnItsWay(call[c]) /\ call[c].op = o}

Promise == INSTANCE GrantPromise WITH
    offers <- [o \in Operations |-> Spendable(o)],
    underway <- [o \in Operations |-> OnWay(o)],
    runs <- [o \in Operations |-> ledger[o].runs]

\* Crashes, expiries, restarts, lost replies and calls that compete come down to
\* offers made, taken one by one, run once each, or lost.
KeepsGrants == Promise!Spec

\* What pdp-opa.en-us.md:72 says of "OPA unreachable, timeout, malformed
\* response": each is PDP_UNAVAILABLE, on_call_tool does not raise while it
\* evaluates.
MalformedAnswerIsDenied ==
    \A c \in Calls : call[c].pc = "done" /\ call[c].reply = "RAISED" => call[c].outcome # None

\* What downstream-identity.en-us.md:93 says of a credential that is not there
\* ("call denied"): such a call is answered.
MissingCredentialIsDenied ==
    \A c \in Calls :
        call[c].pc = "done" /\ call[c].reply = "RAISED" /\ call[c].outcome # None =>
            Mode(call[c].op.tool) # "unset"

\* What mcp-gateway.en-us.md:62 says ("Every denial is a structured
\* CallToolResult (is_error: true), never a protocol error") holds of one of
\* these two denials at least.  A behavior that violates this refutes it of both.
FailuresAreDenials == MalformedAnswerIsDenied \/ MissingCredentialIsDenied

\* What audit-events.en-us.md:73 says of tool_call_denied ("Any tools/call
\* denial"): a call refused to a client that has a token leaves an event.
DenialsAudited ==
    \A c \in Calls : call[c].pc = "done" /\ call[c].event = None =>
        call[c].reply \in {"RESULT", "RAISED", "UNAUTHENTICATED"}

\* What audit-events.en-us.md:72 says of tool_call_allowed ("A tools/call was
\* executed successfully"): a backend ran the call.
AllowedWasExecuted ==
    \A c \in Calls : call[c].pc = "done" /\ call[c].event = "tool_call_allowed" => call[c].ran

\* One of these two rows of the table of events holds at least.  A behavior that
\* violates this refutes both.
EventsAsDocumented == DenialsAudited \/ AllowedWasExecuted
=============================================================================
