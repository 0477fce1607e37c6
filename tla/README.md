# Enterprise MCP Service Bus: specifications and proofs

TLA+ models of the reference implementation under `RI/`, the TLC runs that check
them and the TLAPS proofs about them. Paths below are relative to
`RI/src/emcp_bus/` unless they start with `RI/`. `PROJECT.json` holds, for every
definition that models code, the lines it models, and the list of hazards.

## 1. Inventory

The bus puts one Gateway between MCP clients (agents) and domain servers
("backends"). A call is authenticated, its profile is looked up, OPA decides in
two steps, an approval is asked for when the decision says so, the call is routed
and sent downstream with the Gateway's own credential.

| Component | State | Operations | What is hard | What makes it correct |
|---|---|---|---|---|
| ApprovalService (`approval/`) | a dict of requests: operation, status, expiry; a lock | request, grant, deny, check_and_consume | threads; grant and deny take no lock; unlocked loops over a growing dict; expiry; re-grants | one release per grant; one live pending request; no event without a grant |
| PDP client and policies (`pdp/`, `RI/config/policies/`) | OPA's data: profile documents | push, evaluate (two queries) | data changing between the queries; timeouts; malformed answers; undefined versus null; boundaries | fail closed; a stricter profile never allows more |
| Entitlement Manager (`entitlement/`) | registrations, profiles, a cache | load, sync, resolve, revoke | sync pushes profiles one by one; OPA restarts; loads while a sync is under way | OPA settles on what is in memory |
| Gateway (`gateway/server.py`) | the live state of a lifespan; one coroutine per call | lifespan, tools/call, tools/list | every await: approvals, profiles, OPA and the process change meanwhile; failures after an approval is spent; lost replies; backends that refuse or never answer | nothing runs undecided; gated runs are backed by grants; what is denied is not run; lists are exact; no call hangs on OPA or the identity provider |
| Header/body gate, token verification (`gateway/canonical_request.py`, `identity/`) | a buffered body | compare, replay; validate | labels and body disagree; half a label; expiry with a leeway | what runs is what the labels say; no request of nobody |
| Capability Router, Registry (`fabric/`, `registry/`) | a table of manifests with a lifecycle status | submit, publish, set status; route, list active | read-modify-write over two transactions; upsert past the lifecycle; crash between steps | nothing is ACTIVE unreviewed; ACTIVE is entered from REGISTER |
| Backend credentials and the backends' gate (`downstream/`, `audit/bypass_detection.py`) | a token cache per backend; the credential a backend expects | credential_for, exchange; the gate | concurrent misses, late overwrite, expiry margin; rotation | a token handed out again is not expired |
| Journey (`orchestrator/`, `offering_filter/`) | a checkpointed graph state per thread | invoke, resume, denial re-entry | interrupts; state kept across entries; crashes between checkpoints; stale entitlement | a denied action is not proposed again; the approval status is that of the decision; denials end; exclusions are audited |
| Agent Runtime and Mode B (`agent_runtime/`, `RI/agents/.../mode_b_orchestrator_driven/`) | what the caller of a journey knows of it | dispatch, decide, decide_and_dispatch | several journeys for one decision; pauses; a denial's way back; dispatch looks at nothing but the decision | an approval comes before the dispatch (it does not: `journey_approval`); rounds end |
| Example agent and supervisor (`RI/agents/example_agent/agent.py`, `global_supervisor.py`) | a turn: catalogue, iterations | route_and_run, run_turn | the catalogue is old when a call is made; a model that never stops asking | what is listed can be called; turns end |
| Audit (`audit/`) | an append-only sink | emit | emission fails before or after the fact | events match what happened |
| REST adapter, channels, profile intelligence, configuration | none or read-only | pure functions and I/O | | |

Interaction: `on_call_tool` calls, in this order, `EntitlementManager.resolve`
(memory), `PDPClient.evaluate` (two HTTP requests to OPA),
`ApprovalService.check_and_consume` and `request` (memory),
`CapabilityRouter.route` (SQLite, environment or identity provider) and a
downstream MCP session; it emits audit events along the way. `on_list_tools` calls
`resolve`, `distinct_backends_for`, then for one backend after the other
`credential_for` and a downstream session. Approvers reach the same
`ApprovalService` through `get_current_state()`. At boot the Entitlement
Manager pushes every profile into OPA before the Gateway serves. A journey reads
the same Entitlement Manager and the Registry, decides, may pause for an approval,
and whoever holds its decision has it sent to the Gateway as a tools/call: the callers in
the repository are Mode B (`orchestrator.py:91`) and `execute_handoff`
(`agent_runtime/handoff_graph.py`). A denial reported back re-enters the journey. An
agent's turn is one tools/list and any number of tools/call.

## 2. Plan

Done, in this order:

1. `ApprovalStore`, `Approval`, `ApprovalPromise`, `ApprovalProofs`: the component
   whose mistakes would release a payment twice, at the grain of thread switches.
2. `Policy`, and `Narrowing` over it, `MCPolicy`, `PolicyProofs`: the decision.
3. `Gateway`, `GrantPromise`, `MCGateway`, `GatewayProofs`: the call from token to reply,
   composed of `Policy` and `ApprovalStore` and of the parts of entitlement, routing and
   credentials it uses.
4. `Registry`, `MCRegistry`, `RegistryProofs`: submit, publish and the store's transactions, with
   concurrent callers and failures between any two steps.
5. `Entitlement`, `EntitlementProofs`: loads, syncs, cache, revocation.
6. `TokenExchange`, `TokenExchangeProofs`: cache, two requests, concurrent misses.
7. `Catalog`, composed of 5 and 6: a request through the header gate, token
   verification and tools/list; `AgentTurn` over it: turns of agents, beside other
   clients; `AgentTurnProofs`.
8. `Journey`, and `ModeB` over it; `JourneyProofs`.

Left:

- the journeys over `Gateway` itself: a dispatch is denied, or over, by choice in `Journey`, and is a call in `Gateway`; their product is beyond
  what TLC enumerates, and no property found so far needs both at once.

## 3. Modules

**ApprovalStore** has the operators both models of the service use: a record, its
expiry (the boundary instant is expired), what `check_and_consume` and
`_pending_for_operation` look for. The operation hash is the operation: equal
hashes mean equal (profile, tool, arguments) triples. An approval_id is the index
of the record.

**Approval** is `ApprovalService` shared by threads. `Begin .. ScanFails` is
`check_and_consume` (the lock, one turn of the loop per step, the write), `Ask ..
Insert` is `request`, `Grant`/`Announce` are the two halves of `grant` (the status,
then the event, which the sink may refuse), `Deny` is `deny`, `Tick` the clock.
A loop over the dict raises when the dict has grown; in `check_and_consume` the
Gateway takes that for "not approved", in `request` it leaves the handler.
`ledger` is history only: who made a request, its grants, releases, events.

**ApprovalPromise** is the abstract specification: approvals on offer, and how often
each was used. `Approval!KeepsPromise` maps a granted live record to an offer and
counts a use from the moment an attempt's loop matched it: from there to the
write, the record is the attempt's own, whatever an approver writes into it.

**Policy** has the document pushed for a profile (unset restrictions are left out),
the rules of both Rego policies on it and the outcome `evaluate` makes of them.
`Document` is where `exclude_none` matters: with nulls pushed instead, Rego's `not`
would fail; the mutant of `NarrowingNeverWidens` does that. **Narrowing** changes a profile and a
call, one restriction, tool or amount at a time, each to something stricter.

**Gateway** is `on_call_tool` cut at its awaits. `Receive` is everything up to the
first query; `EntitlementAnswer` and `TransactionAnswer` are OPA's evaluations of the
two queries (the second answer may be overtaken by other events before the handler
goes on), `PdpUnavailable` and `PdpGarbled` their failures; `Denied`, `Allowed`,
`Approved`, `AskApproval` are the branches after `evaluate`, each up to its next await
or its reply: `check_and_consume` and the start of the route are one step, as nothing
else runs on the event loop between them. `Dispatch` and `Connect` are the route, the
credential and the check of the backend's type in the order of the code.
A call sent downstream is run (`DownstreamRuns`), refused (`DownstreamRefuses`: no such
tool, or arguments the tool does not declare) or left lying; `DownstreamReturns` takes any
answer of the backend for the result of an allowed call, as the code does, and the
backend may run the call after the Gateway has given up (`DownstreamFails`).
`Start`, `Push`, `PushFails`, `Reload` are boot and sync; a failed push may have been
applied at once; that OPA applies it after the Gateway gave up on it is left out. `Crash`
drops calls and approvals (a backend may still run what was sent); OPA keeps its data,
`OpaRestart` drops it.
Approvers act on the event loop here; threads are Approval's subject. `seen`,
`ledger`, `ran` are history: OPA's data during each evaluation, grants and gated
runs per operation, what the backend did.

**GrantPromise** is the abstract specification of operations that need approval, for the
whole Gateway: offers made, each taken away by the call it releases, and a released call
run once, or lost. `Gateway!KeepsGrants` maps to it: a granted live record is an offer
(`Spendable`), a call is under way (`OnWay`) from the step that spends its approval,
through the token exchange, until a backend runs it or it is dropped, also after a crash
once it was sent. Everything else of the Gateway only loses offers or calls under way.

**Registry** is the table of manifests and the pipeline that writes it. `Submit`,
`Publish` and `SetStatus` begin a call (a manifest that a gate rejects never begins
one); `Nominate`, `Check`, `Get` and `Put` are its transactions, each on a connection
of its own: `set_lifecycle_status` is `Get`, then `Put`, so another caller's write fits
between them; a submit is `Nominate` and two of these, a publish `Check` and one.
`SetStatus` is `set_lifecycle_status` called for itself. The store takes any status and
validates none; the model keeps to deprecating and retiring, which the pipeline has no
call for (nor has any other caller in the repository). `Fail` ends a call between any two
transactions. A row is a manifest and its status: the columns beside the JSON are copies
of its fields, written with it. `reviewed`, `retired` and `raced` are history: the
manifests that were in REVIEW, the names that were RETIRED, the names for which calls have
overlapped. `Gateway` does not read this table: the ACTIVE manifests are its constant
`Manifests`.

**Entitlement** is `EntitlementManager` and what OPA holds of it. `LoadRegistrations`
and `LoadProfiles` replace what is in memory; `SyncStart`, `Push`, `PushFails` are
`sync_profiles_to_pdp`, which iterates over the generation it began with while another
load or sync may come (the program syncs once, at boot: that a load or a second sync
overlaps it is what the class allows, not what the Gateway does today); `OpaRestarts` drops everything. `Resolve` is `resolve`, which
writes the cache that `RevokeClient` and `RevokeProfile` clear; nothing reads it.
`revoke_profile` takes no registration away: its clients resolve again at once, which is
how the code is. A profile's content is its set of tools; the version hash is the content.
History: `settled` (a sync has run alone and in full since the last load), `revoked`.

**TokenExchange** is `credential_for` and `TokenExchangeClient`. `Static`, `Hit`, `Miss`
are the first look; `SubjectToken`, `Issue`, `Exchanged` the two requests (the provider
issues at `Issue`, the answer is cached at `Exchanged`, with the time read before the
requests), `ExchangeFails` their errors, of which httpx's become
`BackendCredentialUnavailableError` and others stay what they are. Nothing keeps several
callers from exchanging at once. `Forgets` is the end of a caller's request, with which its
credential goes. The lifetime announced is the token's real one: where
`expires_in` is missing the code assumes 60 seconds, which no model can vouch for.

**Catalog** is a request on its way in: `HeaderBodyMismatch`/`Replayed` (the middleware),
`Unauthorized`/`Authorized` (`validate`, with its leeway), `Invalid`/`Call`, and
`on_list_tools`: `EmptyList`, `ResolveForList`, then per backend `CredentialForBackend`,
`Skipped`, `CredentialRaises`, `Connects`, and the session, which the backend's gate may
turn away (`GateRejects`). `Emits` is an emission whose failure is suppressed.

**AgentTurn** is `route_and_run` and `run_turn` over Catalog: `RouteAndRun`, `Catalogued`,
the model's answers (`FinalAnswer`, `AsksForTools`), each call (`CallsTool`, `Decided`),
`Iterates`. Other clients send requests of their own at the same time, and registrations,
profiles, OPA, credentials and the clock change beneath. Of tools/call only what it shares
with tools/list is kept here: the client, `resolve`, OPA's entitlement rule; the rest is
Gateway's. `Plans` is the bound: every plan says how many of what a behavior may have.

**Journey** is the graph on its checkpointer. A node is an action: `ResolveEntitlement`,
`UnknownClient`, `FilterOfferings`, `DecideNba`, `HandleDenial`, `ApprovalGate`. It works on
`live`; `Checkpoint` saves sooner or later, in any case before `Return`; `Crash` leaves
what was saved. `Invoke` and `Reenter` merge their input into the saved state, as the
checkpointer does, so what earlier rounds left (`excluded`, `status`, an unfinished
`denied`) is still there. `Resume` answers a pause. `Dispatch` is `AgentDispatcher.dispatch` of the
decision in a result, whoever calls it: it looks neither at `approval_status` nor at
whether the graph ended or paused, so neither does the action. Its outcome is a denial, or
it is over (allowed, or an exception of the token, the session or the call). `Reenter` is
the invocation that reports a denial back, and again when that one died: `reported` is
what it reported. Capabilities are numbers in the order `decide` sorts
them by, so `Decide` is a minimum. `resolve_profile` changes nothing that is kept.

**ModeB** is `decide_and_dispatch`: `InvokeNext`, `Collect` or `Aborts` for each of its
clients' threads in turn, `Choose` (`_combine`: an obligation of finance first), then
the dispatch, whose outcome it only returns. While it waits for an invocation nobody else
touches that thread; the journeys of its threads are started by `decide` and dispatched
by `decide_and_dispatch` alone. Everything else of Journey goes on beside it.

What the models show of the code, neither a property nor a finding:

- a Mode B dispatch leaves its thread paused; answering that pause later approves an
  action that was dispatched already. A denial of Mode B's dispatch never re-enters.
- `dispatch` reports every `is_error` result as denied: a request for approval and a
  backend's refusal too, which a re-entry then excludes like any denial.
- one client of Mode B that is revoked aborts the decision for all of them
  (`UnknownClientError` leaves `decide`).
- a paused result of a thread that is used again shows the `approval_status` of the round
  before; nothing in the repository reads it there.
- a `handle_denial` that failed leaves `denied_action` in the checkpoint, and the next
  entry of the thread, whatever it asks for, handles that denial and resolves nothing.
- the answer to a pause names no decision: it approves what the thread is paused at.
- a list shows any offered tool whose name is allowed, also when its own manifest
  is not ACTIVE or names another backend.
- the cursor of a paginated list goes to every backend, `next_cursor` is dropped.
- `agent_turn_completed` is not emitted for a turn that raises.
- `risk_ceiling` and `expires_at` of a profile are loaded and never enforced.
- the backend gate's own emission is not suppressed: when its sink fails the answer is a
  500 and not a 401, which is a `SessionFails` here.

## 4. Runs

| Run | What it shows |
|---|---|
| `approval` | `ReleasesBackedByGrants`: no double-spend under any interleaving. `OneLivePendingPerWorker`: `request` is idempotent for each thread, so outright on one event loop; two threads can each insert one. `AnnouncedGrantsHappened`: events never exceed grants. `AttemptsEnd`: every attempt comes back. `KeepsPromise`: refinement of ApprovalPromise. |
| `approval_single_use` | Expected violation: a consumed approval granted again releases again. |
| `policy` | `NarrowingNeverWidens`: lowering a limit or threshold, setting one, taking away regions or tools, or raising the amount never turns DENY into anything else or REQUIRE_APPROVAL into ALLOW. |
| `policy_threshold` | Expected violation: an amount equal to the threshold is allowed; the model's description says it needs approval. |
| `gateway` | `DecidedByPolicy`, `GatedRunsBackedByGrants`, through reloads, crashes, OPA restarts, late and refusing backends. `DeniedIsNotRun`: what a client or the audit trail is told was denied has not been run and will not be. `CallsAnswered`: a call ends or gets to a backend, where it may wait for ever. `KeepsGrants`: refinement of GrantPromise. |
| `gateway_failures` | Expected violation: of a malformed OPA answer and a missing backend credential the documents say that the call is denied; each is an exception that leaves `on_call_tool` (nothing goes downstream: both still fail closed). A behavior violates the property when both have happened in it, so it refutes both. |
| `gateway_audit` | Expected violation: the UNKNOWN_CLIENT denial leaves no event, though `tool_call_denied` is documented for any denial; a call that its backend refused leaves `tool_call_allowed`, documented for a call "executed successfully". |
| `registry` | `ServedPassedGates`: what is ACTIVE has an owner and a service and, in tiers R3 and R4, requires approval, under any interleaving and failure. `ReviewedUnlessRaced`: what is ACTIVE was in REVIEW as it is, unless calls for it overlapped. `ActivatedFromRegister`: unless calls overlapped, a step that makes a capability ACTIVE starts from REGISTER, so none comes straight back from DEPRECATED or RETIRED, nor out of a submit that died half-way. |
| `registry_review` | Expected violation: a submit takes a RETIRED capability back to NOMINATE, past `lifecycle.py`, where RETIRED is terminal; and a `publish` that validated an earlier revision makes that one ACTIVE, never reviewed. |
| `journey` | `RefusedNotProposed`: an action whose denial a re-entry has reported is proposed by no later result of its thread, over crashes, fresh entries and repeated re-entries. `ProposalsEntitled`: what is proposed is entitled, offered, consented to. `ApprovalMatchesDecision`: a journey ends `approved` only if this very decision was approved, and `not_required` only if it needs none, whatever flag and status earlier rounds left. `ExclusionsAudited`: an exclusion in effect has its event. `DenialsEnd`, `RoundsEnd`: neither denials nor a Mode B round go on for ever. |
| `journey_approval` | Expected violation: Mode B dispatches a decision whose journey has only paused for its approval. So no property says that what is dispatched was approved. |
| `catalog` | `SettledAgrees`: once a sync has run alone, OPA decides by what is in memory. `RevokedStaysRevoked`: a revoked client has neither registration nor cache entry. `ReusedIsFresh`: a cached token is handed out only while it is valid beyond the margin. `ListsAreExact`: a list is what the client was entitled to, no more and no less. `ServedAsLabelled`: what runs is what the headers say. `OnlyFailuresRaise`: a failing sink takes no answer with it. `ListedIsCallable`, `VersionsAgree`: while no entitlement changes, OPA's rule and the Gateway's agree on tools and versions. `TurnsEnd`: every turn ends. |

A violation run checks one property. Where it shows two disagreements, the property is the
disjunction of the two claims (`FailuresAreDenials`, `EventsAsDocumented`,
`LifecycleKept`), each of which has a definition and a comment of its own: a behavior that
violates the disjunction refutes both.

`DecidedByPolicy` is as strong as the code is: when a profile push lands between the
two queries, each answers on different data. The gateway run contains the case: a
call that version 1 gates and version 2 does not entitle is allowed ungated, the
first answer being version 1's and the second version 2's. No document of the
repository says what should happen then, so it is recorded here and under the
hazards, not as a finding.

### Bounds

- `approval`: two workers, one approver, two operations, three attempts, two
  decisions, a clock of two instants and a time to live of one. Two workers are
  what a race for one record takes; three attempts are one that asks and two that
  race; two decisions are a grant and whatever overwrites it; expiry happens
  between any two steps. The proofs have no bounds.
- `policy`: amounts, limits and thresholds in 0..2 or unset (an amount also -1),
  two regions, two tools. The rules only compare, so three values give every
  order of amount, limit and threshold. Every profile and call is an initial
  state, so all are reached at once.
- `gateway`: two calls at a time (slots that are free are interchangeable), three
  calls that need approval or one of them with another call (`Weight`), two
  decisions of approvers, one failure (crash, failed boot or OPA restart), two syncs
  (a boot and a reload, or two boots), a clock of two instants. Three gated calls
  are one that asks and two that compete for the grant. The seven requests reach
  every branch: no token, unknown client, gated, allowed, credential missing,
  backend type not supported, no manifest. One profile: a sync that
  fails half-way through several profiles is not exercised. `gateway_failures` and
  `gateway_audit` have bounds of their own: what they show takes two calls of one behavior
  and no approver.
- `registry`: two callers, one name, four manifests of which two pass the gates, four
  calls. Rows are independent, so one name is enough; two callers are what an
  overlap takes; four calls are a submit and a publish of each of two revisions, or
  a submit, a publish, a retirement and a call that overlaps one of them.
- `journey`: three threads, two of Mode B for two clients and one of another caller, which
  re-enters after denials, for the client of the first; four capabilities, one of them not consented to, one that needs
  approval, two of finance; two fresh entries or answers to pauses, one round of
  Mode B; one event (a crash, a failure of the sink, a revocation, new profiles, another
  catalogue). Denials and re-entries have no bound of their own: each takes a capability
  away. Several rounds, crashes and changes in one behavior are left to the proofs.
- `catalog`: two callers, two syncs, two clients, two profiles, two generations of
  them, two registrations, one backend for each kind of credential; lifetimes above and
  at the margin; two iterations and one tool call of the model. `MCPlans` lists what a
  behavior may have (a turn beside a request; two requests; a turn with a change and a
  sync; two changes and two syncs with a failure; each of ten kinds of request with a
  change, a failure and a tick; ...), so that the runs are added and not multiplied.
  All combinations at once are left to the proofs.

Deadlock checking is off: attempts, calls, entries and the clock are bounded, so every
run ends.

### Fairness

`Approval`: weak fairness of each worker's own steps, which is a thread being
scheduled; nobody has to begin, grant, deny or wait. `Gateway`: weak fairness of each
handler's own steps, with the failures that a timeout of its HTTP clients brings
about among them (`PDPClient` sets 2 seconds, the token exchange has httpx's default).
No fairness on OPA, the identity provider, approvers or boot: those may stay silent for
ever. None on backends either, whose every step, a broken session included, may never
come: `_with_downstream_session` sets no timeout on the session, `initialize` or
`call_tool`, so a backend that keeps its stream open is waited for without bound. No
document claims a bound, so this is a hazard and not a finding, and `CallsAnswered` ends
where that wait begins. `Journey` and `ModeB`: weak fairness, thread by thread, of what an
invocation does by itself and of a denial being reported back (`Reenter`), which is what
`graph.py:9-13` and the tests do with one; and of Mode B's own steps. Nobody has to start a
journey, to begin a round, to answer a pause or to dispatch. `AgentTurn`: weak fairness of
what each caller goes on to do, which includes that the model and the backends answer or
fail in the end. For backends that is an assumption about them and not about the code:
`TurnsEnd` is about the turn's own loop, and a turn hangs with a backend that hangs. No
request, change, sync or tick has to come.

## 5. Proofs

`ApprovalProofs` proves, for every set of workers, approvers and operations and every
bound, with the assumptions declared in `Approval` (the lock's free value is no
worker, there is an operation, the numbers are natural, `Ttl` is positive):

- `Invariance`: `Spec => []IInv`. IInv is TypeOK together with LockInv (a worker is
  inside `check_and_consume`'s loop or its write exactly when it holds the lock),
  SpendInv (the record a worker is about to write exists), GrantInv (releases never
  exceed the timely grants, and are fewer for a record that is on offer or about to
  be spent), OwnInv (among the records a worker's `request` has gone over none is
  its own, live and pending for the operation) and OneLivePendingPerWorker. None of
  the properties is inductive alone: a release is backed by a grant because the
  record was granted and live when the loop matched it, because no other worker can
  have matched it since (the lock), and because the write uses up that grant.
- `TypeCorrect`, `NoDoubleSpend`, `NoDuplicateRequests`: the properties of the run.
- `NoEventWithoutGrant`: events never exceed grants. Between the write of a status and
  its event an approver has left the lock, and any number may be there at once; so the
  induction (EventInv) is over what is owed: the events of an approval and the approvers
  about to announce it, who are finitely many, are together no more than its grants.
- `Implements`: `Spec => KeepsPromise`, the refinement, step by step.
- `AttemptsAdvance`: whatever anybody does, an attempt under way stays where it is, looks at
  the next of the records there were when its loop began, or goes on to a later label.

`PolicyProofs` proves, for any tools and regions, and limits and amounts that are any
integers, with "unset" (`None`) assumed to be none of the values:

- `NeverWidens`: `Spec => NarrowingNeverWidens`. The lemmas take it rule by rule: what a
  stricter profile, or a larger amount, does to each of Rego's rules on the pushed document
  (a rule on a field that is not in the document is undefined), then to the two queries and
  the order in which limit and threshold are looked at. `TypeCorrect` is the types it needs.

`RegistryProofs` proves, for any callers, names, manifests and bound, with `Absent`
assumed to be no manifest and no row and `MaxCalls` a natural number:

- `Invariance`: `Spec => []IInv`. IInv is TypeOK with StepInv (what a call works on),
  GateInv (whatever is stored, was read or is about to be nominated passed the
  gates), RaceInv (two calls for one name are recorded as a race) and, for names
  that no two calls have worked on at a time, ReadyInv (the row a status goes to is
  the one that was read, in the status the transition starts from) and StatusInv
  (from REVIEW to ACTIVE the manifest is the reviewed one). ReadyInv is what an overlap
  breaks, and what `registry_review` shows broken.
- `TypeCorrect`, `GatesHold`, `ReviewComesFirst` and `OnlyRegisterActivates`: the run's
  four properties. `GatesHold` needs no word about races: manifests are
  checked once and never edited. `OnlyRegisterActivates` is ReadyInv at the step that
  writes ACTIVE.

`GatewayProofs` proves, for any clients, requests, profiles, manifests, backends and
natural bounds and weights, with a finite set of slots for calls, a positive `Ttl`, known
kinds of credential, at least one version of the profiles, none of them empty, and `None`
different from outcomes, replies and events:

- `Invariance`: `Spec => []IInv`. CallsInv says what a call at each stage went by: its
  `seen` has OPA's data of now while it is evaluated, it is entitled on some of them
  once past the first query and judged on some of them past the second. BackedInv says
  that of each operation the granted records, the calls on their way and the runs
  together never exceed the grants: a grant adds a record, `Approved` turns a record into
  a call on its way, `DownstreamRuns` that into a run, and everything else (a denial, an
  expiry, a failure, a crash) only loses some. A call is on its way from the moment its
  approval is spent, also while its token is exchanged, and stays so past a crash once
  it was sent.
- `NothingUndecided`, `NoRunWithoutGrant`, `DenialsAreFinal`: the run's invariants. That an
  event of an allowed call tells of a run is not among them: `gateway_audit` refutes it.
- `TypeCorrect`: what OPA holds of a profile, and what a sync has still to push, are
  documents of versions that were on disk; and because the grants of an operation and the
  decisions left are no more than `MaxDecisions`, neither are its runs.
- `GrantsKept`: `Spec => KeepsGrants`, the refinement of GrantPromise. `Grant` makes an offer,
  `Approved` takes one for its call, `DownstreamRuns` runs it, and of every other step it is
  shown that each operation's offers and calls under way stay or become fewer.
- `OnlyUnknownUnaudited`: how far the finding of `gateway_audit` goes. ToldInv says with
  which reply and event a call can end; a call without an event raised, carried no client,
  or an unknown one.
- `CallsGoOn`: no step, of whomever, takes a call back; one that moves it leaves fewer awaits
  before it.

`EntitlementProofs` proves, for any tools, clients, profiles, generations and number of
syncs:

- `EntitlementInvariance`: AloneInv says that a sync which has been alone so far has
  pushed all but what it has to do of the profiles in memory; so its last push settles.
  SettledInv: OPA then agrees, and any push of a sync under way is of the same
  generation, until the next load that changes it.
- `SyncSettles`, `RevocationLasts`: the properties.
- `ContentsCorrect`: what is registered was loaded, less the clients revoked since; OPA, over
  every overlap of syncs, holds contents of profiles; only clients are cached.

`TokenExchangeProofs` proves, for any callers, backends, lifetimes and margin:

- `ExchangeInvariance`: an entry of the cache has expired when it is written, or it ends at
  least the margin before its token, because the time it is computed from was read before
  the token was issued.
- `ReusedStaysFresh`: the property.
- `OnlyConfiguredExchange`: nothing is cached, or asked of the provider, for a backend that is
  not configured to exchange.

`JourneyProofs` proves, for any threads, capabilities, profiles, catalogues and bounds:

- `TypeCorrect`, and `Invariance`: every state, live and saved alike, is sound for the node
  it is at (its offerings are entitled and consented to but where they are about to be
  filtered, its proposal is one of them and not excluded, its `gated` flag is that of the
  proposal); with it, what was reported of a thread agrees with both. The same
  predicate for both is why neither a crash, which makes the saved state live, nor a
  checkpoint at any moment can break it. That `Decide` has something to pick from a
  nonempty set is the lemma `Least` (every nonempty set of naturals has a least element).
- `DenialsLast`, `ProposalsHold`, `StatusIsOfDecision`, `NoSilentExclusion`: the run's
  safety properties. None is about what is dispatched: dispatch has no guard.
- `DenialsAreNew`: an action whose dispatch is denied is not in its thread's saved exclusions;
  `ExclusionsGrow`: no step takes an exclusion out of a checkpoint. For these KeptInv says
  what a state under way holds of the saved one: also what is entered on an old checkpoint,
  or begun afresh, starts from all of its exclusions.
- `ModeBIsJourneys`: `SpecB` implements `Spec` of Journey, and with it `ModeBIsSafe`.
- `AwaitedStays`: a journey Mode B waits for is under way, paused, ended or failed, so nobody
  takes away the result that `decide` waits for.

`AgentTurnProofs` proves, for any agents, tools, backends, plans and bounds, with
`MaxIterations` assumed positive and `MaxToolCalls` natural:

- `EntitlementImplemented`: the whole composition is, of the Entitlement Manager's variables,
  a behavior of `EntitlementSpec`; `EntitlementHolds` and `FreshInRequests` carry the
  components' theorems over to it.
- `ExchangeImplemented`: likewise a behavior of `ExchangeSpec`. It needs WaitInv: a request has
  no credential before it asks one, and one is being exchanged only while its request is
  at "credential"; so no caller asks again, or leaves, in the middle of an exchange.
- `TypeCorrect`: the composition's type invariant, from those of its components and PaceInv.
- `TurnsAdvance`: PaceInv says where in its iterations and calls a turn is, and that it has
  no request under way once it has its catalogue; every step that moves a turn leaves
  fewer stages, iterations or calls before its end.
- `ExactLists`: the tools collected so far are exactly the entitled offers of the
  backends asked so far that had a credential. `HonestLabels`, `NoOtherRaise`.
- `ListedStaysCallable`, `AuditNamesDecision`: calm begins settled, and while it lasts there
  is one truth about the turn's client, in memory and in OPA, by which its list, its
  calls, their refusals and their events are all judged.

Only model-checked are the liveness properties (`AttemptsEnd`, `CallsAnswered`, `DenialsEnd`,
`RoundsEnd`, `TurnsEnd`): liveness under fairness is not within reach of the prover. Of four of
them the safety half is proved for all constants, as action properties: attempts, calls
and turns only ever come nearer to their ends (`AttemptsAdvance`, `CallsGoOn`, `TurnsAdvance`),
and denials use up a set of actions that is finite and never grows back (`DenialsAreNew`,
`ExclusionsGrow`). What is left to TLC is that the fair steps are there to be taken. Every
other property that a passing run checks is stated by a theorem. No module declares a
RECURSIVE operator.

## 6. Not modelled

- The REST adapter: nothing in the repository's source calls it. Channels and the identity
  resolver: renaming and rendering. Profile Intelligence: a stateless hash and a
  pseudonym, on which no decision depends. Configuration, tracing, redaction, file formats:
  I/O and layout.
- Of the token verification: keys and signatures (`genuine`), and the SDK's own check of
  `expires_at` after ours. Of the header gate: what an app reads after the replayed
  body, and bodies that cannot be decoded at all.
- Of the journey: sentences, tiers, confidence and everything else of a decision but its
  action; the payload a handoff selects. Of the agents: messages, schemas, arguments.
- Of the domain servers: their data. A backend offers its tools, and runs a call, late,
  once or not at all.
- The losses of the audit sink are left out of `Gateway`: an event there is one handed to
  the sink (`Approval`, `Journey` and `Catalog` have them). The cancellation of a call by
  its client is left out too; its effect on an approval is that of a failed downstream
  session.
