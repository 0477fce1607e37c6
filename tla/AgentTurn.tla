------------------------------ MODULE AgentTurn ------------------------------
(***************************************************************************)
(* Turns of ExampleAgent (agent.py), routed by a GlobalSupervisor: one     *)
(* tools/list, then answers of the model with tool calls, each authorized  *)
(* by the Gateway on its own.  Of a tools/call only what it shares with    *)
(* tools/list is kept: the client, resolve, and OPA's entitlement rule.    *)
(* Other clients send requests of their own, and everything below changes  *)
(* at the same time.                                                       *)
(***************************************************************************)
EXTENDS Catalog

CONSTANTS
    Agents,         \* agent -> the bearer token it was made with
    MaxIterations,  \* max_tool_iterations
    MaxToolCalls,   \* bound on the tool calls of one answer of the model
    Plans           \* the bounds of a run: which callers have a turn and send which
                    \* requests, and how many changes, syncs, failures and ticks

\* A turn asks the model at least once.
ASSUME IterationsAssumption == MaxIterations \in Nat \ {0} /\ MaxToolCalls \in Nat

VARIABLES turn, budget

allVars == <<entitlementVars, exchangeVars, catalogVars, turn, budget>>

\* pc: "idle", "list", "llm", "calls" (asked more calls to make), "decide" (the
\* Gateway awaits OPA) or "done".  audited is the content that the event of the
\* call will name.  History: calm, no entitlement has changed since the list was
\* served; refusals and allowed, what OPA answered to which tools.
NoTurn ==
    [pc |-> "idle", agent |-> Absent, catalog |-> {}, iteration |-> 0, asked |-> 0,
     tool |-> Absent, profile |-> Absent, audited |-> {}, decided |-> {},
     reply |-> Absent, calm |-> FALSE, refusals |-> {}, allowed |-> {}]

Init ==
    /\ InitEntitlement
    /\ InitExchange
    /\ InitCatalog
    /\ turn = [c \in Callers |-> NoTurn]
    /\ budget \in Plans

Below == UNCHANGED <<entitlementVars, exchangeVars, catalogVars>>

SetsTurn(c, r) == turn' = [turn EXCEPT ![c] = r] /\ Below

Spends(what) ==
    /\ budget[what] > 0
    /\ budget' = [budget EXCEPT ![what] = @ - 1]

-----------------------------------------------------------------------------
\* What the router says, if it is an agent.
Target(current, routed) == IF routed \in DOMAIN Agents THEN routed ELSE current

\* route_and_run, which a current backend it does not know makes raise before
\* anything has happened.
RouteAndRun(c, current, routed) ==
    LET agent == Target(current, routed)
        labels == [method |-> "tools/list", name |-> Absent]
    IN  /\ current \in DOMAIN Agents
        /\ turn[c].pc = "idle"
        /\ Submit(c, [bearer |-> Agents[agent], header |-> labels, body |-> labels])
        /\ turn' = [turn EXCEPT ![c] = [NoTurn EXCEPT !.pc = "list", !.agent = agent]]

\* A request of another client, whatever it looks like.
OtherRequest(c, request) ==
    /\ turn[c].pc = "idle"
    /\ Submit(c, request)
    /\ UNCHANGED turn

OtherAnswered(c) == turn[c].pc = "idle" /\ Answered(c) /\ UNCHANGED turn

\* The schema of the tools is what list_tools returned; an error leaves run_turn.
Catalogued(c) ==
    /\ turn[c].pc = "list"
    /\ Answered(c)
    /\ turn' = [turn EXCEPT ![c] =
          IF list[c].reply = "listed"
          THEN [@ EXCEPT !.pc = "llm", !.catalog = list[c].tools]
          ELSE [@ EXCEPT !.pc = "done", !.reply = "raised"]]

\* The turn ends with a result, and reports itself to a sink that may fail.
Completes(c, reply) ==
    /\ turn' = [turn EXCEPT ![c].pc = "done", ![c].reply = reply]
    /\ Emits(c, "agent_turn_completed")
    /\ Quiet /\ UNCHANGED <<list, rotated, failed>>

FinalAnswer(c) == turn[c].pc = "llm" /\ Completes(c, "final")

AsksForTools(c) ==
    /\ turn[c].pc = "llm"
    /\ \E n \in 1..MaxToolCalls : SetsTurn(c, [turn[c] EXCEPT !.pc = "calls", !.asked = n])

\* A call of another type than "function" is passed over.
PassesOver(c) ==
    /\ turn[c].pc = "calls"
    /\ turn[c].asked > 0
    /\ SetsTurn(c, [turn[c] EXCEPT !.asked = @ - 1])

\* session.call_tool of any name at all: the middleware turns it away, or the
\* Gateway resolves the client and asks OPA, or does not know it.
CallsTool(c, tool) ==
    LET t == [turn[c] EXCEPT !.tool = tool]
        bearer == Agents[turn[c].agent]
        client == ClientOf(bearer)
    IN  /\ turn[c].pc = "calls"
        /\ turn[c].asked > 0
        /\ IF AuthConfigured /\ ~Validates(bearer)
           THEN SetsTurn(c, [t EXCEPT !.pc = "done", !.reply = "raised"])
           ELSE IF ~AuthConfigured \/ ~Resolves(client)
           THEN SetsTurn(c, [t EXCEPT !.asked = @ - 1])
           ELSE /\ Resolve(client)
                /\ turn' = [turn EXCEPT ![c] = [t EXCEPT !.pc = "decide",
                      !.profile = cache'[client].profile,
                      !.audited = cache'[client].allowed_tools]]
                /\ UNCHANGED <<exchangeVars, catalogVars>>

\* OPA's answer to whether the profile has the tool.  One that is entitled may
\* still be denied for another reason; the turn goes on all the same.
Decided(c) ==
    LET t == turn[c]
        entitled == IF t.profile \in DOMAIN opa THEN opa[t.profile] ELSE {}
        back == [t EXCEPT !.pc = "calls", !.asked = @ - 1, !.decided = entitled]
    IN  /\ t.pc = "decide"
        /\ SetsTurn(c, IF t.tool \in entitled
                       THEN [back EXCEPT !.allowed = @ \cup {t.tool}]
                       ELSE [back EXCEPT !.refusals = @ \cup {t.tool}])

\* The model, a call or the connection fails: nothing catches it.
TurnFails(c) ==
    /\ turn[c].pc \in {"llm", "decide"}
    /\ SetsTurn(c, [turn[c] EXCEPT !.pc = "done", !.reply = "raised"])

\* Mutants: the model is asked once too often; it is asked until it is done.
AsksOnceMore(c) ==
    /\ turn[c].pc = "calls"
    /\ turn[c].asked = 0
    /\ IF turn[c].iteration < MaxIterations
       THEN SetsTurn(c, [turn[c] EXCEPT !.pc = "llm", !.iteration = @ + 1])
       ELSE Completes(c, "limit")

AsksAgain(c) ==
    /\ turn[c].pc = "calls"
    /\ turn[c].asked = 0
    /\ SetsTurn(c, [turn[c] EXCEPT !.pc = "llm"])

Iterates(c) ==
    /\ turn[c].pc = "calls"
    /\ turn[c].asked = 0
    /\ LET next == turn[c].iteration + 1 IN
       IF next < MaxIterations
       THEN SetsTurn(c, [turn[c] EXCEPT !.pc = "llm", !.iteration = next])
       ELSE Completes(c, "limit")

\* The result, or the exception, is the caller's.
TurnEnds(c) ==
    /\ turn[c].pc = "done"
    /\ turn' = [turn EXCEPT ![c] = NoTurn]
    /\ trail' = [trail EXCEPT ![c] = {}]
    /\ Quiet /\ UNCHANGED <<list, rotated, failed>>

-----------------------------------------------------------------------------
\* The turn's list is being served: calm begins if OPA and the manager agree.
Serves(c) ==
    /\ Serve(c)
    /\ turn' = IF turn[c].pc = "list" /\ list[c].pc = "serve"
               THEN [turn EXCEPT ![c].calm = settled] ELSE turn

\* What the caller goes on to do by itself.
Turns(c) ==
    \/ Catalogued(c) \/ FinalAnswer(c) \/ AsksForTools(c)
    \/ PassesOver(c) \/ (\E tool \in Tools : CallsTool(c, tool)) \/ Decided(c)
    \/ Iterates(c) \/ TurnEnds(c)

Continues(c) == (Serves(c) \/ OtherAnswered(c) \/ Turns(c)) /\ UNCHANGED budget

Starts(c) ==
    \/ /\ c \in budget.turns
       /\ \E current, routed \in DOMAIN Agents \cup {Absent} :
            RouteAndRun(c, current, routed)
       /\ budget' = [budget EXCEPT !.turns = @ \ {c}]
    \/ \E request \in {r \in budget.requests : r.caller = c} :
         /\ OtherRequest(c, request.sends)
         /\ budget' = [budget EXCEPT !.requests = @ \ {request}]

ExchangeAndCatalogRest == UNCHANGED <<exchangeVars, catalogVars>>

\* load_registrations, load_profiles and the revocations, at any time.
Changes ==
    /\ \/ \E r \in Registrations : LoadRegistrations(r)
       \/ \E g \in Generations : LoadProfiles(g)
       \/ \E client \in Clients : RevokeClient(client)
       \/ \E p \in Profiles : RevokeProfile(p)
    /\ Spends("changes")
    /\ turn' = [c \in Callers |-> [turn[c] EXCEPT !.calm = FALSE]]
    /\ ExchangeAndCatalogRest

Synchronizes ==
    /\ \E s \in Syncs :
         \/ SyncStart(s) /\ Spends("syncs")
         \/ Push(s) /\ UNCHANGED budget
    /\ UNCHANGED turn /\ ExchangeAndCatalogRest

Restarts ==
    /\ OpaRestarts
    /\ Spends("failures")
    /\ turn' = [c \in Callers |-> [turn[c] EXCEPT !.calm = FALSE]]
    /\ ExchangeAndCatalogRest

Failures ==
    /\ Spends("failures")
    /\ \/ \E c \in Callers : ServeFails(c) /\ UNCHANGED turn
       \/ \E c \in Callers : TurnFails(c)
       \/ \E b \in Guarded : Rotate(b) /\ UNCHANGED turn
       \/ \E s \in Syncs : PushFails(s) /\ UNCHANGED turn /\ ExchangeAndCatalogRest

Ticks == Tick /\ Spends("ticks") /\ UNCHANGED <<entitlementVars, catalogVars, turn>>

Next ==
    \/ \E c \in Callers : Continues(c) \/ Starts(c)
    \/ Changes \/ Synchronizes \/ Restarts \/ Failures \/ Ticks

Spec == Init /\ [][Next]_allVars

\* A handler and a turn that can go on do so: one event loop runs them, and httpx
\* gives up on the provider.  That the model and a backend answer or fail is
\* assumed of them: no timeout of this code bounds the waiting for a backend.
Fairness == \A c \in Callers : WF_allVars(Continues(c))

FairSpec == Spec /\ Fairness

-----------------------------------------------------------------------------
TypeOK ==
    /\ registered \in Registrations \cup
           UNION {{Without(r, C) : C \in SUBSET Clients} : r \in Registrations}
    /\ loaded \in Generations
    /\ DOMAIN opa \subseteq Profiles /\ \A p \in DOMAIN opa : opa[p] \in Contents
    /\ DOMAIN cache \subseteq Clients
    /\ \A s \in Syncs : syncs[s].todo \subseteq DOMAIN syncs[s].of
    /\ DOMAIN tokens \subseteq Exchanging
    /\ \A c \in Callers :
         /\ credential[c].pc # "idle" => list[c].pc \in {"credential", "session", "backends", "done"}
         /\ list[c].pc = "idle" => credential[c] = NoCredential
         /\ turn[c].pc \notin {"idle", "list"} => list[c].pc = "idle"
         /\ turn[c].asked \in 0..MaxToolCalls
         /\ turn[c].iteration \in 0..(MaxIterations - 1)

\* While no entitlement changes and OPA has what the manager has, a tool that was
\* listed is never refused as not entitled, and one that is allowed was the
\* client's: two rules in two processes, one in Python and one in OPA, agree.
ListedIsCallable ==
    \A c \in Callers : turn[c].calm /\ turn[c].pc \notin {"idle", "list"} =>
        /\ turn[c].catalog \cap turn[c].refusals = {}
        /\ turn[c].allowed \subseteq Truth(ClientOf(Agents[turn[c].agent]))

\* Under the same condition the entitlement_version that a call's events carry
\* is the version by which OPA decided the call.
VersionsAgree ==
    \A c \in Callers : turn[c].calm /\ turn[c].tool # Absent /\ turn[c].pc \in {"calls", "llm"} =>
        turn[c].decided = turn[c].audited

\* Every turn ends, whatever the model asks for, provided that it and the
\* backends answer or fail.
TurnsEnd == \A c \in Callers : (turn[c].pc # "idle") ~> (turn[c].pc = "idle")
=============================================================================
