------------------------------ MODULE Journey ------------------------------
(***************************************************************************)
(* The journey graph (orchestrator/graph.py) on its checkpointer, with the *)
(* Offering Filter, the decision model and handle_denial its nodes call,   *)
(* and the Agent Runtime that invokes it: a fresh entry, the answer to an  *)
(* approval gate that paused, the dispatch of what was decided, and the    *)
(* re-entry after the Gateway denied it.                                   *)
(*                                                                         *)
(* A node is one action.  It works on the state of the invocation under    *)
(* way; the checkpointer saves that state sooner or later, and in any case *)
(* before the invocation returns.  A crash leaves what was saved.  One     *)
(* invocation at a time runs on a thread.                                  *)
(***************************************************************************)
EXTENDS Naturals

CONSTANTS
    Threads,        \* the checkpointer's thread_ids
    ClientOf,       \* thread -> the client_id it is invoked with
    Names,          \* the capabilities, numbered from 1 in the order decide
                    \* sorts them: (risk_tier, name)
    Gated,          \* those whose manifest has approval.required
    Consented,      \* those the consent context lets through
    Catalogs,       \* the sets of capabilities that may be ACTIVE later
    Profiles,       \* the entitlements that may be loaded: client -> tools
    MaxInvocations, \* bound on the fresh entries and answers to a pause
    MaxEvents       \* bound on the changes of entitlements and of the catalog,
                    \* the crashes and the failures of the sink

ASSUME NamesAssumption == Names \subseteq Nat \ {0} /\ Gated \subseteq Names
ASSUME BoundsAssumption == MaxInvocations \in Nat /\ MaxEvents \in Nat

VARIABLES
    registered,     \* the clients EntitlementManager._registrations has
    ceiling,        \* client -> the tools its loaded profile allows
    active,         \* what the Registry lists as ACTIVE
    live,           \* thread -> the state of the invocation under way
    saved,          \* thread -> its last checkpoint
    phase,          \* thread -> what its caller knows: "running", or how the
                    \* invocation or the dispatch of its decision ended
    reported,       \* thread -> the denial its last invocation reported, or None
    emitted,        \* thread -> the denials the audit sink has an event of
    consent,        \* history: the pending decision of the thread was approved
    refused,        \* history: the denials whose re-entry has returned
    budget          \* what is left of the bounds above

world == <<registered, ceiling, active>>
vars == <<world, live, saved, phase, reported, emitted, consent, refused, budget>>

None == 0

Clients == {ClientOf[t] : t \in Threads}

ASSUME SetsAssumption ==
    Catalogs \subseteq SUBSET Names /\ Profiles \subseteq [Clients -> SUBSET Names]

\* The value of a JourneyState no invocation has touched.  next is the node to
\* run; a thread is "paused" in approval_gate, or it has reached "end".
NewThread ==
    [next |-> "end", tools |-> {}, offerings |-> {}, nba |-> None, gated |-> FALSE,
     status |-> "unset", denied |-> None, excluded |-> {}]

Init ==
    /\ registered = Clients
    /\ ceiling \in Profiles
    /\ active = Names
    /\ live = [t \in Threads |-> NewThread]
    /\ saved = live
    /\ phase = [t \in Threads |-> "new"]
    /\ reported = [t \in Threads |-> None]
    /\ emitted = [t \in Threads |-> {}]
    /\ consent = [t \in Threads |-> FALSE]
    /\ refused = [t \in Threads |-> {}]
    /\ budget = [invocations |-> MaxInvocations, events |-> MaxEvents]

-----------------------------------------------------------------------------
(* The pure parts of the nodes.                                            *)

\* A mutant: the consent context is dropped.
FilteredOfferingsAnyConsent(tools) == active \cap tools

\* ActiveCatalog, MaximumEntitlement and the constraints of subject and context.
FilteredOfferings(tools) == active \cap tools \cap Consented

Decide(offerings) ==
    IF offerings = {} THEN None ELSE CHOOSE n \in offerings : \A m \in offerings : n <= m

RequiresApproval(nba) == nba \in Gated

\* Mutants: the exclusions are forgotten; the flag of an earlier round is kept;
\* only the last denial counts.
AfterDecisionForgetful(s) ==
    LET nba == Decide(s.offerings) IN
    [s EXCEPT !.nba = nba, !.gated = RequiresApproval(nba), !.next = "approval_gate"]
AfterDenialFlagKept(s) ==
    LET nba == Decide(s.offerings \ (s.excluded \cup {s.denied})) IN
    [s EXCEPT !.nba = nba, !.excluded = @ \cup {s.denied}, !.denied = None,
              !.next = IF nba = None THEN "end" ELSE "approval_gate"]
AfterDenialLastOnly(s) ==
    LET nba == Decide(s.offerings \ {s.denied}) IN
    [s EXCEPT !.nba = nba, !.gated = RequiresApproval(nba),
              !.excluded = {s.denied}, !.denied = None,
              !.next = IF nba = None THEN "end" ELSE "approval_gate"]

AfterDecision(s) ==
    LET nba == Decide(s.offerings \ s.excluded) IN
    [s EXCEPT !.nba = nba, !.gated = RequiresApproval(nba), !.next = "approval_gate"]

\* handle_denial: a new decision over what remains, or the end of the journey.
AfterDenial(s) ==
    LET nba == Decide(s.offerings \ (s.excluded \cup {s.denied})) IN
    [s EXCEPT !.nba = nba, !.gated = RequiresApproval(nba),
              !.excluded = @ \cup {s.denied}, !.denied = None,
              !.next = IF nba = None THEN "end" ELSE "approval_gate"]

-----------------------------------------------------------------------------
(* Invocations.                                                            *)

\* The input becomes part of the state, and the graph starts over: at
\* handle_denial if denied_action is set, by this input or still by an earlier
\* one whose handle_denial never finished.
Enter(s) ==
    [s EXCEPT !.next = IF s.denied = None THEN "resolve_entitlement" ELSE "handle_denial"]

Runs(t, s, denial) ==
    /\ phase' = [phase EXCEPT ![t] = "running"]
    /\ live' = [live EXCEPT ![t] = s]
    /\ reported' = [reported EXCEPT ![t] = denial]
    /\ UNCHANGED <<world, saved, emitted, refused>>

\* graph.invoke with client_id, raw_subject_id and channel.
Invoke(t) ==
    /\ phase[t] # "running"
    /\ Runs(t, Enter(saved[t]), None)
    /\ UNCHANGED consent

\* graph.invoke with denied_action alone, once the Gateway has denied the
\* dispatch, and again if that invocation died.
Reenter(t) ==
    LET denied == IF phase[t] = "denied" THEN saved[t].nba ELSE reported[t] IN
    /\ \/ phase[t] = "denied"
       \/ phase[t] = "raised" /\ reported[t] # None
    /\ Runs(t, Enter([saved[t] EXCEPT !.denied = denied]), denied)
    /\ UNCHANGED <<consent, budget>>

\* A mutant: the status is what the answer says, whatever it says.
ResumeVerbatim(t, decision) ==
    /\ phase[t] # "running"
    /\ saved[t].next = "paused"
    /\ Runs(t, [saved[t] EXCEPT !.status = decision, !.next = "end"], None)
    /\ consent' = [consent EXCEPT ![t] = decision = "approved"]

\* graph.invoke with Command(resume=decision) on a thread that paused.  The gate
\* runs again from its checkpoint, interrupt returns, and the status is written:
\* whatever is not "approved" counts as denied.
Resume(t, decision) ==
    /\ phase[t] # "running"
    /\ saved[t].next = "paused"
    /\ Runs(t, [saved[t] EXCEPT !.status = IF decision = "approved" THEN decision ELSE "denied",
                                 !.next = "end"], None)
    /\ consent' = [consent EXCEPT ![t] = decision = "approved"]

\* The checkpointer catches up.
Checkpoint(t) ==
    /\ phase[t] = "running"
    /\ saved[t] # live[t]
    /\ saved' = [saved EXCEPT ![t] = live[t]]
    /\ UNCHANGED <<world, live, phase, reported, emitted, consent, refused, budget>>

\* invoke returns: the graph has ended, or it waits in the gate.
Return(t) ==
    /\ phase[t] = "running"
    /\ live[t].next \in {"end", "paused"}
    /\ saved[t] = live[t]
    /\ phase' = [phase EXCEPT ![t] = IF live[t].next = "end" THEN "ended" ELSE "paused"]
    /\ refused' = [refused EXCEPT ![t] = @ \cup ({reported[t]} \ {None})]
    /\ UNCHANGED <<world, live, saved, reported, emitted, consent, budget>>

\* An exception leaves the node: invoke saves what the nodes before it did and
\* raises.
Raises(t) ==
    /\ saved' = [saved EXCEPT ![t] = live[t]]
    /\ phase' = [phase EXCEPT ![t] = "raised"]
    /\ UNCHANGED <<world, live, reported, emitted, consent, refused>>

\* The process dies, with what was not saved.
Crash(t) ==
    /\ phase[t] = "running"
    /\ budget.events > 0
    /\ budget' = [budget EXCEPT !.events = @ - 1]
    /\ phase' = [phase EXCEPT ![t] = "raised"]
    /\ live' = [live EXCEPT ![t] = saved[t]]
    /\ UNCHANGED <<world, saved, reported, emitted, consent, refused>>

-----------------------------------------------------------------------------
(* The nodes.  resolve_profile changes nothing the model keeps.            *)

At(t, node) == phase[t] = "running" /\ live[t].next = node

Goes(t, s) ==
    /\ live' = [live EXCEPT ![t] = s]
    /\ UNCHANGED <<world, saved, phase, reported, refused, budget>>

ResolveEntitlement(t) ==
    /\ At(t, "resolve_entitlement")
    /\ ClientOf[t] \in registered
    /\ Goes(t, [live[t] EXCEPT !.tools = ceiling[ClientOf[t]], !.next = "filter_offerings"])
    /\ UNCHANGED <<emitted, consent>>

UnknownClient(t) ==
    /\ At(t, "resolve_entitlement")
    /\ ClientOf[t] \notin registered
    /\ Raises(t)
    /\ UNCHANGED budget

FilterOfferings(t) ==
    /\ At(t, "filter_offerings")
    /\ Goes(t, [live[t] EXCEPT !.offerings = FilteredOfferings(live[t].tools),
                               !.next = "decide_nba"])
    /\ UNCHANGED <<emitted, consent>>

DecideNba(t) ==
    /\ At(t, "decide_nba")
    /\ Goes(t, AfterDecision(live[t]))
    /\ consent' = [consent EXCEPT ![t] = FALSE]
    /\ UNCHANGED emitted

\* The event of the denial goes out before the node's result is saved.
HandleDenial(t) ==
    /\ At(t, "handle_denial")
    /\ emitted' = [emitted EXCEPT ![t] = @ \cup {live[t].denied}]
    /\ Goes(t, AfterDenial(live[t]))
    /\ consent' = [consent EXCEPT ![t] = FALSE]

\* A mutant: the node goes on when the sink fails.
DenialGoesUnaudited(t) ==
    /\ At(t, "handle_denial")
    /\ budget.events > 0
    /\ live' = [live EXCEPT ![t] = AfterDenial(live[t])]
    /\ consent' = [consent EXCEPT ![t] = FALSE]
    /\ budget' = [budget EXCEPT !.events = @ - 1]
    /\ UNCHANGED <<world, saved, phase, reported, emitted, refused>>

DenialEventFails(t) ==
    /\ At(t, "handle_denial")
    /\ budget.events > 0
    /\ Raises(t)
    /\ budget' = [budget EXCEPT !.events = @ - 1]

\* Nothing to approve, or nothing that needs it, or interrupt.
ApprovalGate(t) ==
    /\ At(t, "approval_gate")
    /\ Goes(t, IF live[t].nba # None /\ live[t].gated
               THEN [live[t] EXCEPT !.next = "paused"]
               ELSE [live[t] EXCEPT
                        !.status = IF live[t].nba = None THEN "not_applicable" ELSE "not_required",
                        !.next = "end"])
    /\ UNCHANGED <<emitted, consent>>

-----------------------------------------------------------------------------
(* The dispatch of a decision, and the world around the journeys.          *)

\* A result with a decision: all that dispatch asks for.  It looks neither at
\* approval_status nor at whether the graph has ended or waits in its gate.
Dispatchable(t) == phase[t] \in {"paused", "ended"} /\ saved[t].nba # None

\* The token, the session and the call, by whoever holds the result: the Gateway
\* denies, or it is "over", allowed or left by an exception of one of them.
Dispatch(t) ==
    /\ Dispatchable(t)
    /\ \E outcome \in {"over", "denied"} :
         phase' = [phase EXCEPT ![t] = outcome]
    /\ UNCHANGED <<world, live, saved, reported, emitted, consent, refused, budget>>

Changes ==
    /\ budget.events > 0
    /\ budget' = [budget EXCEPT !.events = @ - 1]
    /\ UNCHANGED <<live, saved, phase, reported, emitted, consent, refused>>

RevokeClient(c) ==
    /\ Changes
    /\ c \in registered
    /\ registered' = registered \ {c}
    /\ UNCHANGED <<ceiling, active>>

LoadProfiles ==
    /\ Changes
    /\ ceiling' \in Profiles
    /\ UNCHANGED <<registered, active>>

CatalogChanges ==
    /\ Changes
    /\ active' \in Catalogs
    /\ UNCHANGED <<registered, ceiling>>

-----------------------------------------------------------------------------
Node(t) ==
    \/ ResolveEntitlement(t)
    \/ UnknownClient(t)
    \/ FilterOfferings(t)
    \/ DecideNba(t)
    \/ HandleDenial(t)
    \/ ApprovalGate(t)

\* What an invocation does by itself.
Graph(t) == Node(t) \/ Checkpoint(t) \/ Return(t)

Counted ==
    /\ budget.invocations > 0
    /\ budget' = [budget EXCEPT !.invocations = @ - 1]

Start(t) == Invoke(t) /\ Counted

Answer(t) == \E decision \in {"approved", "rejected"} : Resume(t, decision) /\ Counted

Environment ==
    \/ \E c \in Clients : RevokeClient(c)
    \/ LoadProfiles
    \/ CatalogChanges
    \/ \E t \in Threads : Crash(t) \/ DenialEventFails(t)

Next ==
    \/ \E t \in Threads : Graph(t) \/ Dispatch(t) \/ Reenter(t) \/ Start(t) \/ Answer(t)
    \/ \E t \in Threads : Invoke(t) /\ UNCHANGED budget
    \/ Environment

Spec == Init /\ [][Next]_vars

\* A node that can run does, and a denial is reported back to its journey; nobody
\* has to start a journey, to answer a pause or to dispatch.
Fairness == \A t \in Threads : WF_vars(Graph(t) \/ Reenter(t))

FairSpec == Spec /\ Fairness

-----------------------------------------------------------------------------
Nodes == {"resolve_entitlement", "filter_offerings", "decide_nba", "handle_denial",
          "approval_gate", "paused", "end"}

States ==
    [next : Nodes, tools : SUBSET Names, offerings : SUBSET Names, nba : Names \cup {None},
     gated : BOOLEAN,
     status : {"unset", "not_applicable", "not_required", "approved", "denied"},
     denied : Names \cup {None}, excluded : SUBSET Names]

Phases == {"new", "running", "paused", "ended", "raised", "over", "denied"}

TypeOK ==
    /\ registered \subseteq Clients
    /\ ceiling \in [Clients -> SUBSET Names]
    /\ active \subseteq Names
    /\ live \in [Threads -> States]
    /\ saved \in [Threads -> States]
    /\ phase \in [Threads -> Phases]
    /\ reported \in [Threads -> Names \cup {None}]
    /\ emitted \in [Threads -> SUBSET Names]
    /\ consent \in [Threads -> BOOLEAN]
    /\ refused \in [Threads -> SUBSET Names]
    /\ budget \in [invocations : 0..MaxInvocations, events : 0..MaxEvents]

Delivered(t) == phase[t] \in {"paused", "ended"}

\* Once a re-entry with a denied action has returned, no later result of the
\* thread proposes that action: not over crashes, nor in rounds that start
\* afresh, nor when the re-entry died half-way and was made again.
RefusedNotProposed == \A t \in Threads : Delivered(t) => saved[t].nba \notin refused[t]

\* What a result proposes is in the entitlement the thread resolved last, and
\* among the offerings filtered under that entitlement, with the consent given;
\* in re-entries as well, which filter nothing again.
ProposalsEntitled ==
    \A t \in Threads : Delivered(t) /\ saved[t].nba # None =>
        saved[t].nba \in saved[t].offerings \cap saved[t].tools \cap Consented

\* The approval_status a journey ends with is that of the decision it ends with:
\* not_required only if the manifest requires no approval, approved only if
\* somebody approved this very decision, whatever flag and status earlier rounds,
\* denials and pauses have left in the thread.
ApprovalMatchesDecision ==
    \A t \in Threads : phase[t] = "ended" /\ saved[t].nba # None =>
        saved[t].status = IF saved[t].nba \notin Gated THEN "not_required"
                          ELSE IF consent[t] THEN "approved" ELSE "denied"

\* An exclusion that is in effect, saved or not, has its event in the audit
\* trail, though the sink fails and the process dies.
ExclusionsAudited ==
    \A t \in Threads : live[t].excluded \cup saved[t].excluded \subseteq emitted[t]

\* Denials end: a re-entry decides for an action that was not denied before, or
\* ends the journey, so however often what a thread proposes is dispatched and
\* denied, over pauses, failing sinks and crashes, from some moment on no denial
\* of it is outstanding.
DenialsEnd == \A t \in Threads : <>[](phase[t] # "denied")
=============================================================================
