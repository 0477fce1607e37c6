----------------------------- MODULE MCAgentTurn -----------------------------
(* Two callers, one of them in a turn and the other with requests of its   *)
(* own; two clients, two profiles, and one backend per kind of credential. *)
EXTENDS AgentTurn, TLC

CONSTANTS app, other, first, second, none

MCCallers == {app, other}
MCSyncs == {first, second}

MCTools == {"crm", "pay", "old"}
MCOffers == "sales" :> {"crm", "pay"} @@ "finance" :> {"pay"} @@ "legacy" :> {"old"}
MCServices == "crm" :> "sales" @@ "pay" :> "finance" @@ "old" :> "legacy"
MCModes == "sales" :> "exchange" @@ "finance" :> "static"
MCUnknown == {"legacy"}
MCGuarded == {"finance"}

MCRegistrations == {"agent" :> "basic" @@ "billing" :> "full", "agent" :> "full"}
MCGenerations == {"basic" :> {"crm"} @@ "full" :> {"crm", "pay"},
                  "basic" :> {"crm", "old"} @@ "full" :> {"pay"}}

Bearer(azp, client_id, exp) ==
    [genuine |-> TRUE, azp |-> azp, client_id |-> client_id, exp |-> exp]
Method(m, n) == [method |-> m, name |-> n]

MCAgents == "crm_agent" :> Bearer("agent", none, 0)
         @@ "finance_agent" :> Bearer(none, "billing", 9)

List == Method("tools/list", none)
Unlabelled == Method(none, none)
Request(bearer, header, body) == [bearer |-> bearer, header |-> header, body |-> body]

AgentLists == Request(Bearer("agent", none, 9), List, List)
AgentListsAgain == Request(Bearer("agent", none, 9), Unlabelled, List)
BillingLists == Request(Bearer("billing", "agent", 9), List, List)

MCRequests ==
    {AgentLists, BillingLists,
     Request(Bearer("agent", none, 0), Unlabelled, List),
     Request([Bearer("agent", none, 9) EXCEPT !.genuine = FALSE], Unlabelled, List),
     Request(Bearer(none, none, 9), Method("tools/call", "crm"), Method("tools/call", "crm")),
     Request(none, List, Unlabelled),
     Request(Bearer("agent", none, 9), Method("tools/call", "crm"), Method("tools/call", "pay")),
     Request(Bearer("agent", none, 9), Method("tools/call", "crm"), Method("tools/call", none)),
     Request(Bearer("agent", none, 9), List, Method("tools/call", "pay")),
     Request(Bearer("agent", none, 9), List, Unlabelled)}

Plan(turns, requests, changes, syncsOf, failures, ticks) ==
    [turns |-> turns, requests |-> requests, changes |-> changes, syncs |-> syncsOf,
     failures |-> failures, ticks |-> ticks]

Sends(caller, requests) == {[caller |-> caller, sends |-> r] : r \in requests}
Both == Sends(app, {AgentLists}) \cup Sends(other, {BillingLists})
Twice == Sends(app, {AgentLists, AgentListsAgain})

\* One turn, or one or two requests, with a little of everything else.
MCPlans ==
    {Plan({app}, {}, 1, 1, 0, 0), Plan({app}, {}, 1, 0, 1, 0), Plan({app}, {}, 0, 0, 1, 1),
     Plan({app}, Sends(other, {AgentLists}), 0, 0, 0, 0), Plan({}, Twice, 1, 0, 0, 0),
     Plan({}, Both, 0, 0, 0, 2), Plan({}, {}, 2, 2, 1, 0)}
    \cup {Plan({}, Sends(app, {r}), 1, 0, 1, 1) : r \in MCRequests}
=============================================================================
