------------------------------ MODULE MCGateway ------------------------------
(***************************************************************************)
(* A Gateway with one profile in two versions.  Neither version lets a     *)
(* "pay" of 1 through as it is: the first requires approval for it, the    *)
(* second has no such tool, but no restriction either.                     *)
(***************************************************************************)
EXTENDS Gateway

Profile(tools, limit, threshold) ==
    [allowed_tools |-> tools,
     restrictions |-> [max_transaction_value |-> limit, approval_threshold |-> threshold,
                       allowed_regions |-> None]]

McVersions ==
    <<[finance |-> Profile({"pay", "quote", "ghost"}, 2, 0)],
      [finance |-> Profile({"quote", "rest"}, None, None)]>>

McManifests ==
    [pay |-> [service |-> "payments", type |-> "mcp"],
     quote |-> [service |-> "quotes", type |-> "mcp"],
     rest |-> [service |-> "files", type |-> "rest"]]

McBackends == [payments |-> "exchange", quotes |-> "unset", files |-> "static"]

McRegistrations == [agent |-> "finance"]

Asks(client, tool, amount) ==
    [client |-> client, tool |-> tool, args |-> [amount |-> amount, region |-> None]]

McRequests ==
    {Asks(None, "quote", 0), Asks("stranger", "quote", 0), Asks("agent", "pay", 1),
     Asks("agent", "pay", 0), Asks("agent", "quote", 0), Asks("agent", "rest", 0),
     Asks("agent", "ghost", 0)}

\* Three calls that need approval, or one of them and another call.
McWeight == [r \in McRequests |-> IF r = Asks("agent", "pay", 1) THEN 1 ELSE 2]
=============================================================================
