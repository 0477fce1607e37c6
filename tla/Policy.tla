------------------------------- MODULE Policy -------------------------------
(***************************************************************************)
(* The two-step decision: what the Entitlement Manager pushes into OPA     *)
(* (entitlement/manager.py), the two Rego policies (config/policies) and   *)
(* the outcome PDPClient.evaluate makes of their answers (pdp/client.py).  *)
(* OPA's data is a function from profile names to pushed documents.        *)
(***************************************************************************)
EXTENDS Integers

CONSTANT None   \* an unset field, an absent argument

\* A mutant: an unset restriction is pushed as null, which is below every
\* number and has no member.
DocumentWithNulls(profile) ==
    [profile EXCEPT !.restrictions =
        [f \in DOMAIN @ |-> IF @[f] # None THEN @[f]
                            ELSE IF f = "allowed_regions" THEN {} ELSE -1]]

\* model_dump(exclude_none): only a restriction that is set is a field of the
\* document, for Rego's "not" holds of an undefined value and not of null.
Document(profile) ==
    [profile EXCEPT !.restrictions = [f \in {g \in DOMAIN @ : @[g] # None} |-> @[f]]]

Restricted(doc, f) == f \in DOMAIN doc.restrictions

\* object.get with its default: 0 for an absent amount, "" for an absent region.
Amount(args) == IF args.amount = None THEN 0 ELSE args.amount

Region(args) == IF args.region = None THEN "" ELSE args.region

EntitlementAllow(data, profile, tool) ==
    profile \in DOMAIN data /\ tool \in data[profile].allowed_tools

\* A mutant: the comparison is turned round.
BelowTransactionLimit(doc, args) ==
    \/ ~Restricted(doc, "max_transaction_value")
    \/ Amount(args) >= doc.restrictions.max_transaction_value

WithinTransactionLimit(doc, args) ==
    \/ ~Restricted(doc, "max_transaction_value")
    \/ Amount(args) <= doc.restrictions.max_transaction_value

WithinAllowedRegions(doc, args) ==
    \/ ~Restricted(doc, "allowed_regions")
    \/ Region(args) \in doc.restrictions.allowed_regions

TransactionAllow(data, profile, args, classification) ==
    /\ profile \in DOMAIN data
    /\ WithinTransactionLimit(data[profile], args)
    /\ WithinAllowedRegions(data[profile], args)
    /\ classification # "restricted"

\* Strictly above the threshold.
RequireApproval(data, profile, args, classification) ==
    /\ TransactionAllow(data, profile, args, classification)
    /\ Restricted(data[profile], "approval_threshold")
    /\ Amount(args) > data[profile].restrictions.approval_threshold

\* What evaluate makes of the second answer.
TransactionOutcome(data, profile, args, classification) ==
    IF ~TransactionAllow(data, profile, args, classification) THEN "DENY"
    ELSE IF RequireApproval(data, profile, args, classification) THEN "REQUIRE_APPROVAL"
    ELSE "ALLOW"

\* Both steps on the same data.
Outcome(data, profile, tool, args, classification) ==
    IF EntitlementAllow(data, profile, tool)
    THEN TransactionOutcome(data, profile, args, classification)
    ELSE "DENY"
=============================================================================
