----------------------------- MODULE Narrowing -----------------------------
(***************************************************************************)
(* Policy under changes of the profile and of the call.  A behavior starts *)
(* with any profile and any call and makes the profile stricter, or the    *)
(* call bigger, one change at a time: a profile "only ever narrows what a  *)
(* client may be granted" (entitlement/models.py).                         *)
(***************************************************************************)
EXTENDS Policy

CONSTANTS
    Tools,
    Regions,
    Limits,         \* the values of a limit or threshold that is set
    Amounts         \* the amounts of a call that has one

ASSUME NumbersAssumption == Limits \cup Amounts \subseteq Int

\* "Unset" is no value of a field.
ASSUME UnsetAssumption ==
    None \notin Limits \cup Amounts /\ \A s \in SUBSET Regions : s # None

VARIABLES profile, tool, args, classification
vars == <<profile, tool, args, classification>>

Restrictions ==
    [max_transaction_value : {None} \cup Limits, approval_threshold : {None} \cup Limits,
     allowed_regions : {None} \cup SUBSET Regions]

Init ==
    /\ profile \in [allowed_tools : SUBSET Tools \ {{}}, restrictions : Restrictions]
    /\ tool \in Tools
    /\ args \in [amount : {None} \cup Amounts, region : {None} \cup Regions]
    /\ classification \in {"standard", "restricted"}

\* A bound is set, or lowered.
LowerBound(f) ==
    /\ f \in {"max_transaction_value", "approval_threshold"}
    /\ \E b \in {n \in Limits :
                    profile.restrictions[f] = None \/ n < profile.restrictions[f]} :
         profile' = [profile EXCEPT !.restrictions[f] = b]
    /\ UNCHANGED <<tool, args, classification>>

\* The regions are set, or some are taken away.
FewerRegions ==
    /\ \E r \in {s \in SUBSET Regions :
                    \/ profile.restrictions.allowed_regions = None
                    \/ s \subseteq profile.restrictions.allowed_regions} :
         profile' = [profile EXCEPT !.restrictions.allowed_regions = r]
    /\ UNCHANGED <<tool, args, classification>>

FewerTools ==
    /\ \E t \in profile.allowed_tools :
        /\ profile.allowed_tools # {t}
        /\ profile' = [profile EXCEPT !.allowed_tools = @ \ {t}]
    /\ UNCHANGED <<tool, args, classification>>

LargerAmount ==
    /\ \E a \in Amounts :
        /\ a > Amount(args)
        /\ args' = [args EXCEPT !.amount = a]
    /\ UNCHANGED <<profile, tool, classification>>

Next ==
    \/ \E f \in DOMAIN profile.restrictions : LowerBound(f)
    \/ FewerRegions
    \/ FewerTools
    \/ LargerAmount

Spec == Init /\ [][Next]_vars

-----------------------------------------------------------------------------
Name == "P"

Data == [p \in {Name} |-> Document(profile)]

Decision == Outcome(Data, Name, tool, args, classification)

Rank(o) == CASE o = "ALLOW" -> 0 [] o = "REQUIRE_APPROVAL" -> 1 [] o = "DENY" -> 2

\* Narrowing a profile, or raising the amount of a call, never turns its
\* decision into a more permissive one, through the pushed document, the
\* undefined fields, the defaults of absent arguments and the order in which
\* limit and threshold are looked at.
NarrowingNeverWidens == [][Rank(Decision') >= Rank(Decision)]_vars

\* What entitlement/models.py says of approval_threshold ("payment.execute <
\* 10k ALLOW, >= 10k REQUIRE_APPROVAL"): at the threshold approval is required.
ThresholdNeedsApproval ==
    Decision = "ALLOW" => \/ ~Restricted(Data[Name], "approval_threshold")
                         \/ Amount(args) < profile.restrictions.approval_threshold
=============================================================================
