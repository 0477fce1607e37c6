----------------------------- MODULE PolicyProofs -----------------------------
(***************************************************************************)
(* The decision only ever narrows: for any tools, regions, limits and      *)
(* amounts.  Of two pushed documents of which the second restricts more,   *)
(* the second allows no transaction and releases none from approval that   *)
(* the first would not; a step of Narrowing makes one of these of the      *)
(* other, or raises the amount, which does the same.                       *)
(***************************************************************************)
EXTENDS Narrowing, TLAPS

\* The limit, or threshold, f of document e is that of d, or a lower one.
BoundNarrower(f, d, e) ==
    Restricted(d, f) => /\ Restricted(e, f)
                        /\ e.restrictions[f] <= d.restrictions[f]

RegionsNarrower(d, e) ==
    Restricted(d, "allowed_regions") =>
        /\ Restricted(e, "allowed_regions")
        /\ e.restrictions.allowed_regions \subseteq d.restrictions.allowed_regions

Bounds == {"max_transaction_value", "approval_threshold"}

Narrower(d, e) ==
    /\ e.allowed_tools \subseteq d.allowed_tools
    /\ \A f \in Bounds : BoundNarrower(f, d, e)
    /\ RegionsNarrower(d, e)

\* The bounds that are set are numbers.
Numeric(d) == \A f \in Bounds : Restricted(d, f) => d.restrictions[f] \in Int

AtMost(a, b) == Amount(a) \in Int /\ Amount(b) \in Int /\ Amount(a) <= Amount(b)

\* What evaluate answers for a document and a call.
Answer(d, t, a, k) == Outcome([p \in {Name} |-> d], Name, t, a, k)

\* A call that the narrower document lets through, the wider one lets through.
LEMMA TransactionNarrows ==
  ASSUME NEW d, NEW e, NEW a, NEW b, NEW k, Narrower(d, e), Numeric(d), Numeric(e),
         AtMost(a, b), Region(a) = Region(b),
         TransactionAllow([p \in {Name} |-> e], Name, b, k)
  PROVE  TransactionAllow([p \in {Name} |-> d], Name, a, k)
<1>1. /\ WithinTransactionLimit(e, b) /\ WithinAllowedRegions(e, b) /\ k # "restricted"
  BY DEF TransactionAllow
<1>2. WithinTransactionLimit(d, a)
  BY <1>1 DEF WithinTransactionLimit, Narrower, BoundNarrower, Bounds, Numeric, AtMost
<1>3. WithinAllowedRegions(d, a)
  BY <1>1 DEF WithinAllowedRegions, Narrower, RegionsNarrower
<1>4. QED
  BY <1>1, <1>2, <1>3 DEF TransactionAllow

\* A call that the wider document holds for approval, the narrower one holds or
\* refuses.
LEMMA ApprovalNarrows ==
  ASSUME NEW d, NEW e, NEW a, NEW b, NEW k, Narrower(d, e), Numeric(d), Numeric(e),
         AtMost(a, b),
         RequireApproval([p \in {Name} |-> d], Name, a, k),
         TransactionAllow([p \in {Name} |-> e], Name, b, k)
  PROVE  RequireApproval([p \in {Name} |-> e], Name, b, k)
<1>1. /\ Restricted(d, "approval_threshold")
      /\ Amount(a) > d.restrictions.approval_threshold
  BY DEF RequireApproval
<1>2. /\ Restricted(e, "approval_threshold")
      /\ Amount(b) > e.restrictions.approval_threshold
  BY <1>1 DEF Narrower, BoundNarrower, Bounds, Numeric, AtMost
<1>3. QED
  BY <1>2 DEF RequireApproval

\* A narrower document answers no call, and no larger one, more permissively.
LEMMA AnswerNarrows ==
  ASSUME NEW d, NEW e, NEW a, NEW b, NEW t, NEW u, NEW k, Narrower(d, e), Numeric(d), Numeric(e),
         AtMost(a, b), Region(a) = Region(b), t = u
  PROVE  Rank(Answer(e, u, b, k)) >= Rank(Answer(d, t, a, k))
<1> DEFINE D == [p \in {Name} |-> d]
           E == [p \in {Name} |-> e]
<1>1. EntitlementAllow(E, Name, t) => EntitlementAllow(D, Name, t)
  BY DEF EntitlementAllow, Narrower
<1>2. TransactionAllow(E, Name, b, k) => TransactionAllow(D, Name, a, k)
  BY TransactionNarrows
<1>3. RequireApproval(D, Name, a, k) /\ TransactionAllow(E, Name, b, k)
        => RequireApproval(E, Name, b, k)
  BY ApprovalNarrows
<1> HIDE DEF D, E
<1>4. Rank(Outcome(E, Name, t, b, k)) >= Rank(Outcome(D, Name, t, a, k))
  BY <1>1, <1>2, <1>3 DEF Outcome, TransactionOutcome, Rank
<1>5. QED
  BY <1>4 DEF Answer, D, E

TypeInv ==
    /\ profile \in [allowed_tools : SUBSET Tools, restrictions : Restrictions]
    /\ args \in [amount : {None} \cup Amounts, region : {None} \cup Regions]

\* What is pushed of a well-typed profile: its tools, and what it restricts.
LEMMA Pushed ==
  ASSUME NEW q \in [allowed_tools : SUBSET Tools, restrictions : Restrictions]
  PROVE  /\ Document(q).allowed_tools = q.allowed_tools
         /\ \A f \in DOMAIN q.restrictions :
              /\ Restricted(Document(q), f) <=> q.restrictions[f] # None
              /\ q.restrictions[f] # None =>
                   Document(q).restrictions[f] = q.restrictions[f]
         /\ DOMAIN q.restrictions = Bounds \cup {"allowed_regions"}
<1>1. DOMAIN q.restrictions = Bounds \cup {"allowed_regions"}
  BY DEF Restrictions, Bounds
<1> DEFINE r == [f \in {g \in DOMAIN q.restrictions : q.restrictions[g] # None} |-> q.restrictions[f]]
<1>2. Document(q) = [q EXCEPT !.restrictions = r]
  BY DEF Document
<1> HIDE DEF r
<1>3. Document(q).allowed_tools = q.allowed_tools /\ Document(q).restrictions = r
  BY <1>2
<1>4. QED
  BY <1>1, <1>3 DEF r, Restricted

\* So its bounds are numbers.
LEMMA PushedNumeric ==
  ASSUME NEW q \in [allowed_tools : SUBSET Tools, restrictions : Restrictions]
  PROVE  Numeric(Document(q))
<1>1. \A f \in Bounds : q.restrictions[f] \in {None} \cup Limits
  BY DEF Restrictions, Bounds
<1>2. QED
  BY <1>1, Pushed, NumbersAssumption DEF Numeric

\* Field by field, a profile that restricts more is pushed as a narrower document.
LEMMA DocumentNarrows ==
  ASSUME NEW q \in [allowed_tools : SUBSET Tools, restrictions : Restrictions],
         NEW r \in [allowed_tools : SUBSET Tools, restrictions : Restrictions],
         r.allowed_tools \subseteq q.allowed_tools,
         \A f \in Bounds : q.restrictions[f] # None =>
             /\ r.restrictions[f] # None
             /\ r.restrictions[f] <= q.restrictions[f],
         q.restrictions.allowed_regions # None =>
             /\ r.restrictions.allowed_regions # None
             /\ r.restrictions.allowed_regions \subseteq q.restrictions.allowed_regions
  PROVE  Narrower(Document(q), Document(r))
<1>1. \A f \in Bounds : BoundNarrower(f, Document(q), Document(r))
  BY Pushed DEF BoundNarrower
<1>2. RegionsNarrower(Document(q), Document(r))
  BY Pushed DEF RegionsNarrower
<1>3. QED
  BY <1>1, <1>2, Pushed DEF Narrower

\* A step leaves the profile and the call well-typed.
LEMMA TypesKept ==
  ASSUME TypeInv, [Next]_vars
  PROVE  TypeInv'
<1>1. ASSUME NEW f \in DOMAIN profile.restrictions, LowerBound(f) PROVE TypeInv'
  BY <1>1 DEF TypeInv, LowerBound, Restrictions
<1>2. CASE FewerRegions
  BY <1>2 DEF TypeInv, FewerRegions, Restrictions
<1>3. CASE FewerTools
  BY <1>3 DEF TypeInv, FewerTools
<1>4. CASE LargerAmount
  BY <1>4 DEF TypeInv, LargerAmount
<1>5. QED
  BY <1>1, <1>2, <1>3, <1>4 DEF Next, vars, TypeInv

\* Amounts are numbers, the absent one as well.
LEMMA AmountsAreNumbers ==
  ASSUME NEW a \in [amount : {None} \cup Amounts, region : {None} \cup Regions]
  PROVE  Amount(a) \in Int
BY NumbersAssumption DEF Amount

\* Each operation restricts the profile, or raises the amount, and does no more.
LEMMA StepNarrows ==
  ASSUME TypeInv, TypeInv', [Next]_vars
  PROVE  /\ profile'.allowed_tools \subseteq profile.allowed_tools
         /\ \A f \in Bounds : profile.restrictions[f] # None =>
              /\ profile'.restrictions[f] # None
              /\ profile'.restrictions[f] <= profile.restrictions[f]
         /\ profile.restrictions.allowed_regions # None =>
              /\ profile'.restrictions.allowed_regions # None
              /\ profile'.restrictions.allowed_regions \subseteq profile.restrictions.allowed_regions
         /\ Amount(args) <= Amount(args)'
         /\ Region(args) = Region(args)'
         /\ tool' = tool /\ classification' = classification
<1> USE DEF Bounds
<1>1. \A f \in Bounds : profile.restrictions[f] # None => profile.restrictions[f] \in Int
  BY NumbersAssumption DEF TypeInv, Restrictions
<1>2. Amount(args) \in Int /\ Amount(args)' \in Int
  BY AmountsAreNumbers DEF TypeInv
<1>3. ASSUME NEW f \in DOMAIN profile.restrictions, LowerBound(f)
      PROVE  /\ UNCHANGED <<tool, args, classification>>
             /\ profile'.allowed_tools = profile.allowed_tools
             /\ profile'.restrictions.allowed_regions = profile.restrictions.allowed_regions
             /\ \A g \in Bounds : profile.restrictions[g] # None =>
                  /\ profile'.restrictions[g] # None
                  /\ profile'.restrictions[g] <= profile.restrictions[g]
  <2>1. PICK b \in Limits : /\ profile.restrictions[f] = None \/ b < profile.restrictions[f]
                           /\ profile' = [profile EXCEPT !.restrictions[f] = b]
                           /\ UNCHANGED <<tool, args, classification>>
                           /\ f \in Bounds
    BY <1>3 DEF LowerBound
  <2>2. b \in Int /\ b # None
    BY NumbersAssumption, UnsetAssumption
  <2>3. \A g \in DOMAIN profile.restrictions :
          profile'.restrictions[g] = IF g = f THEN b ELSE profile.restrictions[g]
    BY <2>1 DEF TypeInv, Restrictions
  <2>4. DOMAIN profile.restrictions = Bounds \cup {"allowed_regions"}
    BY DEF TypeInv, Restrictions
  <2>5. profile'.allowed_tools = profile.allowed_tools
    BY <2>1 DEF TypeInv
  <2>6. QED
    BY <1>1, <2>1, <2>2, <2>3, <2>4, <2>5
<1>4. CASE FewerRegions
  <2>1. PICK r \in SUBSET Regions :
           /\ \/ profile.restrictions.allowed_regions = None
              \/ r \subseteq profile.restrictions.allowed_regions
           /\ profile' = [profile EXCEPT !.restrictions.allowed_regions = r]
           /\ UNCHANGED <<tool, args, classification>>
    BY <1>4 DEF FewerRegions
  <2>2. r # None
    BY UnsetAssumption
  <2>3. /\ profile'.restrictions.allowed_regions = r
        /\ \A f \in Bounds : profile'.restrictions[f] = profile.restrictions[f]
        /\ profile'.allowed_tools = profile.allowed_tools
    BY <2>1 DEF TypeInv, Restrictions
  <2>4. QED
    BY <1>1, <1>2, <2>1, <2>2, <2>3
<1>5. CASE FewerTools
  <2>1. /\ profile'.restrictions = profile.restrictions
        /\ profile'.allowed_tools \subseteq profile.allowed_tools
        /\ UNCHANGED <<tool, args, classification>>
    BY <1>5 DEF FewerTools, TypeInv
  <2>2. QED
    BY <1>1, <1>2, <2>1
<1>6. CASE LargerAmount
  <2>1. PICK a \in Amounts : a > Amount(args) /\ args' = [args EXCEPT !.amount = a]
    BY <1>6 DEF LargerAmount
  <2>2. a \in Int /\ a # None /\ args'.amount = a /\ args'.region = args.region
    BY <2>1, NumbersAssumption, UnsetAssumption DEF TypeInv
  <2>3. Amount(args) <= Amount(args)' /\ Region(args) = Region(args)'
    BY <1>2, <2>1, <2>2 DEF Amount, Region
  <2>4. UNCHANGED <<profile, tool, classification>>
    BY <1>6 DEF LargerAmount
  <2>5. QED
    BY <1>1, <2>3, <2>4
<1>7. CASE UNCHANGED vars
  BY <1>1, <1>2, <1>7 DEF vars
<1>8. QED
  BY <1>1, <1>2, <1>3, <1>4, <1>5, <1>6, <1>7 DEF Next

\* The profile and the call are well-typed throughout.
THEOREM TypeCorrect == Spec => []TypeInv
<1>1. Init => TypeInv
  BY DEF Init, TypeInv
<1>2. QED
  BY <1>1, TypesKept, PTL DEF Spec

\* Whatever the numbers, regions and tools: a stricter profile, or a larger
\* amount, is never answered more permissively than before.
THEOREM NeverWidens == Spec => NarrowingNeverWidens
<1>1. ASSUME TypeInv, TypeInv', [Next]_vars
      PROVE  Rank(Decision') >= Rank(Decision)
  <2> DEFINE Q == [allowed_tools : SUBSET Tools, restrictions : Restrictions]
  <2>1. profile \in Q /\ profile' \in Q
    BY <1>1 DEF TypeInv, Restrictions
  <2>2. Narrower(Document(profile), Document(profile'))
    BY <1>1, <2>1, StepNarrows, DocumentNarrows
  <2>3. Numeric(Document(profile)) /\ Numeric(Document(profile'))
    BY <2>1, PushedNumeric
  <2> DEFINE A == [amount : {None} \cup Amounts, region : {None} \cup Regions]
  <2>4. /\ AtMost(args, args') /\ Region(args) = Region(args')
        /\ tool' = tool /\ classification' = classification
    <3>1. args \in A /\ args' \in A
      BY <1>1 DEF TypeInv
    <3>2. Amount(args) \in Int /\ Amount(args') \in Int
      BY <3>1, AmountsAreNumbers
    <3>3. QED
      BY <1>1, <3>2, StepNarrows DEF AtMost
  <2>5. Rank(Answer(Document(profile'), tool', args', classification'))
          >= Rank(Answer(Document(profile), tool, args, classification))
    BY <2>2, <2>3, <2>4, AnswerNarrows
  <2>6. QED
    BY <2>5 DEF Answer, Decision, Data
<1>2. QED
  BY <1>1, TypeCorrect, PTL DEF Spec, NarrowingNeverWidens
===============================================================================
