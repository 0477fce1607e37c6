------------------------------ MODULE Registry ------------------------------
(***************************************************************************)
(* The Capability Registry: the store's table of manifests (registry/      *)
(* store.py), the publishing pipeline that writes it (pipeline.py) and the *)
(* lifecycle its transitions are validated against (lifecycle.py).         *)
(*                                                                         *)
(* Callers run the pipeline side by side, each in a process of its own on  *)
(* the one SQLite file.  A step is one connection's transaction: a         *)
(* set_lifecycle_status is a get and an upsert, a submit is an upsert and  *)
(* two of these, a publish a get and one of these.                         *)
(***************************************************************************)
EXTENDS Integers

CONSTANTS
    Callers,    \* processes that submit, publish and change status
    Names,      \* capability names
    Manifests,  \* what may be submitted under a name: owner and service
                \* (TRUE: given), risk_tier, approval (TRUE: required)
    Absent,     \* no row, no manifest
    MaxCalls    \* bound on the calls

Statuses == {"nominate", "review", "register", "active", "deprecated", "retired"}

Rows == [manifest : Manifests, status : Statuses]

ASSUME AbsentAssumption == Absent \notin Manifests \cup Rows
ASSUME MaxCallsAssumption == MaxCalls \in Nat

VARIABLES
    table,      \* name -> its row, a manifest and its status, or Absent
    caller,     \* what each caller does: its next transaction, the name, the
                \* manifest of a submit, the status it sets, the row it read
    calls,      \* calls so far (bounded)
    reviewed,   \* history: each name with the manifests that were in REVIEW for it
    retired,    \* history: the names that have been RETIRED
    raced       \* history: the names two calls have worked on at a time

vars == <<table, caller, calls, reviewed, retired, raced>>

Idle == [pc |-> "idle", name |-> Absent, manifest |-> Absent, target |-> Absent, row |-> Absent]

Init ==
    /\ table = [n \in Names |-> Absent]
    /\ caller = [p \in Callers |-> Idle]
    /\ calls = 0
    /\ reviewed = {}
    /\ retired = {}
    /\ raced = {}

-----------------------------------------------------------------------------
\* A mutant: a retired capability may be published again.
RevivingTransitions(s) ==
    CASE s = "nominate" -> {"review"}
      [] s = "review" -> {"register", "nominate"}
      [] s = "register" -> {"active"}
      [] s = "active" -> {"active", "deprecated"}
      [] s = "deprecated" -> {"retired"}
      [] s = "retired" -> {"active"}

AllowedTransitions(s) ==
    CASE s = "nominate" -> {"review"}
      [] s = "review" -> {"register", "nominate"}
      [] s = "register" -> {"active"}
      [] s = "active" -> {"active", "deprecated"}
      [] s = "deprecated" -> {"retired"}
      [] s = "retired" -> {}

HighImpact == {"R3", "R4"}

\* A mutant: the risk gate covers the highest tier only.
RunLaxGates(m) == m.owner /\ m.service /\ (m.risk_tier = "R4" => m.approval)

\* TRUE when no gate has a reason to reject the manifest.
RunGates(m) == m.owner /\ m.service /\ (m.risk_tier \in HighImpact => m.approval)

Begin(p, n, step) ==
    /\ caller[p].pc = "idle"
    /\ calls < MaxCalls
    /\ calls' = calls + 1
    /\ raced' = IF \E q \in Callers : caller[q].name = n THEN raced \cup {n} ELSE raced
    /\ caller' = [caller EXCEPT ![p] = step]
    /\ UNCHANGED <<table, reviewed, retired>>

\* A manifest a gate rejects is not looked at any further.
Submit(p, n, m) ==
    /\ RunGates(m)
    /\ Begin(p, n, [Idle EXCEPT !.pc = "nominate", !.name = n, !.manifest = m])

Publish(p, n) == Begin(p, n, [Idle EXCEPT !.pc = "check", !.name = n])

\* set_lifecycle_status called as such.  The store takes any status and validates
\* none; deprecating and retiring are what it is for outside the pipeline, which
\* has no call of its own for them.
SetStatus(p, n, s) == Begin(p, n, [Idle EXCEPT !.pc = "get", !.name = n, !.target = s])

-----------------------------------------------------------------------------
(* The transactions.                                                       *)

Row(p) == table[caller[p].name]

\* set_lifecycle_status starts.
ThenSet(p, s) ==
    caller' = [caller EXCEPT ![p].pc = "get", ![p].target = s, ![p].row = Absent]

Ends(p) == caller' = [caller EXCEPT ![p] = Idle]

\* The first upsert of a submit, whatever the name's row was.
Nominate(p) ==
    LET n == caller[p].name IN
    /\ caller[p].pc = "nominate"
    /\ table' = [table EXCEPT ![n] = [manifest |-> caller[p].manifest, status |-> "nominate"]]
    /\ ThenSet(p, "review")
    /\ UNCHANGED <<calls, reviewed, retired, raced>>

\* A mutant: whatever has been submitted can be published.
CheckPresence(p) ==
    /\ caller[p].pc = "check"
    /\ IF Row(p) # Absent THEN ThenSet(p, "active") ELSE Ends(p)
    /\ UNCHANGED <<table, calls, reviewed, retired, raced>>

\* publish reads the status it validates; an absent name and an edge that is
\* not allowed raise.
Check(p) ==
    /\ caller[p].pc = "check"
    /\ IF Row(p) # Absent /\ "active" \in AllowedTransitions(Row(p).status)
       THEN ThenSet(p, "active") ELSE Ends(p)
    /\ UNCHANGED <<table, calls, reviewed, retired, raced>>

\* A mutant: a name that is not there is no error.
GetAny(p) ==
    /\ caller[p].pc = "get"
    /\ caller' = [caller EXCEPT ![p].pc = "put", ![p].row = Row(p)]
    /\ UNCHANGED <<table, calls, reviewed, retired, raced>>

Get(p) ==
    /\ caller[p].pc = "get"
    /\ IF Row(p) = Absent THEN Ends(p)
       ELSE caller' = [caller EXCEPT ![p].pc = "put", ![p].row = Row(p)]
    /\ UNCHANGED <<table, calls, reviewed, retired, raced>>

\* The manifest that was read goes back with the new status.  A submit sets
\* REVIEW, then REGISTER.
Put(p) ==
    LET n == caller[p].name
        s == caller[p].target
        m == caller[p].row.manifest
    IN
    /\ caller[p].pc = "put"
    /\ table' = [table EXCEPT ![n] = [manifest |-> m, status |-> s]]
    /\ reviewed' = IF s = "review" THEN reviewed \cup {<<n, m>>} ELSE reviewed
    /\ retired' = IF s = "retired" THEN retired \cup {n} ELSE retired
    /\ IF s = "review" THEN ThenSet(p, "register") ELSE Ends(p)
    /\ UNCHANGED <<calls, raced>>

\* The caller dies, or a transaction of its fails on a locked database.
Fail(p) ==
    /\ caller[p].pc # "idle"
    /\ Ends(p)
    /\ UNCHANGED <<table, calls, reviewed, retired, raced>>

Next ==
    \E p \in Callers :
        \/ \E n \in Names :
            \/ \E m \in Manifests : Submit(p, n, m)
            \/ Publish(p, n)
            \/ \E s \in {"deprecated", "retired"} : SetStatus(p, n, s)
        \/ Nominate(p) \/ Check(p) \/ Get(p) \/ Put(p) \/ Fail(p)

Spec == Init /\ [][Next]_vars

-----------------------------------------------------------------------------
RowType == {Absent} \cup Rows

CallerType ==
    [pc : {"idle", "nominate", "check", "get", "put"},
     name : Names \cup {Absent},
     manifest : Manifests \cup {Absent},
     target : Statuses \cup {Absent},
     row : RowType]

TypeOK ==
    /\ table \in [Names -> RowType]
    /\ caller \in [Callers -> CallerType]
    /\ \A p \in Callers : caller[p].pc = "put" => caller[p].row # Absent
    /\ calls \in 0..MaxCalls
    /\ reviewed \subseteq Names \X Manifests
    /\ retired \subseteq Names
    /\ raced \subseteq Names

\* What list_active resolves.
Active(n) == table[n] # Absent /\ table[n].status = "active"

\* Whatever calls interleave and wherever they fail, a capability of high
\* impact is never served with a manifest that requires no approval, nor one
\* without an owner or a backend.
ServedPassedGates ==
    \A n \in Names : Active(n) =>
        LET m == table[n].manifest IN
        /\ m.owner /\ m.service
        /\ m.risk_tier \in {"R3", "R4"} => m.approval

Reviewed(n) == <<n, table[n].manifest>> \in reviewed

\* Calls that do not overlap keep the lifecycle's promise, though they fail
\* half-way: no manifest is ACTIVE that has not been in REVIEW.
ReviewedUnlessRaced == \A n \in Names : Active(n) /\ n \notin raced => Reviewed(n)

\* What a step that makes a capability ACTIVE starts from.
ActivatesRegistered ==
    \A n \in Names :
        Active(n)' /\ ~Active(n) /\ n \notin raced
            => table[n] # Absent /\ table[n].status = "register"

\* publish checks in one transaction and writes in others, and calls fail in
\* between; still, unless calls for it overlap, a capability becomes ACTIVE out
\* of REGISTER alone: none comes back from DEPRECATED or RETIRED, nor is one
\* published whose submit stopped half-way.
ActivatedFromRegister == [][ActivatesRegistered]_vars

\* What lifecycle.py says of any caller ("nothing reaches ACTIVE without having
\* passed through REVIEW first") and registry-capability-manifest.en-us.md:45.
ReviewedBeforeActive == \A n \in Names : Active(n) => Reviewed(n)

\* What lifecycle.py:29 and test_retired_is_terminal say of RETIRED.
RetiredIsTerminal == \A n \in retired : table[n] # Absent /\ table[n].status = "retired"

\* The two together: a state that violates the disjunction refutes both.
LifecycleKept == ReviewedBeforeActive \/ RetiredIsTerminal
=============================================================================
