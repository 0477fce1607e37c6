-------------------------- MODULE ApprovalPromise --------------------------
(***************************************************************************)
(* What ApprovalService promises, with no threads, loops or lock in it: an *)
(* approval is on offer or it is not, and an attempt is released by taking *)
(* one offer away, in one step.                                            *)
(***************************************************************************)
EXTENDS Integers, Sequences

VARIABLES
    offered,    \* the approvals an attempt can be released by
    uses        \* how many attempts each approval has released

vars == <<offered, uses>>

Init == offered = {} /\ uses = <<>>

\* A request is made; nothing is on offer by that.
Open ==
    /\ uses' = Append(uses, 0)
    /\ UNCHANGED offered

\* An approver grants.
Offer(i) ==
    /\ offered' = offered \cup {i}
    /\ UNCHANGED uses

\* Approvals are denied or expire.
Withdraw ==
    /\ offered' \subseteq offered
    /\ UNCHANGED uses

\* An attempt is released: the offer is gone in the same step.
Use(i) ==
    /\ i \in offered
    /\ offered' = offered \ {i}
    /\ uses' = [uses EXCEPT ![i] = @ + 1]

Next ==
    \/ Open
    \/ \E i \in 1..Len(uses) : Offer(i) \/ Use(i)
    \/ Withdraw

Spec == Init /\ [][Next]_vars
=============================================================================
