---------------------------- MODULE GrantPromise ----------------------------
(***************************************************************************)
(* What the Gateway promises of operations that need approval, with no     *)
(* policies, credentials, crashes or clocks in it: a grant puts an         *)
(* approval on offer, a call is released by taking one offer away, and a   *)
(* backend runs a call that was released and has not run yet.  Offers and  *)
(* released calls may be lost, and nothing else becomes of them.           *)
(***************************************************************************)
EXTENDS Integers

CONSTANT Operations

VARIABLES
    offers,     \* operation -> the approvals a call can be released by
    underway,   \* operation -> the calls that are released and have not run
    runs        \* operation -> how often a backend has run it

vars == <<offers, underway, runs>>

Init ==
    /\ offers = [o \in Operations |-> {}]
    /\ underway = [o \in Operations |-> {}]
    /\ runs = [o \in Operations |-> 0]

\* An approver grants.
Offer(o, i) ==
    /\ offers' = [offers EXCEPT ![o] = @ \cup {i}]
    /\ UNCHANGED <<underway, runs>>

\* A call is released: one offer is gone in the same step.
Release(o, i, c) ==
    /\ i \in offers[o]
    /\ c \notin underway[o]
    /\ offers' = [offers EXCEPT ![o] = @ \ {i}]
    /\ underway' = [underway EXCEPT ![o] = @ \cup {c}]
    /\ UNCHANGED runs

\* A backend runs a released call, once.
Run(o, c) ==
    /\ c \in underway[o]
    /\ underway' = [underway EXCEPT ![o] = @ \ {c}]
    /\ runs' = [runs EXCEPT ![o] = @ + 1]
    /\ UNCHANGED offers

Fewer(lost, f) == DOMAIN lost = Operations /\ \A o \in Operations : lost[o] \subseteq f[o]

\* Approvals are denied, expire or are forgotten; released calls never arrive.
Lose ==
    /\ Fewer(offers', offers)
    /\ Fewer(underway', underway)
    /\ UNCHANGED runs

Next ==
    \/ \E o \in Operations :
         \/ \E i \in offers'[o] : Offer(o, i)
         \/ \E i \in offers[o], c \in underway'[o] : Release(o, i, c)
         \/ \E c \in underway[o] : Run(o, c)
    \/ Lose

Spec == Init /\ [][Next]_vars
=============================================================================
