--------------------------- MODULE ApprovalStore ---------------------------
(***************************************************************************)
(* The approval records kept by ApprovalService (approval/service.py) and  *)
(* what the service reads off one record.  The dict of requests is a       *)
(* sequence in insertion order, an approval_id is an index into it.  An    *)
(* operation hash is the operation itself: the hash is taken over the      *)
(* canonical (client_profile, tool, arguments) triple, so equal hashes     *)
(* mean equal triples.                                                     *)
(***************************************************************************)
EXTENDS Integers, Sequences

Statuses == {"pending", "granted", "denied", "consumed"}

\* The boundary instant belongs to the expired side.
IsExpired(approval, now) == now >= approval.expires_at

\* A mutant: the clock is not consulted.
ReleasableForever(approval, o, now) == approval.op = o /\ approval.status = "granted"

\* The record a check_and_consume for operation o may spend.
Releasable(approval, o, now) ==
    /\ approval.op = o
    /\ approval.status = "granted"
    /\ ~IsExpired(approval, now)

\* A mutant: the wrong status is looked for.
LiveGranted(approval, o, now) ==
    approval.op = o /\ approval.status = "granted" /\ ~IsExpired(approval, now)

\* The record a request for operation o returns instead of a new one.
LivePending(approval, o, now) ==
    /\ approval.op = o
    /\ approval.status = "pending"
    /\ ~IsExpired(approval, now)

\* A mutant: the time to live is taken off, not added.
NewRequestBackwards(o, now, ttl) ==
    [op |-> o, status |-> "pending", expires_at |-> now - ttl]

NewRequest(o, now, ttl) ==
    [op |-> o, status |-> "pending", expires_at |-> now + ttl]

WithStatus(requests, i, s) == [requests EXCEPT ![i].status = s]
=============================================================================
