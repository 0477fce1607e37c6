------------------------------ MODULE Approval ------------------------------
(***************************************************************************)
(* ApprovalService as an object shared by OS threads.                      *)
(*                                                                         *)
(* A worker runs attempts of operations the PDP answered with              *)
(* REQUIRE_APPROVAL: check_and_consume, then, when that is not True,       *)
(* request, as on_call_tool does.  One worker is the asyncio event loop,   *)
(* on which no other attempt runs between the two; several are the thread  *)
(* pool the comment on the lock speaks of.  An approver is a thread of its *)
(* own that calls grant and deny, which take no lock.                      *)
(*                                                                         *)
(* A step is what the interpreter may run without switching threads: one   *)
(* turn of a loop over the dict, one assignment to a record.  A turn of    *)
(* such a loop raises RuntimeError when the dict has grown since the loop  *)
(* began.                                                                  *)
(***************************************************************************)
EXTENDS ApprovalStore

CONSTANTS
    Workers,        \* threads that run the Gateway's attempts
    Approvers,      \* threads that grant and deny
    Ops,            \* operations, one per operation hash
    NoWorker,       \* the lock is free
    Ttl,            \* ttl_seconds
    MaxTime,        \* bound on the clock
    MaxAttempts,    \* bound on the attempts
    MaxDecisions    \* bound on the calls of grant and deny

ASSUME WorkersAssumption == NoWorker \notin Workers
ASSUME OpsAssumption == Ops # {}
ASSUME NumbersAssumption ==
    /\ Ttl \in Nat \ {0}
    /\ MaxTime \in Nat
    /\ MaxAttempts \in Nat
    /\ MaxDecisions \in Nat

VARIABLES
    requests,   \* self._requests
    now,        \* datetime.now(UTC)
    lock,       \* the worker inside "with self._lock", or NoWorker
    pc,         \* what each worker does next
    op,         \* the operation each worker attempts
    idx,        \* the record each worker's loop looks at next
    size,       \* the size of the dict when that loop began
    announcing, \* the approval an approver is emitting approval_granted for, 0 for none
    attempts,   \* attempts so far (bounded)
    decisions,  \* grants and denials so far (bounded)
    ledger      \* history, one entry per request: the worker that made it, the
                \* grants it got before it expired, all its grants, its
                \* releases and its approval_granted events

store == <<requests, ledger>>
loop == <<idx, size>>
approving == <<announcing, decisions>>
vars == <<requests, now, lock, pc, op, idx, size, announcing, attempts, decisions, ledger>>

Ids == 1..Len(requests)

Init ==
    /\ requests = <<>>
    /\ now = 0
    /\ lock = NoWorker
    /\ pc = [w \in Workers |-> "idle"]
    /\ op = [w \in Workers |-> CHOOSE o \in Ops : TRUE]
    /\ idx = [w \in Workers |-> 1]
    /\ size = [w \in Workers |-> 0]
    /\ announcing = [p \in Approvers |-> 0]
    /\ attempts = 0
    /\ decisions = 0
    /\ ledger = <<>>

-----------------------------------------------------------------------------
(* The lock, and a for loop over the dict's values.                        *)

\* A mutant: the check runs without the lock.
LockIgnored(w) == TRUE

CanLock(w) == lock = NoWorker

\* A mutant: the lock is not given back.
LockKept(w) == UNCHANGED lock

Unlock(w) == lock' = NoWorker

Goto(w, label) == pc' = [pc EXCEPT ![w] = label]

StartLoop(w) ==
    /\ idx' = [idx EXCEPT ![w] = 1]
    /\ size' = [size EXCEPT ![w] = Len(requests)]

DictGrew(w) == Len(requests) # size[w]

AtRecord(w) == ~DictGrew(w) /\ idx[w] \in Ids

AtEnd(w) == ~DictGrew(w) /\ idx[w] \notin Ids

NextTurn(w) ==
    /\ idx' = [idx EXCEPT ![w] = idx[w] + 1]
    /\ UNCHANGED <<pc, size>>

-----------------------------------------------------------------------------
(* check_and_consume: everything from Acquire to an Unlock holds the lock. *)

Begin(w, o) ==
    /\ pc[w] = "idle"
    /\ attempts < MaxAttempts
    /\ attempts' = attempts + 1
    /\ op' = [op EXCEPT ![w] = o]
    /\ Goto(w, "acquire")
    /\ UNCHANGED <<store, now, lock, loop, approving>>

Acquire(w) ==
    /\ pc[w] = "acquire"
    /\ CanLock(w)
    /\ lock' = w
    /\ StartLoop(w)
    /\ Goto(w, "scan")
    /\ UNCHANGED <<store, now, op, approving, attempts>>

ScanSkip(w) ==
    /\ pc[w] = "scan"
    /\ AtRecord(w)
    /\ ~Releasable(requests[idx[w]], op[w], now)
    /\ NextTurn(w)
    /\ UNCHANGED <<store, now, lock, op, approving, attempts>>

ScanMatch(w) ==
    /\ pc[w] = "scan"
    /\ AtRecord(w)
    /\ Releasable(requests[idx[w]], op[w], now)
    /\ Goto(w, "spend")
    /\ UNCHANGED <<store, now, lock, op, loop, approving, attempts>>

\* The attempt is released; the record is overwritten whatever it says by now.
Spend(w) ==
    /\ pc[w] = "spend"
    /\ requests' = WithStatus(requests, idx[w], "consumed")
    /\ ledger' = [ledger EXCEPT ![idx[w]].releases = @ + 1]
    /\ Unlock(w)
    /\ Goto(w, "idle")
    /\ UNCHANGED <<now, op, loop, approving, attempts>>

\* No record matches, or the loop raises and the Gateway takes that for "not
\* approved"; the with statement gives the lock back in both cases.
ScanFails(w) ==
    /\ pc[w] = "scan"
    /\ AtEnd(w) \/ DictGrew(w)
    /\ Unlock(w)
    /\ Goto(w, "ask")
    /\ UNCHANGED <<store, now, op, loop, approving, attempts>>

-----------------------------------------------------------------------------
(* request: the same kind of loop, without the lock                        *)

Ask(w) ==
    /\ pc[w] = "ask"
    /\ StartLoop(w)
    /\ Goto(w, "find")
    /\ UNCHANGED <<store, now, lock, op, approving, attempts>>

FindSkip(w) ==
    /\ pc[w] = "find"
    /\ AtRecord(w)
    /\ ~LivePending(requests[idx[w]], op[w], now)
    /\ NextTurn(w)
    /\ UNCHANGED <<store, now, lock, op, approving, attempts>>

\* An existing request is returned, or the loop raises out of on_call_tool.
FindEnds(w) ==
    /\ pc[w] = "find"
    /\ \/ AtRecord(w) /\ LivePending(requests[idx[w]], op[w], now)
       \/ DictGrew(w)
    /\ Goto(w, "idle")
    /\ UNCHANGED <<store, now, lock, op, loop, approving, attempts>>

FindMiss(w) ==
    /\ pc[w] = "find"
    /\ AtEnd(w)
    /\ Goto(w, "insert")
    /\ UNCHANGED <<store, now, lock, op, loop, approving, attempts>>

Insert(w) ==
    /\ pc[w] = "insert"
    /\ requests' = Append(requests, NewRequest(op[w], now, Ttl))
    /\ ledger' = Append(ledger, [by |-> w, timely |-> 0, grants |-> 0,
                                 releases |-> 0, announced |-> 0])
    /\ Goto(w, "idle")
    /\ UNCHANGED <<now, lock, op, loop, approving, attempts>>

-----------------------------------------------------------------------------
(* grant and deny: no lock, and no look at the status they overwrite       *)

Decide(p, i, s) ==
    /\ announcing[p] = 0
    /\ decisions < MaxDecisions
    /\ decisions' = decisions + 1
    /\ requests' = WithStatus(requests, i, s)
    /\ UNCHANGED <<now, lock, pc, op, loop, attempts>>

CountGrant(i) ==
    ledger' = [ledger EXCEPT
                 ![i].grants = @ + 1,
                 ![i].timely = IF IsExpired(requests[i], now) THEN @ ELSE @ + 1]

\* The first half of grant: the status is set, the event is yet to be emitted.
Grant(p, i) ==
    /\ Decide(p, i, "granted")
    /\ CountGrant(i)
    /\ announcing' = [announcing EXCEPT ![p] = i]

Deny(p, i) ==
    /\ Decide(p, i, "denied")
    /\ UNCHANGED <<announcing, ledger>>

\* A mutant: an emission may be repeated.
EmissionRetried(p) == announcing' \in {announcing, [announcing EXCEPT ![p] = 0]}

EmissionEnds(p) == announcing' = [announcing EXCEPT ![p] = 0]

\* The second half of grant: the sink takes the approval_granted event, or
\* raises, and grant with it, while the approval stays granted.
Announce(p) ==
    /\ announcing[p] # 0
    /\ EmissionEnds(p)
    /\ \/ ledger' = [ledger EXCEPT ![announcing[p]].announced = @ + 1]
       \/ UNCHANGED ledger
    /\ UNCHANGED <<requests, now, lock, pc, op, loop, attempts, decisions>>

-----------------------------------------------------------------------------
Tick ==
    /\ now < MaxTime
    /\ now' = now + 1
    /\ UNCHANGED <<store, lock, pc, op, loop, approving, attempts>>

Work(w) ==
    \/ Acquire(w) \/ ScanSkip(w) \/ ScanMatch(w) \/ Spend(w) \/ ScanFails(w)
    \/ Ask(w) \/ FindSkip(w) \/ FindEnds(w) \/ FindMiss(w) \/ Insert(w)

Approve(p) ==
    \/ \E i \in Ids : Grant(p, i) \/ Deny(p, i)
    \/ Announce(p)

Next ==
    \/ \E w \in Workers : (\E o \in Ops : Begin(w, o)) \/ Work(w)
    \/ \E p \in Approvers : Approve(p)
    \/ Tick

Spec == Init /\ [][Next]_vars

\* A thread that can run does run; nobody has to call, grant, deny or wait.
Fairness == \A w \in Workers : WF_vars(Work(w))

FairSpec == Spec /\ Fairness

-----------------------------------------------------------------------------
(* Properties *)

Request == [op : Ops, status : Statuses, expires_at : Nat]

Entry == [by : Workers, timely : Nat, grants : Nat, releases : Nat, announced : Nat]

TypeOK ==
    /\ requests \in Seq(Request)
    /\ ledger \in Seq(Entry)
    /\ Len(ledger) = Len(requests)
    /\ now \in Nat
    /\ lock \in Workers \cup {NoWorker}
    /\ pc \in [Workers -> {"idle", "acquire", "scan", "spend", "ask", "find", "insert"}]
    /\ op \in [Workers -> Ops]
    /\ idx \in [Workers -> Nat \ {0}]
    /\ size \in [Workers -> Nat]
    /\ announcing \in [Approvers -> 0..Len(requests)]
    /\ attempts \in Nat
    /\ decisions \in Nat

\* "A double-spend of a single-use grant" (the comment on the lock) cannot
\* happen: an approval releases no more attempts than it got grants while it
\* was alive, whatever the workers and approvers interleave.  A grant of an
\* expired approval releases nothing, ever.
ReleasesBackedByGrants == \A i \in Ids : ledger[i].releases <= ledger[i].timely

\* request() makes no second request for an operation with a live pending one:
\* true of each worker's own requests, so true outright on one event loop.  Two
\* workers may each make one, for the look and the insertion are two steps.
OneLivePendingPerWorker ==
    \A i, j \in Ids :
        /\ i # j
        /\ requests[i].op = requests[j].op
        /\ requests[i].status = "pending" /\ ~IsExpired(requests[i], now)
        /\ requests[j].status = "pending" /\ ~IsExpired(requests[j], now)
        => ledger[i].by # ledger[j].by

\* The audit log never holds more approval_granted events for an approval than
\* there were grants of it, though every emission comes after its grant, other
\* steps come between them and the sink may lose it.
AnnouncedGrantsHappened == \A i \in Ids : ledger[i].announced <= ledger[i].grants

\* What approval-workflow.en-us.md says: a granted approval "is immediately
\* marked consumed and never satisfies a second attempt".
SingleUse == \A i \in Ids : ledger[i].releases <= 1

\* Every attempt comes back to its caller: nobody keeps the lock, no loop over
\* a dict that grows runs on.
AttemptsEnd == \A w \in Workers : pc[w] # "idle" ~> pc[w] = "idle"

-----------------------------------------------------------------------------
(* The service keeps the promise of ApprovalPromise.  An attempt takes the *)
(* offer when its loop matches the record: from there to the assignment    *)
(* the record is its own, whatever an approver writes into it.             *)

Spending(i) == \E w \in Workers : pc[w] = "spend" /\ idx[w] = i

OnOffer ==
    {i \in Ids : requests[i].status = "granted" /\ ~IsExpired(requests[i], now) /\ ~Spending(i)}

Uses == [i \in Ids |-> ledger[i].releases + (IF Spending(i) THEN 1 ELSE 0)]

Promise == INSTANCE ApprovalPromise WITH offered <- OnOffer, uses <- Uses

\* Grants, denials, expiry and concurrent attempts come down to offers made,
\* withdrawn and taken one at a time.
KeepsPromise == Promise!Spec
=============================================================================
