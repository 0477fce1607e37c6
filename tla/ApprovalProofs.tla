--------------------------- MODULE ApprovalProofs ---------------------------
(***************************************************************************)
(* Theorems about Approval, for any number of workers, approvers and       *)
(* operations, any time to live and any bounds.                            *)
(***************************************************************************)
EXTENDS Approval, SequenceTheorems, FiniteSetTheorems, TLAPS

(***************************************************************************)
(* What the updates of the two sequences do.                               *)
(***************************************************************************)

\* One element of a sequence is replaced.
LEMMA Replace ==
  ASSUME NEW S, NEW f \in Seq(S), NEW i \in 1..Len(f), NEW e \in S
  PROVE  /\ [f EXCEPT ![i] = e] \in Seq(S)
         /\ Len([f EXCEPT ![i] = e]) = Len(f)
         /\ \A j \in 1..Len(f) : [f EXCEPT ![i] = e][j] = IF j = i THEN e ELSE f[j]
OBVIOUS

\* One element is added at the end of a sequence.
LEMMA Added ==
  ASSUME NEW S, NEW f \in Seq(S), NEW e \in S
  PROVE  /\ Append(f, e) \in Seq(S)
         /\ Len(Append(f, e)) = Len(f) + 1
         /\ \A j \in 1..Len(f) : Append(f, e)[j] = f[j]
         /\ Append(f, e)[Len(f) + 1] = e
OBVIOUS

\* Setting a status changes one field of one record.
LEMMA StatusSet ==
  ASSUME requests \in Seq(Request), NEW i \in Ids, NEW s \in Statuses
  PROVE  /\ WithStatus(requests, i, s) \in Seq(Request)
         /\ Len(WithStatus(requests, i, s)) = Len(requests)
         /\ \A j \in Ids : WithStatus(requests, i, s)[j] =
              IF j = i THEN [requests[i] EXCEPT !.status = s] ELSE requests[j]
<1>1. requests[i] \in Request
  BY DEF Ids
<1>2. [requests[i] EXCEPT !.status = s] \in Request
  BY <1>1 DEF Request
<1>3. QED
  BY <1>2, Replace DEF WithStatus, Ids

\* The counters of an entry are numbers.
LEMMA EntryCounters ==
  ASSUME NEW e \in Entry
  PROVE  e.timely \in Nat /\ e.grants \in Nat /\ e.releases \in Nat
BY DEF Entry

\* The ways an entry of the ledger is updated.
LEMMA EntryUpdates ==
  ASSUME NEW e \in Entry, NEW g \in Nat, NEW t \in Nat
  PROVE  /\ [e EXCEPT !.releases = @ + 1] \in Entry
         /\ [e EXCEPT !.announced = @ + 1] \in Entry
         /\ [e EXCEPT !.grants = g, !.timely = t] \in Entry
<1>1. [e EXCEPT !.releases = @ + 1] \in Entry
  BY DEF Entry
<1>2. [e EXCEPT !.announced = @ + 1] \in Entry
  BY DEF Entry
<1>3. [e EXCEPT !.grants = g, !.timely = t] \in Entry
  BY DEF Entry
<1>4. QED
  BY <1>1, <1>2, <1>3

\* A release is counted in one entry of the ledger.
LEMMA ReleaseCounted ==
  ASSUME ledger \in Seq(Entry), NEW i \in 1..Len(ledger),
         ledger' = [ledger EXCEPT ![i].releases = @ + 1]
  PROVE  /\ ledger' \in Seq(Entry)
         /\ Len(ledger') = Len(ledger)
         /\ \A j \in 1..Len(ledger) : ledger'[j] =
              IF j = i THEN [ledger[i] EXCEPT !.releases = @ + 1] ELSE ledger[j]
<1>1. ledger[i] \in Entry
  OBVIOUS
<1>2. [ledger[i] EXCEPT !.releases = @ + 1] \in Entry
  BY <1>1, EntryUpdates
<1>3. QED
  BY <1>2, Replace

\* A grant is counted in one entry, as a timely one when the approval is alive.
LEMMA GrantCounted ==
  ASSUME ledger \in Seq(Entry), NEW i \in 1..Len(ledger), CountGrant(i)
  PROVE  /\ ledger' \in Seq(Entry)
         /\ Len(ledger') = Len(ledger)
         /\ \A j \in 1..Len(ledger) :
              /\ ledger'[j].by = ledger[j].by
              /\ ledger'[j].releases = ledger[j].releases
              /\ ledger'[j].timely = IF j = i /\ ~IsExpired(requests[i], now)
                                     THEN ledger[j].timely + 1 ELSE ledger[j].timely
<1> DEFINE g == ledger[i].grants + 1
           t == IF IsExpired(requests[i], now) THEN ledger[i].timely ELSE ledger[i].timely + 1
           e == [ledger[i] EXCEPT !.grants = g, !.timely = t]
<1>1. ledger[i] \in Entry
  OBVIOUS
<1>2. e \in Entry
  <2>1. g \in Nat /\ t \in Nat
    BY <1>1, EntryCounters
  <2>2. QED
    BY <1>1, <2>1, EntryUpdates
<1>3. ledger' = [ledger EXCEPT ![i] = e]
  BY DEF CountGrant
<1>4. /\ ledger' \in Seq(Entry)
      /\ Len(ledger') = Len(ledger)
      /\ \A j \in 1..Len(ledger) : ledger'[j] = IF j = i THEN e ELSE ledger[j]
  BY <1>2, <1>3, Replace
<1>5. e.by = ledger[i].by /\ e.releases = ledger[i].releases /\ e.timely = t
  BY <1>1 DEF Entry
<1> HIDE DEF e
<1>6. QED
  BY <1>4, <1>5

\* An event is counted in one entry.
LEMMA EventCounted ==
  ASSUME ledger \in Seq(Entry), NEW i \in 1..Len(ledger),
         ledger' = [ledger EXCEPT ![i].announced = @ + 1]
  PROVE  /\ ledger' \in Seq(Entry)
         /\ Len(ledger') = Len(ledger)
         /\ \A j \in 1..Len(ledger) :
              /\ ledger'[j].by = ledger[j].by
              /\ ledger'[j].releases = ledger[j].releases
              /\ ledger'[j].timely = ledger[j].timely
<1> DEFINE e == [ledger[i] EXCEPT !.announced = @ + 1]
<1>1. ledger[i] \in Entry
  OBVIOUS
<1>2. e \in Entry
  BY <1>1, EntryUpdates
<1>3. /\ ledger' \in Seq(Entry)
      /\ Len(ledger') = Len(ledger)
      /\ \A j \in 1..Len(ledger) : ledger'[j] = IF j = i THEN e ELSE ledger[j]
  BY <1>2, Replace
<1>4. e.by = ledger[i].by /\ e.releases = ledger[i].releases /\ e.timely = ledger[i].timely
  BY <1>1 DEF Entry
<1> HIDE DEF e
<1>5. QED
  BY <1>3, <1>4

\* A request is added with an entry for it.
LEMMA RequestAdded ==
  ASSUME TypeOK, NEW w \in Workers, Insert(w)
  PROVE  /\ requests' \in Seq(Request)
         /\ ledger' \in Seq(Entry)
         /\ Len(requests') = Len(requests) + 1
         /\ Len(ledger') = Len(requests')
         /\ \A j \in Ids : requests'[j] = requests[j] /\ ledger'[j] = ledger[j]
         /\ requests'[Len(requests) + 1] = NewRequest(op[w], now, Ttl)
         /\ ledger'[Len(requests) + 1] =
              [by |-> w, timely |-> 0, grants |-> 0, releases |-> 0, announced |-> 0]
<1>1. NewRequest(op[w], now, Ttl) \in Request
  BY NumbersAssumption DEF TypeOK, NewRequest, Request, Statuses
<1>2. [by |-> w, timely |-> 0, grants |-> 0, releases |-> 0, announced |-> 0] \in Entry
  BY DEF Entry
<1>3. QED
  BY <1>1, <1>2, Added DEF TypeOK, Insert, Ids

-----------------------------------------------------------------------------
(***************************************************************************)
(* The inductive invariant.  An attempt in its loop under the lock is the  *)
(* one that holds the lock (LockInv), so at most one is about to spend a   *)
(* record, and that record exists (SpendInv).  The offer it took, or the   *)
(* one still open on a granted, live record, is backed by a grant no       *)
(* release has used (GrantInv).  A worker on its way to make a request has *)
(* none of its own pending among the records it went over (OwnInv).        *)
(***************************************************************************)

LockInv == \A w \in Workers : pc[w] \in {"scan", "spend"} <=> lock = w

SpendInv == \A w \in Workers : pc[w] = "spend" => idx[w] \in Ids

Offered(i) == requests[i].status = "granted" /\ ~IsExpired(requests[i], now)

GrantInv ==
    \A i \in Ids :
        /\ ledger[i].releases <= ledger[i].timely
        /\ Offered(i) \/ Spending(i) => ledger[i].releases < ledger[i].timely

OwnPending(w, i) ==
    /\ ledger[i].by = w
    /\ requests[i].op = op[w]
    /\ requests[i].status = "pending"
    /\ ~IsExpired(requests[i], now)

OwnInv ==
    \A w \in Workers, i \in Ids :
        \/ pc[w] = "find" /\ i < idx[w]
        \/ pc[w] = "insert"
        => ~OwnPending(w, i)

IInv == TypeOK /\ LockInv /\ SpendInv /\ GrantInv /\ OwnInv /\ OneLivePendingPerWorker

-----------------------------------------------------------------------------
\* The types are kept by every step.
LEMMA TypeStep == ASSUME TypeOK, SpendInv, [Next]_vars PROVE TypeOK'
<1> USE NumbersAssumption DEF TypeOK
<1>1. ASSUME NEW w \in Workers, NEW o \in Ops, Begin(w, o) PROVE TypeOK'
  BY <1>1 DEF Begin, Goto, store, loop, approving
<1>2. ASSUME NEW w \in Workers, Acquire(w) PROVE TypeOK'
  BY <1>2 DEF Acquire, StartLoop, Goto, store, approving
<1>3. ASSUME NEW w \in Workers, ScanSkip(w) PROVE TypeOK'
  BY <1>3 DEF ScanSkip, NextTurn, store, approving
<1>4. ASSUME NEW w \in Workers, ScanMatch(w) PROVE TypeOK'
  BY <1>4 DEF ScanMatch, Goto, store, loop, approving
<1>5. ASSUME NEW w \in Workers, Spend(w) PROVE TypeOK'
  <2>1. idx[w] \in Ids
    BY <1>5 DEF SpendInv, Spend
  <2>2. /\ requests' \in Seq(Request)
        /\ Len(requests') = Len(requests)
    BY <1>5, <2>1, StatusSet DEF Spend, Statuses
  <2>3. /\ ledger' \in Seq(Entry)
        /\ Len(ledger') = Len(ledger)
    BY <1>5, <2>1, ReleaseCounted DEF Spend, Ids
  <2>4. QED
    BY <1>5, <2>2, <2>3 DEF Spend, Unlock, Goto, loop, approving
<1>6. ASSUME NEW w \in Workers, ScanFails(w) PROVE TypeOK'
  BY <1>6 DEF ScanFails, Unlock, Goto, store, loop, approving
<1>7. ASSUME NEW w \in Workers, Ask(w) PROVE TypeOK'
  BY <1>7 DEF Ask, StartLoop, Goto, store, approving
<1>8. ASSUME NEW w \in Workers, FindSkip(w) PROVE TypeOK'
  BY <1>8 DEF FindSkip, NextTurn, store, approving
<1>9. ASSUME NEW w \in Workers, FindEnds(w) PROVE TypeOK'
  BY <1>9 DEF FindEnds, Goto, store, loop, approving
<1>10. ASSUME NEW w \in Workers, FindMiss(w) PROVE TypeOK'
  BY <1>10 DEF FindMiss, Goto, store, loop, approving
<1>11. ASSUME NEW w \in Workers, Insert(w) PROVE TypeOK'
  <2>1. /\ requests' \in Seq(Request)
        /\ ledger' \in Seq(Entry)
        /\ Len(requests') = Len(requests) + 1
        /\ Len(ledger') = Len(requests')
    BY <1>11, RequestAdded
  <2>2. 0..Len(requests) \subseteq 0..Len(requests')
    BY <2>1
  <2>3. QED
    BY <1>11, <2>1, <2>2 DEF Insert, Goto, loop, approving
<1>12. ASSUME NEW p \in Approvers, NEW i \in Ids, Grant(p, i) PROVE TypeOK'
  <2>1. /\ requests' \in Seq(Request)
        /\ Len(requests') = Len(requests)
    BY <1>12, StatusSet DEF Grant, Decide, Statuses
  <2>2. /\ ledger' \in Seq(Entry)
        /\ Len(ledger') = Len(ledger)
    BY <1>12, GrantCounted DEF Grant, Ids
  <2>3. QED
    BY <1>12, <2>1, <2>2 DEF Grant, Decide, Ids, loop
<1>13. ASSUME NEW p \in Approvers, NEW i \in Ids, Deny(p, i) PROVE TypeOK'
  <2>1. /\ requests' \in Seq(Request)
        /\ Len(requests') = Len(requests)
    BY <1>13, StatusSet DEF Deny, Decide, Statuses
  <2>2. QED
    BY <1>13, <2>1 DEF Deny, Decide, loop
<1>14. ASSUME NEW p \in Approvers, Announce(p) PROVE TypeOK'
  <2>1. announcing[p] \in 1..Len(ledger)
    BY <1>14 DEF Announce
  <2>2. /\ ledger' \in Seq(Entry)
        /\ Len(ledger') = Len(ledger)
    BY <1>14, <2>1, EventCounted DEF Announce
  <2>3. QED
    BY <1>14, <2>2 DEF Announce, EmissionEnds, loop
<1>15. CASE Tick
  BY <1>15 DEF Tick, store, loop, approving
<1>16. CASE UNCHANGED vars
  BY <1>16 DEF vars
<1>17. QED
  BY <1>1, <1>2, <1>3, <1>4, <1>5, <1>6, <1>7, <1>8, <1>9, <1>10, <1>11, <1>12, <1>13,
     <1>14, <1>15, <1>16 DEF Next, Work, Approve
\* The worker under the lock is the one that holds it.
LEMMA LockStep == ASSUME TypeOK, LockInv, [Next]_vars PROVE LockInv'
<1> USE DEF TypeOK, LockInv
<1>1. ASSUME NEW w \in Workers, NEW o \in Ops, Begin(w, o) PROVE LockInv'
  BY <1>1 DEF Begin, Goto, store, loop
<1>2. ASSUME NEW w \in Workers, Acquire(w) PROVE LockInv'
  BY <1>2, WorkersAssumption DEF Acquire, CanLock, StartLoop, Goto, store
<1>3. ASSUME NEW w \in Workers, ScanSkip(w) PROVE LockInv'
  BY <1>3 DEF ScanSkip, NextTurn, store
<1>4. ASSUME NEW w \in Workers, ScanMatch(w) PROVE LockInv'
  BY <1>4 DEF ScanMatch, AtRecord, Goto, store, loop
<1>5. ASSUME NEW w \in Workers, Spend(w) PROVE LockInv'
  BY <1>5, WorkersAssumption DEF Spend, Unlock, Goto, loop
<1>6. ASSUME NEW w \in Workers, ScanFails(w) PROVE LockInv'
  BY <1>6, WorkersAssumption DEF ScanFails, Unlock, Goto, store, loop
<1>7. ASSUME NEW w \in Workers, Ask(w) PROVE LockInv'
  BY <1>7 DEF Ask, StartLoop, Goto, store
<1>8. ASSUME NEW w \in Workers, FindSkip(w) PROVE LockInv'
  BY <1>8 DEF FindSkip, NextTurn, store
<1>9. ASSUME NEW w \in Workers, FindEnds(w) PROVE LockInv'
  BY <1>9 DEF FindEnds, Goto, store, loop
<1>10. ASSUME NEW w \in Workers, FindMiss(w) PROVE LockInv'
  BY <1>10 DEF FindMiss, AtEnd, DictGrew, Goto, store, loop
<1>11. ASSUME NEW w \in Workers, Insert(w) PROVE LockInv'
  BY <1>11 DEF Insert, Goto, loop
<1>12. ASSUME NEW p \in Approvers, NEW i \in Ids, Grant(p, i) PROVE LockInv'
  BY <1>12 DEF Grant, Decide, loop
<1>13. ASSUME NEW p \in Approvers, NEW i \in Ids, Deny(p, i) PROVE LockInv'
  BY <1>13 DEF Deny, Decide, loop
<1>14. ASSUME NEW p \in Approvers, Announce(p) PROVE LockInv'
  BY <1>14 DEF Announce, loop
<1>15. CASE Tick
  BY <1>15 DEF Tick, store, loop
<1>16. CASE UNCHANGED vars
  BY <1>16 DEF vars
<1>17. QED
  BY <1>1, <1>2, <1>3, <1>4, <1>5, <1>6, <1>7, <1>8, <1>9, <1>10, <1>11, <1>12, <1>13,
     <1>14, <1>15, <1>16 DEF Next, Work, Approve

\* The record about to be spent exists.
LEMMA SpendStep == ASSUME TypeOK, SpendInv, [Next]_vars PROVE SpendInv'
<1> USE DEF TypeOK, SpendInv, Ids
<1>1. ASSUME NEW w \in Workers, NEW o \in Ops, Begin(w, o) PROVE SpendInv'
  BY <1>1 DEF Begin, Goto, store, loop
<1>2. ASSUME NEW w \in Workers, Acquire(w) PROVE SpendInv'
  BY <1>2 DEF Acquire, CanLock, StartLoop, Goto, store
<1>3. ASSUME NEW w \in Workers, ScanSkip(w) PROVE SpendInv'
  BY <1>3 DEF ScanSkip, NextTurn, store
<1>4. ASSUME NEW w \in Workers, ScanMatch(w) PROVE SpendInv'
  BY <1>4 DEF ScanMatch, AtRecord, Goto, store, loop
<1>5. ASSUME NEW w \in Workers, Spend(w) PROVE SpendInv'
  <2>1. idx[w] \in Ids
    BY <1>5 DEF Spend
  <2>2. Len(requests') = Len(requests)
    BY <1>5, <2>1, StatusSet DEF Spend, Statuses
  <2>3. QED
    BY <1>5, <2>2 DEF Spend, Goto, loop
<1>6. ASSUME NEW w \in Workers, ScanFails(w) PROVE SpendInv'
  BY <1>6 DEF ScanFails, Unlock, Goto, store, loop
<1>7. ASSUME NEW w \in Workers, Ask(w) PROVE SpendInv'
  BY <1>7 DEF Ask, StartLoop, Goto, store
<1>8. ASSUME NEW w \in Workers, FindSkip(w) PROVE SpendInv'
  BY <1>8 DEF FindSkip, NextTurn, store
<1>9. ASSUME NEW w \in Workers, FindEnds(w) PROVE SpendInv'
  BY <1>9 DEF FindEnds, Goto, store, loop
<1>10. ASSUME NEW w \in Workers, FindMiss(w) PROVE SpendInv'
  BY <1>10 DEF FindMiss, AtEnd, DictGrew, Goto, store, loop
<1>11. ASSUME NEW w \in Workers, Insert(w) PROVE SpendInv'
  <2>1. Len(requests') = Len(requests) + 1
    BY <1>11, RequestAdded
  <2>2. QED
    BY <1>11, <2>1 DEF Insert, Goto, loop
<1>12. ASSUME NEW p \in Approvers, NEW i \in Ids, Grant(p, i) PROVE SpendInv'
  <2>1. Len(requests') = Len(requests)
    BY <1>12, StatusSet DEF Grant, Decide, Statuses
  <2>2. QED
    BY <1>12, <2>1 DEF Grant, Decide, loop
<1>13. ASSUME NEW p \in Approvers, NEW i \in Ids, Deny(p, i) PROVE SpendInv'
  <2>1. Len(requests') = Len(requests)
    BY <1>13, StatusSet DEF Deny, Decide, Statuses
  <2>2. QED
    BY <1>13, <2>1 DEF Deny, Decide, loop
<1>14. ASSUME NEW p \in Approvers, Announce(p) PROVE SpendInv'
  BY <1>14 DEF Announce, loop
<1>15. CASE Tick
  BY <1>15 DEF Tick, store, loop
<1>16. CASE UNCHANGED vars
  BY <1>16 DEF vars
<1>17. QED
  BY <1>1, <1>2, <1>3, <1>4, <1>5, <1>6, <1>7, <1>8, <1>9, <1>10, <1>11, <1>12, <1>13,
     <1>14, <1>15, <1>16 DEF Next, Work, Approve

\* The times and counters the invariant compares are numbers.
LEMMA Numbers ==
  ASSUME TypeOK
  PROVE  /\ now \in Nat /\ Len(requests) \in Nat
         /\ \A j \in Ids : /\ requests[j].expires_at \in Nat
                          /\ ledger[j].releases \in Nat
                          /\ ledger[j].timely \in Nat
<1>1. \A j \in Ids : requests[j] \in Request /\ ledger[j] \in Entry
  BY DEF TypeOK, Ids
<1>2. \A r \in Request : r.expires_at \in Nat
  BY DEF Request
<1>3. QED
  BY <1>1, <1>2, EntryCounters DEF TypeOK

\* Field by field: setting a status leaves operations and expiry alone.
LEMMA StatusOnly ==
  ASSUME TypeOK, NEW i \in Ids, NEW s \in Statuses, requests' = WithStatus(requests, i, s)
  PROVE  /\ Ids' = Ids
         /\ \A j \in Ids : /\ requests'[j].op = requests[j].op
                          /\ requests'[j].expires_at = requests[j].expires_at
                          /\ requests'[j].status = IF j = i THEN s ELSE requests[j].status
<1>1. requests \in Seq(Request)
  BY DEF TypeOK
<1> DEFINE r == [requests[i] EXCEPT !.status = s]
<1>2. /\ Len(requests') = Len(requests)
      /\ \A j \in Ids : requests'[j] = IF j = i THEN r ELSE requests[j]
  BY <1>1, StatusSet
<1>3. requests[i] \in Request
  BY <1>1 DEF Ids
<1>4. r.op = requests[i].op /\ r.expires_at = requests[i].expires_at /\ r.status = s
  BY <1>3 DEF Request
<1> HIDE DEF r
<1>5. QED
  BY <1>2, <1>4 DEF Ids

\* Field by field: what a release does to the ledger.
LEMMA ReleaseOnly ==
  ASSUME TypeOK, NEW i \in Ids, ledger' = [ledger EXCEPT ![i].releases = @ + 1]
  PROVE  \A j \in Ids :
           /\ ledger'[j].by = ledger[j].by
           /\ ledger'[j].timely = ledger[j].timely
           /\ ledger'[j].releases = IF j = i THEN ledger[j].releases + 1 ELSE ledger[j].releases
<1>1. ledger \in Seq(Entry) /\ i \in 1..Len(ledger) /\ Ids = 1..Len(ledger)
  BY DEF TypeOK, Ids
<1> DEFINE e == [ledger[i] EXCEPT !.releases = @ + 1]
<1>2. \A j \in Ids : ledger'[j] = IF j = i THEN e ELSE ledger[j]
  BY <1>1, ReleaseCounted
<1>3. ledger[i] \in Entry
  BY <1>1
<1>4. e.by = ledger[i].by /\ e.timely = ledger[i].timely /\ e.releases = ledger[i].releases + 1
  BY <1>3 DEF Entry
<1> HIDE DEF e
<1>5. QED
  BY <1>2, <1>4

\* Field by field: the request that is added, and its entry.
LEMMA AddedOnly ==
  ASSUME TypeOK, NEW w \in Workers, Insert(w), NEW n, n = Len(requests) + 1
  PROVE  /\ \A j \in Ids : requests'[j] = requests[j] /\ ledger'[j] = ledger[j]
         /\ Ids' = Ids \cup {n} /\ n \notin Ids
         /\ requests'[n].status = "pending" /\ requests'[n].op = op[w]
         /\ ledger'[n].by = w /\ ledger'[n].releases = 0 /\ ledger'[n].timely = 0
<1>1. /\ \A j \in Ids : requests'[j] = requests[j] /\ ledger'[j] = ledger[j]
      /\ Len(requests') = Len(requests) + 1
      /\ requests'[n] = NewRequest(op[w], now, Ttl)
      /\ ledger'[n] =
           [by |-> w, timely |-> 0, grants |-> 0, releases |-> 0, announced |-> 0]
  BY RequestAdded
<1>2. Ids' = Ids \cup {n} /\ n \notin Ids
  BY <1>1, Numbers DEF Ids
<1>3. requests'[n].status = "pending" /\ requests'[n].op = op[w]
  BY <1>1 DEF NewRequest
<1>4. ledger'[n].by = w /\ ledger'[n].releases = 0 /\ ledger'[n].timely = 0
  BY <1>1
<1>5. QED
  BY <1>1, <1>2, <1>3, <1>4

\* Nothing the claims depend on is touched.
LEMMA ClaimsKept ==
  ASSUME GrantInv, requests' = requests, ledger' = ledger, now' = now,
         \A v \in Workers : pc'[v] = "spend" <=> pc[v] = "spend",
         \A v \in Workers : pc[v] = "spend" => idx'[v] = idx[v]
  PROVE  GrantInv'
<1>1. Ids' = Ids
  BY DEF Ids
<1>2. \A i \in Ids : (Offered(i)' <=> Offered(i)) /\ (Spending(i)' <=> Spending(i))
  BY DEF Offered, Spending, IsExpired
<1>3. QED
  BY <1>1, <1>2 DEF GrantInv

\* Every release and every open claim stays backed by a grant of its own.
LEMMA GrantStep == ASSUME TypeOK, LockInv, SpendInv, GrantInv, [Next]_vars PROVE GrantInv'
<1>1. ASSUME NEW w \in Workers, NEW o \in Ops, Begin(w, o) PROVE GrantInv'
  <2>1. /\ requests' = requests /\ ledger' = ledger /\ now' = now
        /\ \A v \in Workers : pc'[v] = "spend" <=> pc[v] = "spend"
        /\ \A v \in Workers : pc[v] = "spend" => idx'[v] = idx[v]
    BY <1>1 DEF Begin, Goto, store, loop, TypeOK
  <2>2. QED
    BY <2>1, ClaimsKept
<1>2. ASSUME NEW w \in Workers, Acquire(w) PROVE GrantInv'
  <2>1. /\ requests' = requests /\ ledger' = ledger /\ now' = now
        /\ \A v \in Workers : pc'[v] = "spend" <=> pc[v] = "spend"
        /\ \A v \in Workers : pc[v] = "spend" => idx'[v] = idx[v]
    BY <1>2 DEF Acquire, CanLock, StartLoop, Goto, store, TypeOK
  <2>2. QED
    BY <2>1, ClaimsKept
<1>3. ASSUME NEW w \in Workers, ScanSkip(w) PROVE GrantInv'
  <2>1. /\ requests' = requests /\ ledger' = ledger /\ now' = now
        /\ \A v \in Workers : pc'[v] = "spend" <=> pc[v] = "spend"
        /\ \A v \in Workers : pc[v] = "spend" => idx'[v] = idx[v]
    BY <1>3 DEF ScanSkip, NextTurn, store, TypeOK
  <2>2. QED
    BY <2>1, ClaimsKept
<1>4. ASSUME NEW w \in Workers, ScanMatch(w) PROVE GrantInv'
  <2>1. idx[w] \in Ids /\ Offered(idx[w])
    BY <1>4 DEF ScanMatch, AtRecord, Releasable, Offered
  <2>2. Ids' = Ids
    BY <1>4 DEF ScanMatch, store, Ids
  <2>3. \A j \in Ids : (Offered(j)' <=> Offered(j)) /\ (Spending(j)' => Spending(j) \/ j = idx[w])
    BY <1>4 DEF ScanMatch, Goto, Offered, Spending, IsExpired, TypeOK, store, loop
  <2>4. QED
    BY <1>4, <2>1, <2>2, <2>3 DEF ScanMatch, GrantInv, store
<1>5. ASSUME NEW w \in Workers, Spend(w) PROVE GrantInv'
  <2>1. idx[w] \in Ids
    BY <1>5 DEF SpendInv, Spend
  <2>2. Spending(idx[w])
    BY <1>5 DEF Spending, Spend
  <2>3. ledger[idx[w]].releases < ledger[idx[w]].timely
    BY <2>1, <2>2 DEF GrantInv
  <2>4. \A j \in Ids : ~Spending(j)'
    BY <1>5 DEF Spend, Goto, LockInv, Spending, TypeOK
  <2>5. /\ Ids' = Ids
        /\ \A j \in Ids : Offered(j)' => Offered(j) /\ j # idx[w]
    BY <1>5, <2>1, StatusOnly DEF Spend, Statuses, Offered, IsExpired
  <2>6. \A j \in Ids :
           /\ ledger'[j].timely = ledger[j].timely
           /\ ledger'[j].releases =
                IF j = idx[w] THEN ledger[j].releases + 1 ELSE ledger[j].releases
    BY <1>5, <2>1, ReleaseOnly DEF Spend
  <2>7. QED
    BY <2>3, <2>4, <2>5, <2>6, Numbers DEF GrantInv
<1>6. ASSUME NEW w \in Workers, ScanFails(w) PROVE GrantInv'
  <2>1. /\ requests' = requests /\ ledger' = ledger /\ now' = now
        /\ \A v \in Workers : pc'[v] = "spend" <=> pc[v] = "spend"
        /\ \A v \in Workers : pc[v] = "spend" => idx'[v] = idx[v]
    BY <1>6 DEF ScanFails, Unlock, Goto, store, loop, TypeOK
  <2>2. QED
    BY <2>1, ClaimsKept
<1>7. ASSUME NEW w \in Workers, Ask(w) PROVE GrantInv'
  <2>1. /\ requests' = requests /\ ledger' = ledger /\ now' = now
        /\ \A v \in Workers : pc'[v] = "spend" <=> pc[v] = "spend"
        /\ \A v \in Workers : pc[v] = "spend" => idx'[v] = idx[v]
    BY <1>7 DEF Ask, StartLoop, Goto, store, TypeOK
  <2>2. QED
    BY <2>1, ClaimsKept
<1>8. ASSUME NEW w \in Workers, FindSkip(w) PROVE GrantInv'
  <2>1. /\ requests' = requests /\ ledger' = ledger /\ now' = now
        /\ \A v \in Workers : pc'[v] = "spend" <=> pc[v] = "spend"
        /\ \A v \in Workers : pc[v] = "spend" => idx'[v] = idx[v]
    BY <1>8 DEF FindSkip, NextTurn, store, TypeOK
  <2>2. QED
    BY <2>1, ClaimsKept
<1>9. ASSUME NEW w \in Workers, FindEnds(w) PROVE GrantInv'
  <2>1. /\ requests' = requests /\ ledger' = ledger /\ now' = now
        /\ \A v \in Workers : pc'[v] = "spend" <=> pc[v] = "spend"
        /\ \A v \in Workers : pc[v] = "spend" => idx'[v] = idx[v]
    BY <1>9 DEF FindEnds, Goto, store, loop, TypeOK
  <2>2. QED
    BY <2>1, ClaimsKept
<1>10. ASSUME NEW w \in Workers, FindMiss(w) PROVE GrantInv'
  <2>1. /\ requests' = requests /\ ledger' = ledger /\ now' = now
        /\ \A v \in Workers : pc'[v] = "spend" <=> pc[v] = "spend"
        /\ \A v \in Workers : pc[v] = "spend" => idx'[v] = idx[v]
    BY <1>10 DEF FindMiss, AtEnd, DictGrew, Goto, store, loop, TypeOK
  <2>2. QED
    BY <2>1, ClaimsKept
<1>11. ASSUME NEW w \in Workers, Insert(w) PROVE GrantInv'
  <2>0. PICK n : n = Len(requests) + 1
    OBVIOUS
  <2>1. /\ \A j \in Ids : requests'[j] = requests[j] /\ ledger'[j] = ledger[j]
        /\ Ids' = Ids \cup {n} /\ n \notin Ids
        /\ requests'[n].status = "pending"
        /\ ledger'[n].releases = 0 /\ ledger'[n].timely = 0
    BY <1>11, <2>0, AddedOnly
  <2>3. ~Offered(n)'
    BY <2>1 DEF Offered
  <2>4. \A j \in Ids' : Spending(j)' => j \in Ids /\ Spending(j)
    BY <1>11 DEF Insert, Goto, loop, Spending, SpendInv, TypeOK
  <2>5. \A j \in Ids : Offered(j)' <=> Offered(j)
    BY <1>11, <2>1 DEF Insert, Offered, IsExpired
  <2>6. QED
    BY <2>1, <2>3, <2>4, <2>5 DEF GrantInv
<1>12. ASSUME NEW p \in Approvers, NEW i \in Ids, Grant(p, i) PROVE GrantInv'
  <2>1. /\ Ids' = Ids
        /\ \A j \in Ids : Offered(j)' =>
             IF j = i THEN ~IsExpired(requests[i], now) ELSE Offered(j)
    BY <1>12, StatusOnly DEF Grant, Decide, Statuses, Offered, IsExpired
  <2>2. \A j \in Ids : Spending(j)' <=> Spending(j)
    BY <1>12 DEF Grant, Decide, Spending, loop
  <2>3. \A j \in Ids :
          /\ ledger'[j].releases = ledger[j].releases
          /\ ledger'[j].timely = IF j = i /\ ~IsExpired(requests[i], now)
                                 THEN ledger[j].timely + 1 ELSE ledger[j].timely
    BY <1>12, GrantCounted DEF Grant, TypeOK, Ids
  <2>4. QED
    BY <2>1, <2>2, <2>3, Numbers DEF GrantInv
<1>13. ASSUME NEW p \in Approvers, NEW i \in Ids, Deny(p, i) PROVE GrantInv'
  <2>1. /\ Ids' = Ids
        /\ \A j \in Ids : Offered(j)' => Offered(j)
    BY <1>13, StatusOnly DEF Deny, Decide, Statuses, Offered, IsExpired
  <2>2. \A j \in Ids : Spending(j)' <=> Spending(j)
    BY <1>13 DEF Deny, Decide, Spending, loop
  <2>3. QED
    BY <1>13, <2>1, <2>2 DEF Deny, GrantInv
<1>14. ASSUME NEW p \in Approvers, Announce(p) PROVE GrantInv'
  <2>1. announcing[p] \in 1..Len(ledger) /\ Ids = 1..Len(ledger) /\ ledger \in Seq(Entry)
    BY <1>14 DEF Announce, TypeOK, Ids
  <2>2. \A j \in Ids : /\ ledger'[j].releases = ledger[j].releases
                      /\ ledger'[j].timely = ledger[j].timely
    BY <1>14, <2>1, EventCounted DEF Announce
  <2>3. /\ Ids' = Ids
        /\ \A j \in Ids : (Offered(j)' <=> Offered(j)) /\ (Spending(j)' <=> Spending(j))
    BY <1>14 DEF Announce, Ids, Offered, Spending, IsExpired, loop
  <2>4. QED
    BY <2>2, <2>3 DEF GrantInv
<1>15. CASE Tick
  <2>1. /\ Ids' = Ids
        /\ \A j \in Ids : (Offered(j)' => Offered(j)) /\ (Spending(j)' <=> Spending(j))
    BY <1>15, Numbers DEF Tick, Ids, Offered, Spending, IsExpired, store, loop
  <2>2. QED
    BY <1>15, <2>1 DEF Tick, GrantInv, store
<1>16. CASE UNCHANGED vars
  BY <1>16, ClaimsKept DEF vars
<1>17. QED
  BY <1>1, <1>2, <1>3, <1>4, <1>5, <1>6, <1>7, <1>8, <1>9, <1>10, <1>11, <1>12, <1>13,
     <1>14, <1>15, <1>16 DEF Next, Work, Approve

\* No worker about to make a request has a live pending one of its own.
LEMMA OwnStep == ASSUME TypeOK, SpendInv, OwnInv, [Next]_vars PROVE OwnInv'
<1>1. ASSUME NEW w \in Workers, NEW o \in Ops, Begin(w, o) PROVE OwnInv'
  BY <1>1 DEF Begin, Goto, store, loop, OwnInv, OwnPending, IsExpired, Ids, TypeOK
<1>2. ASSUME NEW w \in Workers, Acquire(w) PROVE OwnInv'
  BY <1>2 DEF Acquire, CanLock, StartLoop, Goto, store, OwnInv, OwnPending, IsExpired, Ids, TypeOK
<1>3. ASSUME NEW w \in Workers, ScanSkip(w) PROVE OwnInv'
  BY <1>3 DEF ScanSkip, NextTurn, store, OwnInv, OwnPending, IsExpired, Ids, TypeOK
<1>4. ASSUME NEW w \in Workers, ScanMatch(w) PROVE OwnInv'
  BY <1>4 DEF ScanMatch, AtRecord, Goto, store, loop, OwnInv, OwnPending, IsExpired, Ids, TypeOK
<1>5. ASSUME NEW w \in Workers, Spend(w) PROVE OwnInv'
  <2>1. idx[w] \in Ids
    BY <1>5 DEF SpendInv, Spend
  <2>2. /\ Ids' = Ids
        /\ \A v \in Workers, j \in Ids : OwnPending(v, j)' => OwnPending(v, j)
    BY <1>5, <2>1, StatusOnly, ReleaseOnly DEF Spend, Statuses, OwnPending, IsExpired
  <2>3. QED
    BY <1>5, <2>2 DEF Spend, Goto, OwnInv, TypeOK, loop
<1>6. ASSUME NEW w \in Workers, ScanFails(w) PROVE OwnInv'
  BY <1>6 DEF ScanFails, Unlock, Goto, store, loop, OwnInv, OwnPending, IsExpired, Ids, TypeOK
<1>7. ASSUME NEW w \in Workers, Ask(w) PROVE OwnInv'
  BY <1>7 DEF Ask, StartLoop, Goto, store, OwnInv, OwnPending, IsExpired, Ids, TypeOK
<1>8. ASSUME NEW w \in Workers, FindSkip(w) PROVE OwnInv'
  <2>1. \A v \in Workers, j \in Ids : OwnPending(v, j)' <=> OwnPending(v, j)
    BY <1>8 DEF FindSkip, OwnPending, IsExpired, store
  <2>2. idx[w] \in Ids => ~OwnPending(w, idx[w])
    BY <1>8 DEF FindSkip, LivePending, OwnPending
  <2>3. ASSUME NEW j \in Ids, j < idx[w] + 1 PROVE ~OwnPending(w, j)
    <3>1. j < idx[w] \/ j = idx[w]
      BY <2>3 DEF Ids, TypeOK
    <3>2. QED
      BY <1>8, <2>2, <3>1 DEF FindSkip, OwnInv
  <2>4. Ids' = Ids
    BY <1>8 DEF FindSkip, Ids, store
  <2>5. QED
    BY <1>8, <2>1, <2>3, <2>4 DEF FindSkip, NextTurn, OwnInv, TypeOK
<1>9. ASSUME NEW w \in Workers, FindEnds(w) PROVE OwnInv'
  BY <1>9 DEF FindEnds, Goto, store, loop, OwnInv, OwnPending, IsExpired, Ids, TypeOK
<1>10. ASSUME NEW w \in Workers, FindMiss(w) PROVE OwnInv'
  <2>1. \A v \in Workers, j \in Ids : OwnPending(v, j)' <=> OwnPending(v, j)
    BY <1>10 DEF FindMiss, OwnPending, IsExpired, store
  <2>2. \A j \in Ids : j < idx[w]
    BY <1>10 DEF FindMiss, AtEnd, Ids, TypeOK
  <2>3. QED
    BY <1>10, <2>1, <2>2 DEF FindMiss, Goto, OwnInv, Ids, TypeOK, store, loop
<1>11. ASSUME NEW w \in Workers, Insert(w) PROVE OwnInv'
  <2>0. PICK n : n = Len(requests) + 1
    OBVIOUS
  <2>1. /\ \A j \in Ids : requests'[j] = requests[j] /\ ledger'[j] = ledger[j]
        /\ Ids' = Ids \cup {n}
        /\ ledger'[n].by = w
    BY <1>11, <2>0, AddedOnly
  <2>2. \A v \in Workers, j \in Ids : OwnPending(v, j)' <=> OwnPending(v, j)
    BY <1>11, <2>1 DEF Insert, OwnPending, IsExpired
  <2>3. \A v \in Workers : v # w => ~OwnPending(v, n)'
    BY <2>1 DEF OwnPending
  <2>4. pc'[w] = "idle" /\ \A v \in Workers : v # w => pc'[v] = pc[v] /\ idx'[v] = idx[v]
    BY <1>11 DEF Insert, Goto, loop, TypeOK
  <2>5. QED
    BY <2>1, <2>2, <2>3, <2>4 DEF OwnInv
<1>12. ASSUME NEW p \in Approvers, NEW i \in Ids, Grant(p, i) PROVE OwnInv'
  <2>1. /\ Ids' = Ids
        /\ \A j \in Ids : ledger'[j].by = ledger[j].by
    BY <1>12, StatusOnly, GrantCounted DEF Grant, Decide, Statuses, TypeOK, Ids
  <2>2. \A v \in Workers, j \in Ids : OwnPending(v, j)' => OwnPending(v, j)
    BY <1>12, <2>1, StatusOnly DEF Grant, Decide, Statuses, OwnPending, IsExpired
  <2>3. QED
    BY <1>12, <2>1, <2>2 DEF Grant, Decide, OwnInv, loop
<1>13. ASSUME NEW p \in Approvers, NEW i \in Ids, Deny(p, i) PROVE OwnInv'
  <2>1. /\ Ids' = Ids
        /\ \A v \in Workers, j \in Ids : OwnPending(v, j)' => OwnPending(v, j)
    BY <1>13, StatusOnly DEF Deny, Decide, Statuses, OwnPending, IsExpired
  <2>2. QED
    BY <1>13, <2>1 DEF Deny, Decide, OwnInv, loop
<1>14. ASSUME NEW p \in Approvers, Announce(p) PROVE OwnInv'
  <2>1. announcing[p] \in 1..Len(ledger) /\ Ids = 1..Len(ledger) /\ ledger \in Seq(Entry)
    BY <1>14 DEF Announce, TypeOK, Ids
  <2>2. \A j \in Ids : ledger'[j].by = ledger[j].by
    BY <1>14, <2>1, EventCounted DEF Announce
  <2>3. /\ Ids' = Ids
        /\ \A v \in Workers, j \in Ids : OwnPending(v, j)' <=> OwnPending(v, j)
    BY <1>14, <2>2 DEF Announce, Ids, OwnPending, IsExpired
  <2>4. QED
    BY <1>14, <2>3 DEF Announce, OwnInv, loop
<1>15. CASE Tick
  <2>1. /\ Ids' = Ids
        /\ \A v \in Workers, j \in Ids : OwnPending(v, j)' => OwnPending(v, j)
    BY <1>15, Numbers DEF Tick, Ids, OwnPending, IsExpired, store
  <2>2. QED
    BY <1>15, <2>1 DEF Tick, OwnInv, loop
<1>16. CASE UNCHANGED vars
  BY <1>16 DEF vars, OwnInv, OwnPending, IsExpired, Ids
<1>17. QED
  BY <1>1, <1>2, <1>3, <1>4, <1>5, <1>6, <1>7, <1>8, <1>9, <1>10, <1>11, <1>12, <1>13,
     <1>14, <1>15, <1>16 DEF Next, Work, Approve

Live(i) == requests[i].status = "pending" /\ ~IsExpired(requests[i], now)

\* A step that makes no request, and no request pending again, cannot break
\* what OneLivePendingPerWorker says.
LEMMA PendingKept ==
  ASSUME OneLivePendingPerWorker, Ids' = Ids,
         \A j \in Ids : requests'[j].op = requests[j].op /\ ledger'[j].by = ledger[j].by,
         \A j \in Ids : Live(j)' => Live(j)
  PROVE  OneLivePendingPerWorker'
<1>1. ASSUME NEW i \in Ids, NEW j \in Ids, i # j, requests'[i].op = requests'[j].op,
             Live(i)', Live(j)'
      PROVE  ledger'[i].by # ledger'[j].by
  <2>1. Live(i) /\ Live(j) /\ requests[i].op = requests[j].op
    BY <1>1
  <2>2. QED
    BY <2>1, <1>1 DEF OneLivePendingPerWorker, Live
<1>2. QED
  BY <1>1 DEF OneLivePendingPerWorker, Live

\* No worker gets a second live pending request for an operation.
LEMMA UniqueStep == ASSUME TypeOK, SpendInv, OwnInv, OneLivePendingPerWorker, [Next]_vars PROVE OneLivePendingPerWorker'
<1>1. ASSUME NEW w \in Workers, NEW o \in Ops, Begin(w, o) PROVE OneLivePendingPerWorker'
  BY <1>1, PendingKept DEF Begin, Goto, store, loop, Ids, Live, IsExpired
<1>2. ASSUME NEW w \in Workers, Acquire(w) PROVE OneLivePendingPerWorker'
  BY <1>2, PendingKept DEF Acquire, CanLock, StartLoop, Goto, store, Ids, Live, IsExpired
<1>3. ASSUME NEW w \in Workers, ScanSkip(w) PROVE OneLivePendingPerWorker'
  BY <1>3, PendingKept DEF ScanSkip, NextTurn, store, Ids, Live, IsExpired
<1>4. ASSUME NEW w \in Workers, ScanMatch(w) PROVE OneLivePendingPerWorker'
  BY <1>4, PendingKept DEF ScanMatch, AtRecord, Goto, store, loop, Ids, Live, IsExpired
<1>5. ASSUME NEW w \in Workers, Spend(w) PROVE OneLivePendingPerWorker'
  <2>1. idx[w] \in Ids
    BY <1>5 DEF SpendInv, Spend
  <2>2. QED
    BY <1>5, <2>1, StatusOnly, ReleaseOnly, PendingKept DEF Spend, Statuses, Live, IsExpired
<1>6. ASSUME NEW w \in Workers, ScanFails(w) PROVE OneLivePendingPerWorker'
  BY <1>6, PendingKept DEF ScanFails, Unlock, Goto, store, loop, Ids, Live, IsExpired
<1>7. ASSUME NEW w \in Workers, Ask(w) PROVE OneLivePendingPerWorker'
  BY <1>7, PendingKept DEF Ask, StartLoop, Goto, store, Ids, Live, IsExpired
<1>8. ASSUME NEW w \in Workers, FindSkip(w) PROVE OneLivePendingPerWorker'
  BY <1>8, PendingKept DEF FindSkip, NextTurn, store, Ids, Live, IsExpired
<1>9. ASSUME NEW w \in Workers, FindEnds(w) PROVE OneLivePendingPerWorker'
  BY <1>9, PendingKept DEF FindEnds, Goto, store, loop, Ids, Live, IsExpired
<1>10. ASSUME NEW w \in Workers, FindMiss(w) PROVE OneLivePendingPerWorker'
  BY <1>10, PendingKept DEF FindMiss, AtEnd, DictGrew, Goto, store, loop, Ids, Live, IsExpired
<1>11. ASSUME NEW w \in Workers, Insert(w) PROVE OneLivePendingPerWorker'
  <2>0. PICK n : n = Len(requests) + 1
    OBVIOUS
  <2>1. /\ \A j \in Ids : requests'[j] = requests[j] /\ ledger'[j] = ledger[j]
        /\ Ids' = Ids \cup {n}
        /\ requests'[n].op = op[w]
        /\ ledger'[n].by = w
    BY <1>11, <2>0, AddedOnly
  <2>2. \A j \in Ids : ~OwnPending(w, j)
    BY <1>11 DEF Insert, OwnInv
  <2>3. now' = now
    BY <1>11 DEF Insert
  <2>4. QED
    BY <2>1, <2>2, <2>3 DEF OneLivePendingPerWorker, OwnPending, IsExpired
<1>12. ASSUME NEW p \in Approvers, NEW i \in Ids, Grant(p, i) PROVE OneLivePendingPerWorker'
  <2>1. /\ Ids' = Ids
        /\ \A j \in Ids : ledger'[j].by = ledger[j].by
    BY <1>12, StatusOnly, GrantCounted DEF Grant, Decide, Statuses, TypeOK, Ids
  <2>2. QED
    BY <1>12, <2>1, StatusOnly, PendingKept DEF Grant, Decide, Statuses, Live, IsExpired
<1>13. ASSUME NEW p \in Approvers, NEW i \in Ids, Deny(p, i) PROVE OneLivePendingPerWorker'
  BY <1>13, StatusOnly, PendingKept DEF Deny, Decide, Statuses, Live, IsExpired
<1>14. ASSUME NEW p \in Approvers, Announce(p) PROVE OneLivePendingPerWorker'
  <2>1. announcing[p] \in 1..Len(ledger) /\ Ids = 1..Len(ledger) /\ ledger \in Seq(Entry)
    BY <1>14 DEF Announce, TypeOK, Ids
  <2>2. \A j \in Ids : ledger'[j].by = ledger[j].by
    BY <1>14, <2>1, EventCounted DEF Announce
  <2>3. QED
    BY <1>14, <2>2, PendingKept DEF Announce, Ids, Live, IsExpired
<1>15. CASE Tick
  BY <1>15, Numbers, PendingKept DEF Tick, Ids, Live, IsExpired, store
<1>16. CASE UNCHANGED vars
  BY <1>16, PendingKept DEF vars, Ids, Live, IsExpired
<1>17. QED
  BY <1>1, <1>2, <1>3, <1>4, <1>5, <1>6, <1>7, <1>8, <1>9, <1>10, <1>11, <1>12, <1>13,
     <1>14, <1>15, <1>16 DEF Next, Work, Approve

-----------------------------------------------------------------------------
(***************************************************************************)
(* Events.  A grant owes one event from the write of the status to the end *)
(* of the emission: the approvers that are about to announce an approval,  *)
(* and the events it has, are no more than its grants.                     *)
(***************************************************************************)

Announcers(i) == {p \in Approvers : announcing[p] = i}

EventInv ==
    \A i \in Ids :
        /\ IsFiniteSet(Announcers(i))
        /\ ledger[i].announced + Cardinality(Announcers(i)) <= ledger[i].grants

\* The counters of events and grants are numbers.
LEMMA EventCounters ==
  ASSUME TypeOK, NEW i \in Ids
  PROVE  ledger[i].announced \in Nat /\ ledger[i].grants \in Nat
<1>1. ledger[i] \in Entry
  BY DEF TypeOK, Ids
<1>2. QED
  BY <1>1 DEF Entry

\* Nothing is owed more by a step that counts and announces as before.
LEMMA EventsKept ==
  ASSUME EventInv, UNCHANGED announcing, Len(requests') = Len(requests),
         \A i \in Ids : /\ ledger'[i].announced = ledger[i].announced
                        /\ ledger'[i].grants = ledger[i].grants
  PROVE  EventInv'
<1>1. Ids' = Ids /\ \A i \in Ids : Announcers(i)' = Announcers(i)
  BY DEF Ids, Announcers
<1>2. QED
  BY <1>1 DEF EventInv

\* Every step keeps it.
LEMMA EventStep ==
  ASSUME TypeOK, SpendInv, EventInv, [Next]_vars
  PROVE  EventInv'
<1>1. ASSUME UNCHANGED <<store, announcing>> PROVE EventInv'
  BY <1>1, EventsKept DEF store
<1>2. ASSUME NEW w \in Workers, Spend(w) PROVE EventInv'
  <2>1. idx[w] \in Ids
    BY <1>2 DEF SpendInv, Spend
  <2>2. Len(requests') = Len(requests)
    BY <1>2, <2>1, StatusSet DEF Spend, Statuses, TypeOK
  <2>3. \A j \in Ids : ledger'[j] =
           IF j = idx[w] THEN [ledger[idx[w]] EXCEPT !.releases = @ + 1] ELSE ledger[j]
    BY <1>2, <2>1, ReleaseCounted DEF Spend, Ids, TypeOK
  <2>4. ASSUME NEW j \in Ids
        PROVE  ledger'[j].announced = ledger[j].announced /\ ledger'[j].grants = ledger[j].grants
    <3>1. ledger[j] \in Entry
      BY DEF TypeOK, Ids
    <3>2. QED
      BY <2>3, <3>1 DEF Entry
  <2>5. UNCHANGED announcing
    BY <1>2 DEF Spend, approving
  <2>6. QED
    BY <2>2, <2>4, <2>5, EventsKept
<1>3. ASSUME NEW w \in Workers, Insert(w) PROVE EventInv'
  <2> PICK n \in Nat : n = Len(requests) + 1
    BY DEF TypeOK
  <2>1. /\ Len(requests') = n /\ \A j \in Ids : ledger'[j] = ledger[j]
        /\ ledger'[n].grants = 0 /\ ledger'[n].announced = 0
    <3>1. ledger'[n] = [by |-> w, timely |-> 0, grants |-> 0, releases |-> 0, announced |-> 0]
      BY <1>3, RequestAdded
    <3>2. QED
      BY <1>3, <3>1, RequestAdded
  <2>2. UNCHANGED announcing
    BY <1>3 DEF Insert, approving
  <2>3. \A i \in Nat : Announcers(i)' = Announcers(i)
    BY <2>2 DEF Announcers
  <2>4. Announcers(n) = {}
    BY DEF Announcers, TypeOK
  <2>5. IsFiniteSet({}) /\ Cardinality({}) = 0
    BY FS_EmptySet
  <2>6. n \in Nat /\ Ids' = Ids \cup {n}
    BY <2>1 DEF Ids, TypeOK
  <2>7. ASSUME NEW i \in Ids'
        PROVE  /\ IsFiniteSet(Announcers(i)')
               /\ ledger'[i].announced + Cardinality(Announcers(i)') <= ledger'[i].grants
    <3>1. CASE i \in Ids
      BY <2>1, <2>3, <3>1 DEF EventInv, Ids
    <3>2. CASE i = n
      <4>1. Announcers(n)' = {}
        BY <2>3, <2>4, <2>6
      <4>2. IsFiniteSet(Announcers(i)') /\ Cardinality(Announcers(i)') = 0
        BY <2>5, <3>2, <4>1
      <4>3. ledger'[i].announced = 0 /\ ledger'[i].grants = 0
        BY <2>1, <3>2
      <4>4. QED
        BY <4>2, <4>3
    <3>3. QED
      BY <2>6, <3>1, <3>2
  <2>8. QED
    BY <2>7 DEF EventInv
<1>4. ASSUME NEW p \in Approvers, NEW i \in Ids, Grant(p, i) PROVE EventInv'
  <2>1. Len(requests') = Len(requests) /\ Ids' = Ids
    BY <1>4, StatusSet DEF Grant, Decide, Statuses, TypeOK, Ids
  <2>2. announcing[p] = 0 /\ announcing' = [announcing EXCEPT ![p] = i]
        /\ announcing \in [Approvers -> 0..Len(requests)] /\ 0 \notin Ids
    BY <1>4 DEF Grant, Decide, TypeOK, Ids
  <2>3. Announcers(i)' = Announcers(i) \cup {p} /\ p \notin Announcers(i)
    BY <2>2 DEF Announcers
  <2>4. \A j \in Ids \ {i} : Announcers(j)' = Announcers(j)
    BY <2>2 DEF Announcers
  <2>5. \A j \in Ids : /\ ledger'[j].announced = ledger[j].announced
                       /\ ledger'[j].grants = IF j = i THEN ledger[j].grants + 1 ELSE ledger[j].grants
    <3> DEFINE e == [ledger[i] EXCEPT !.grants = @ + 1,
                        !.timely = IF IsExpired(requests[i], now) THEN @ ELSE @ + 1]
    <3>1. ledger[i] \in Entry /\ ledger \in Seq(Entry) /\ Ids = 1..Len(ledger)
      BY DEF TypeOK, Ids
    <3>2. ledger' = [ledger EXCEPT ![i] = e]
      BY <1>4 DEF Grant, CountGrant
    <3>3. e.announced = ledger[i].announced /\ e.grants = ledger[i].grants + 1
      BY <3>1 DEF Entry
    <3> HIDE DEF e
    <3>4. \A j \in Ids : ledger'[j] = IF j = i THEN e ELSE ledger[j]
      BY <3>1, <3>2
    <3>5. QED
      BY <3>3, <3>4
  <2>6. /\ IsFiniteSet(Announcers(i)) /\ Cardinality(Announcers(i)) \in Nat
        /\ IsFiniteSet(Announcers(i)')
        /\ Cardinality(Announcers(i)') = Cardinality(Announcers(i)) + 1
    BY <2>3, FS_AddElement, FS_CardinalityType DEF EventInv
  <2>7. ledger'[i].announced + Cardinality(Announcers(i)') <= ledger'[i].grants
    BY <2>5, <2>6, EventCounters DEF EventInv
  <2>8. QED
    BY <2>1, <2>4, <2>5, <2>6, <2>7 DEF EventInv
<1>5. ASSUME NEW p \in Approvers, NEW i \in Ids, Deny(p, i) PROVE EventInv'
  <2>1. Len(requests') = Len(requests)
    BY <1>5, StatusSet DEF Deny, Decide, Statuses, TypeOK
  <2>2. UNCHANGED <<announcing, ledger>>
    BY <1>5 DEF Deny
  <2>3. QED
    BY <2>1, <2>2, EventsKept
<1>6. ASSUME NEW p \in Approvers, Announce(p) PROVE EventInv'
  <2> PICK i \in Ids : i = announcing[p]
    BY <1>6 DEF Announce, TypeOK, Ids
  <2>1. i \in Ids /\ Ids' = Ids
    BY <1>6 DEF Announce, Ids
  <2>2. announcing' = [announcing EXCEPT ![p] = 0]
        /\ announcing \in [Approvers -> 0..Len(requests)] /\ 0 \notin Ids
    BY <1>6 DEF Announce, EmissionEnds, TypeOK, Ids
  <2>3. Announcers(i)' = Announcers(i) \ {p} /\ p \in Announcers(i)
    BY <2>1, <2>2 DEF Announcers
  <2>4. \A j \in Ids \ {i} : Announcers(j)' = Announcers(j)
    BY <2>2 DEF Announcers
  <2>5. \A j \in Ids : /\ ledger'[j].grants = ledger[j].grants
                       /\ ledger'[j].announced = ledger[j].announced
                          \/ (j = i /\ ledger'[j].announced = ledger[j].announced + 1)
    <3> DEFINE e == [ledger[i] EXCEPT !.announced = @ + 1]
    <3>1. ledger[i] \in Entry /\ ledger \in Seq(Entry) /\ Ids = 1..Len(ledger)
      BY <2>1 DEF TypeOK, Ids
    <3>2. ledger' = [ledger EXCEPT ![i] = e] \/ ledger' = ledger
      BY <1>6 DEF Announce
    <3>3. e.announced = ledger[i].announced + 1 /\ e.grants = ledger[i].grants
      BY <3>1 DEF Entry
    <3> HIDE DEF e
    <3>4. \A j \in Ids : ledger'[j] = (IF j = i THEN e ELSE ledger[j]) \/ ledger'[j] = ledger[j]
      BY <2>1, <3>1, <3>2
    <3>5. QED
      BY <3>3, <3>4
  <2>6. /\ IsFiniteSet(Announcers(i)) /\ Cardinality(Announcers(i)) \in Nat
        /\ IsFiniteSet(Announcers(i)')
        /\ Cardinality(Announcers(i)') = Cardinality(Announcers(i)) - 1
    BY <2>1, <2>3, FS_RemoveElement, FS_CardinalityType DEF EventInv
  <2>7. ledger'[i].announced + Cardinality(Announcers(i)') <= ledger'[i].grants
    BY <2>1, <2>5, <2>6, EventCounters DEF EventInv
  <2>8. QED
    BY <2>1, <2>4, <2>5, <2>6, <2>7 DEF EventInv
<1>7. ASSUME NEW w \in Workers, Work(w), ~Spend(w), ~Insert(w) PROVE UNCHANGED <<store, announcing>>
  BY <1>7 DEF Work, Acquire, ScanSkip, ScanMatch, ScanFails, Ask, FindSkip, FindEnds, FindMiss,
              approving
<1>8. ASSUME NEW w \in Workers, NEW o \in Ops, Begin(w, o) PROVE UNCHANGED <<store, announcing>>
  BY <1>8 DEF Begin, approving
<1>9. Tick => UNCHANGED <<store, announcing>>
  BY DEF Tick, approving
<1>10. UNCHANGED vars => UNCHANGED <<store, announcing>>
  BY DEF vars, store
<1>11. QED
  BY <1>1, <1>2, <1>3, <1>4, <1>5, <1>6, <1>7, <1>8, <1>9, <1>10 DEF Next, Approve

-----------------------------------------------------------------------------
(* The theorems *)

\* The inductive invariant holds in every reachable state.
THEOREM Invariance == Spec => []IInv
<1>1. Init => IInv
  <2> SUFFICES ASSUME Init PROVE IInv
    OBVIOUS
  <2>1. Ids = {}
    BY DEF Init, Ids
  <2>2. TypeOK
    BY OpsAssumption DEF Init, TypeOK
  <2>3. LockInv /\ SpendInv /\ GrantInv /\ OwnInv /\ OneLivePendingPerWorker
    BY <2>1, WorkersAssumption
    DEF Init, LockInv, SpendInv, GrantInv, OwnInv, OneLivePendingPerWorker
  <2>4. QED
    BY <2>2, <2>3 DEF IInv
<1>2. IInv /\ [Next]_vars => IInv'
  BY TypeStep, LockStep, SpendStep, GrantStep, OwnStep, UniqueStep DEF IInv
<1>3. QED
  BY <1>1, <1>2, PTL DEF Spec

\* Every variable keeps its type.
THEOREM TypeCorrect == Spec => []TypeOK
<1>1. IInv => TypeOK
  BY DEF IInv
<1>2. QED
  BY <1>1, Invariance, PTL

\* No approval releases more attempts than it got grants while alive: no
\* double-spend, however many workers race for it.
THEOREM NoDoubleSpend == Spec => []ReleasesBackedByGrants
<1>1. IInv => ReleasesBackedByGrants
  BY DEF IInv, GrantInv, ReleasesBackedByGrants
<1>2. QED
  BY <1>1, Invariance, PTL

\* No worker has two live pending requests for one operation.
THEOREM NoDuplicateRequests == Spec => []OneLivePendingPerWorker
<1>1. IInv => OneLivePendingPerWorker
  BY DEF IInv
<1>2. QED
  BY <1>1, Invariance, PTL

\* No approval has more approval_granted events than grants, though emissions
\* overlap, come late and get lost.
THEOREM NoEventWithoutGrant == Spec => []AnnouncedGrantsHappened
<1>1. Init => EventInv
  BY DEF Init, EventInv, Ids
<1>2. IInv /\ EventInv /\ [Next]_vars => EventInv'
  BY EventStep DEF IInv
<1>3. ASSUME IInv, EventInv PROVE AnnouncedGrantsHappened
  <2> SUFFICES ASSUME NEW i \in Ids PROVE ledger[i].announced <= ledger[i].grants
    BY DEF AnnouncedGrantsHappened
  <2>1. Cardinality(Announcers(i)) \in Nat
    BY <1>3, FS_CardinalityType DEF EventInv
  <2>2. QED
    BY <1>3, <2>1, EventCounters DEF IInv, EventInv
<1>4. QED
  BY <1>1, <1>2, <1>3, Invariance, PTL DEF Spec

-----------------------------------------------------------------------------
(* The refinement of ApprovalPromise *)

\* A step after which the same is on offer and the same is used up.
LEMMA Stutter ==
  ASSUME TypeOK, Ids' = Ids,
         \A i \in Ids : /\ Offered(i)' /\ ~Spending(i)' <=> Offered(i) /\ ~Spending(i)
                       /\ Uses'[i] = Uses[i]
  PROVE  UNCHANGED Promise!vars
<1>1. OnOffer' = OnOffer
  BY DEF OnOffer, Offered
<1>2. Uses' = Uses
  BY DEF Uses
<1>3. QED
  BY <1>1, <1>2 DEF Promise!vars

\* Nothing is on offer or used up but through the records, the ledger, the
\* clock and the attempts about to spend.
LEMMA Untouched ==
  ASSUME TypeOK, requests' = requests, ledger' = ledger, now' = now,
         \A v \in Workers : pc'[v] = "spend" <=> pc[v] = "spend",
         \A v \in Workers : pc[v] = "spend" => idx'[v] = idx[v]
  PROVE  UNCHANGED Promise!vars
<1>1. Ids' = Ids
  BY DEF Ids
<1>2. \A i \in Ids : (Offered(i)' <=> Offered(i)) /\ (Spending(i)' <=> Spending(i))
  BY DEF Offered, Spending, IsExpired
<1>3. \A i \in Ids : Uses'[i] = Uses[i]
  BY <1>1, <1>2 DEF Uses
<1>4. QED
  BY <1>1, <1>2, <1>3, Stutter

\* Uses is a sequence of numbers, one per request.
LEMMA UsesType ==
  ASSUME TypeOK
  PROVE  Uses \in Seq(Nat) /\ Len(Uses) = Len(requests) /\ DOMAIN Uses = Ids
<1>1. Uses \in [1..Len(requests) -> Nat]
  BY Numbers DEF Uses, Ids
<1>2. QED
  BY <1>1, Numbers DEF Ids

\* Every step of the service is a step of the promise, or none.
LEMMA PromiseStep == ASSUME TypeOK, LockInv, SpendInv, [Next]_vars PROVE [Promise!Next]_(Promise!vars)
<1>1. ASSUME NEW w \in Workers, NEW o \in Ops, Begin(w, o) PROVE [Promise!Next]_(Promise!vars)
  BY <1>1, Untouched DEF Begin, Goto, store, loop, TypeOK
<1>2. ASSUME NEW w \in Workers, Acquire(w) PROVE [Promise!Next]_(Promise!vars)
  BY <1>2, Untouched DEF Acquire, CanLock, StartLoop, Goto, store, TypeOK
<1>3. ASSUME NEW w \in Workers, ScanSkip(w) PROVE [Promise!Next]_(Promise!vars)
  BY <1>3, Untouched DEF ScanSkip, NextTurn, store, TypeOK
<1>4. ASSUME NEW w \in Workers, ScanMatch(w) PROVE [Promise!Next]_(Promise!vars)
  <2> DEFINE i == idx[w]
  <2>1. i \in Ids /\ Offered(i)
    BY <1>4 DEF ScanMatch, AtRecord, Releasable, Offered
  <2>2. Ids' = Ids /\ requests' = requests /\ ledger' = ledger /\ now' = now
    BY <1>4 DEF ScanMatch, store, Ids
  <2>3. \A j \in Ids : ~Spending(j)
    BY <1>4 DEF ScanMatch, LockInv, Spending
  <2>4. \A j \in Ids : (Offered(j)' <=> Offered(j)) /\ (Spending(j)' <=> j = i)
    BY <1>4, <2>2, <2>3 DEF ScanMatch, Goto, Offered, Spending, IsExpired, TypeOK, loop
  <2>5. i \in OnOffer /\ OnOffer' = OnOffer \ {i}
    BY <2>1, <2>2, <2>3, <2>4 DEF OnOffer, Offered
  <2>6. Uses' = [Uses EXCEPT ![i] = @ + 1]
    <3>1. \A j \in Ids : Uses[j] = ledger[j].releases
      BY <2>3, Numbers DEF Uses
    <3>2. \A j \in Ids : Uses'[j] = IF j = i THEN ledger[j].releases + 1 ELSE ledger[j].releases
      BY <2>2, <2>4, Numbers DEF Uses
    <3>3. DOMAIN Uses = Ids /\ DOMAIN Uses' = Ids /\ Uses' = [j \in Ids |-> Uses'[j]]
      BY <2>2 DEF Uses
    <3>4. Uses = [j \in Ids |-> Uses[j]]
      BY DEF Uses
    <3> HIDE DEF i
    <3>5. QED
      BY <2>1, <3>1, <3>2, <3>3, <3>4
  <2>7. Promise!Use(i)
    BY <2>5, <2>6 DEF Promise!Use
  <2>8. QED
    BY <2>1, <2>7, UsesType DEF Promise!Next, Ids
<1>5. ASSUME NEW w \in Workers, Spend(w) PROVE [Promise!Next]_(Promise!vars)
  <2>1. idx[w] \in Ids
    BY <1>5 DEF SpendInv, Spend
  <2>2. /\ \A j \in Ids : Spending(j) <=> j = idx[w]
        /\ \A j \in Ids : ~Spending(j)'
    BY <1>5 DEF Spend, Goto, LockInv, Spending, TypeOK
  <2>3. /\ Ids' = Ids
        /\ \A j \in Ids : Offered(j)' <=> Offered(j) /\ j # idx[w]
    BY <1>5, <2>1, StatusOnly DEF Spend, Statuses, Offered, IsExpired
  <2>4. \A j \in Ids : Uses'[j] = Uses[j]
    <3>1. \A j \in Ids : ledger'[j].releases =
            IF j = idx[w] THEN ledger[j].releases + 1 ELSE ledger[j].releases
      BY <1>5, <2>1, ReleaseOnly DEF Spend
    <3>2. \A j \in Ids : Uses'[j] = ledger'[j].releases
      BY <2>1, <2>2, <2>3, <3>1, Numbers DEF Uses
    <3>3. \A j \in Ids :
            Uses[j] = IF j = idx[w] THEN ledger[j].releases + 1 ELSE ledger[j].releases
      BY <2>2, Numbers DEF Uses
    <3>4. QED
      BY <3>1, <3>2, <3>3
  <2>5. QED
    BY <2>2, <2>3, <2>4, Stutter
<1>6. ASSUME NEW w \in Workers, ScanFails(w) PROVE [Promise!Next]_(Promise!vars)
  BY <1>6, Untouched DEF ScanFails, Unlock, Goto, store, loop, TypeOK
<1>7. ASSUME NEW w \in Workers, Ask(w) PROVE [Promise!Next]_(Promise!vars)
  BY <1>7, Untouched DEF Ask, StartLoop, Goto, store, TypeOK
<1>8. ASSUME NEW w \in Workers, FindSkip(w) PROVE [Promise!Next]_(Promise!vars)
  BY <1>8, Untouched DEF FindSkip, NextTurn, store, TypeOK
<1>9. ASSUME NEW w \in Workers, FindEnds(w) PROVE [Promise!Next]_(Promise!vars)
  BY <1>9, Untouched DEF FindEnds, Goto, store, loop, TypeOK
<1>10. ASSUME NEW w \in Workers, FindMiss(w) PROVE [Promise!Next]_(Promise!vars)
  BY <1>10, Untouched DEF FindMiss, AtEnd, DictGrew, Goto, store, loop, TypeOK
<1>11. ASSUME NEW w \in Workers, Insert(w) PROVE [Promise!Next]_(Promise!vars)
  <2>0. PICK n : n = Len(requests) + 1
    OBVIOUS
  <2>1. /\ \A j \in Ids : requests'[j] = requests[j] /\ ledger'[j] = ledger[j]
        /\ Ids' = Ids \cup {n} /\ n \notin Ids
        /\ requests'[n].status = "pending"
        /\ ledger'[n].releases = 0
    BY <1>11, <2>0, AddedOnly
  <2>2. /\ \A j \in Ids : (Offered(j)' <=> Offered(j)) /\ (Spending(j)' <=> Spending(j))
        /\ ~Offered(n)' /\ ~Spending(n)'
    BY <1>11, <2>1 DEF Insert, Goto, loop, Offered, Spending, SpendInv, IsExpired, TypeOK
  <2>3. OnOffer' = OnOffer
    BY <2>1, <2>2 DEF OnOffer, Offered
  <2>4. Uses' = Append(Uses, 0)
    <3>1. /\ \A j \in Ids : Uses'[j] = Uses[j]
          /\ Uses'[n] = 0
          /\ DOMAIN Uses' = Ids' /\ Uses' = [j \in Ids' |-> Uses'[j]]
      BY <2>1, <2>2 DEF Uses
    <3>2. \A j \in Ids : Append(Uses, 0)[j] = Uses[j]
      BY UsesType DEF Ids
    <3>3. /\ Append(Uses, 0)[n] = 0
          /\ Append(Uses, 0) = [j \in 1..n |-> Append(Uses, 0)[j]]
      <4>1. Uses \in Seq(Nat) /\ n = Len(Uses) + 1
        BY <2>0, UsesType
      <4>2. Append(Uses, 0) \in Seq(Nat) /\ Len(Append(Uses, 0)) = n /\ Append(Uses, 0)[n] = 0
        BY <4>1, Added
      <4>3. Append(Uses, 0) \in [1..n -> Nat]
        BY <4>2, LenProperties
      <4>4. QED
        BY <4>2, <4>3
    <3>4. Ids' = 1..n
      BY <2>0, <1>11, RequestAdded DEF Ids
    <3>5. QED
      BY <2>1, <3>1, <3>2, <3>3, <3>4
  <2>5. QED
    BY <2>3, <2>4 DEF Promise!Next, Promise!Open
<1>12. ASSUME NEW p \in Approvers, NEW i \in Ids, Grant(p, i) PROVE [Promise!Next]_(Promise!vars)
  <2>1. /\ Ids' = Ids
        /\ \A j \in Ids : Offered(j)' <=>
             IF j = i THEN ~IsExpired(requests[i], now) ELSE Offered(j)
    BY <1>12, StatusOnly DEF Grant, Decide, Statuses, Offered, IsExpired
  <2>2. \A j \in Ids : Spending(j)' <=> Spending(j)
    BY <1>12 DEF Grant, Decide, Spending, loop
  <2>3. \A j \in Ids : ledger'[j].releases = ledger[j].releases
    BY <1>12, GrantCounted DEF Grant, TypeOK, Ids
  <2>4. Uses' = Uses
    BY <2>1, <2>2, <2>3 DEF Uses
  <2>5. CASE IsExpired(requests[i], now) \/ Spending(i)
    <3>1. OnOffer' = OnOffer
      BY <2>1, <2>2, <2>5 DEF OnOffer, Offered
    <3>2. QED
      BY <2>4, <3>1 DEF Promise!vars
  <2>6. CASE ~(IsExpired(requests[i], now) \/ Spending(i))
    <3>1. OnOffer' = OnOffer \cup {i}
      BY <2>1, <2>2, <2>6 DEF OnOffer, Offered
    <3>2. QED
      BY <2>4, <3>1, UsesType DEF Promise!Next, Promise!Offer, Ids
  <2>7. QED
    BY <2>5, <2>6
<1>13. ASSUME NEW p \in Approvers, NEW i \in Ids, Deny(p, i) PROVE [Promise!Next]_(Promise!vars)
  <2>1. /\ Ids' = Ids
        /\ \A j \in Ids : Offered(j)' => Offered(j)
    BY <1>13, StatusOnly DEF Deny, Decide, Statuses, Offered, IsExpired
  <2>2. \A j \in Ids : Spending(j)' <=> Spending(j)
    BY <1>13 DEF Deny, Decide, Spending, loop
  <2>3. OnOffer' \subseteq OnOffer
    BY <2>1, <2>2 DEF OnOffer, Offered
  <2>4. Uses' = Uses
    BY <1>13, <2>1, <2>2 DEF Deny, Uses
  <2>5. QED
    BY <2>3, <2>4 DEF Promise!Next, Promise!Withdraw
<1>14. ASSUME NEW p \in Approvers, Announce(p) PROVE [Promise!Next]_(Promise!vars)
  <2>1. announcing[p] \in 1..Len(ledger) /\ Ids = 1..Len(ledger) /\ ledger \in Seq(Entry)
    BY <1>14 DEF Announce, TypeOK, Ids
  <2>2. \A j \in Ids : ledger'[j].releases = ledger[j].releases
    BY <1>14, <2>1, EventCounted DEF Announce
  <2>3. /\ Ids' = Ids
        /\ \A j \in Ids : (Offered(j)' <=> Offered(j)) /\ (Spending(j)' <=> Spending(j))
    BY <1>14 DEF Announce, Ids, Offered, Spending, IsExpired, loop
  <2>4. \A j \in Ids : Uses'[j] = Uses[j]
    BY <2>2, <2>3 DEF Uses
  <2>5. QED
    BY <2>3, <2>4, Stutter
<1>15. CASE Tick
  <2>1. /\ Ids' = Ids
        /\ \A j \in Ids : (Offered(j)' => Offered(j)) /\ (Spending(j)' <=> Spending(j))
    BY <1>15, Numbers DEF Tick, Ids, Offered, Spending, IsExpired, store, loop
  <2>2. OnOffer' \subseteq OnOffer
    BY <2>1 DEF OnOffer, Offered
  <2>3. Uses' = Uses
    BY <1>15, <2>1 DEF Tick, Uses, store
  <2>4. QED
    BY <2>2, <2>3 DEF Promise!Next, Promise!Withdraw
<1>16. CASE UNCHANGED vars
  BY <1>16, Untouched DEF vars
<1>17. QED
  BY <1>1, <1>2, <1>3, <1>4, <1>5, <1>6, <1>7, <1>8, <1>9, <1>10, <1>11, <1>12, <1>13,
     <1>14, <1>15, <1>16 DEF Next, Work, Approve

\* The service with its threads, loops and lock implements the promise of
\* one-step, single-use offers.
THEOREM Implements == Spec => KeepsPromise
<1>1. Init => Promise!Init
  <2> SUFFICES ASSUME Init PROVE Promise!Init
    OBVIOUS
  <2>1. Ids = {}
    BY DEF Init, Ids
  <2>2. OnOffer = {} /\ Uses = <<>>
    BY <2>1 DEF OnOffer, Uses
  <2>3. QED
    BY <2>2 DEF Promise!Init
<1>2. IInv /\ [Next]_vars => [Promise!Next]_(Promise!vars)
  BY PromiseStep DEF IInv
<1>3. QED
  BY <1>1, <1>2, Invariance, PTL DEF Spec, KeepsPromise, Promise!Spec


(***************************************************************************)
(* Attempts come to their end.                                             *)
(***************************************************************************)

\* How many labels are left at most.
Left == [idle |-> 0, insert |-> 1, find |-> 2, ask |-> 3, spend |-> 4, scan |-> 5, acquire |-> 6]

Stays(w) == pc'[w] = pc[w] /\ idx'[w] = idx[w] /\ size'[w] = size[w]

\* The loop looks at the next record, of those there were when it began.
Turns(w) ==
    /\ pc'[w] = pc[w] /\ size'[w] = size[w]
    /\ idx'[w] = idx[w] + 1 /\ idx'[w] <= size[w] + 1

Advances(w) == pc[w] # "idle" => Stays(w) \/ Turns(w) \/ Left[pc'[w]] < Left[pc[w]]

\* A step of one worker, and of anybody else.
LEMMA AdvanceStep ==
  ASSUME TypeOK, [Next]_vars, NEW w \in Workers
  PROVE  Advances(w)
<1>1. /\ pc \in [Workers -> {"idle", "acquire", "scan", "spend", "ask", "find", "insert"}]
      /\ idx \in [Workers -> Nat \ {0}] /\ size \in [Workers -> Nat]
  BY DEF TypeOK
<1>2. CASE UNCHANGED <<pc, loop>>
  BY <1>2 DEF Advances, Stays, loop
<1>3. ASSUME NEW v \in Workers, v # w, NEW p, NEW i, NEW s,
             pc' = [pc EXCEPT ![v] = p], idx' = [idx EXCEPT ![v] = i], size' = [size EXCEPT ![v] = s]
      PROVE  Advances(w)
  BY <1>1, <1>3 DEF Advances, Stays
<1>4. ASSUME NEW v \in Workers, NEW label, Goto(v, label),
             Left[label] < Left[pc[v]] \/ pc[v] = "idle",
             UNCHANGED loop \/ StartLoop(v)
      PROVE  Advances(w)
  BY <1>1, <1>4 DEF Goto, StartLoop, loop, Advances, Stays
<1>5. ASSUME NEW v \in Workers, AtRecord(v), NextTurn(v) PROVE Advances(w)
  <2>1. UNCHANGED <<pc, size>> /\ idx' = [idx EXCEPT ![v] = idx[v] + 1]
    BY <1>5 DEF NextTurn
  <2>2. CASE v = w
    <3>1. idx[w] <= size[w]
      BY <1>5, <2>2 DEF AtRecord, DictGrew, Ids
    <3>2. QED
      BY <1>1, <2>1, <2>2, <3>1 DEF Advances, Turns
  <2>3. CASE v # w
    BY <1>1, <2>1, <2>3 DEF Advances, Stays
  <2>4. QED
    BY <2>2, <2>3
<1>6. ASSUME NEW v \in Workers, NEW o \in Ops, Begin(v, o) PROVE Advances(w)
  BY <1>4, <1>6 DEF Begin
<1>7. ASSUME NEW v \in Workers, Work(v) PROVE Advances(w)
  <2>1. CASE ScanSkip(v) \/ FindSkip(v)
    BY <1>5, <2>1 DEF ScanSkip, FindSkip
  <2>2. CASE Acquire(v)
    BY <1>4, <2>2 DEF Acquire, Left
  <2>3. CASE Ask(v)
    BY <1>4, <2>3 DEF Ask, Left
  <2>4. CASE ScanMatch(v)
    BY <1>4, <2>4 DEF ScanMatch, Left
  <2>5. CASE ScanFails(v)
    BY <1>4, <2>5 DEF ScanFails, Left
  <2>6. CASE Spend(v)
    BY <1>4, <2>6 DEF Spend, Left
  <2>7. CASE FindEnds(v)
    BY <1>4, <2>7 DEF FindEnds, Left
  <2>8. CASE FindMiss(v)
    BY <1>4, <2>8 DEF FindMiss, Left
  <2>9. CASE Insert(v)
    BY <1>4, <2>9 DEF Insert, Left
  <2>10. QED
    BY <1>7, <2>1, <2>2, <2>3, <2>4, <2>5, <2>6, <2>7, <2>8, <2>9 DEF Work
<1>8. ASSUME NEW p \in Approvers, Approve(p) PROVE UNCHANGED <<pc, loop>>
  BY <1>8 DEF Approve, Grant, Deny, Decide, Announce, loop
<1>9. Tick \/ UNCHANGED vars => UNCHANGED <<pc, loop>>
  BY DEF Tick, vars, loop
<1>10. QED
  BY <1>2, <1>6, <1>7, <1>8, <1>9 DEF Next

\* A worker's step, if it has begun an attempt, goes to a later label or to the
\* next of the records there were when its loop began; what others do, approvers
\* and a dict that grows among them, never sends it back.  Together with a lock
\* that is held only inside a check this is why every attempt ends.
THEOREM AttemptsAdvance == Spec => [][\A w \in Workers : Advances(w)]_vars
<1>1. ASSUME TypeOK, [Next]_vars PROVE [\A w \in Workers : Advances(w)]_vars
  BY <1>1, AdvanceStep
<1>2. QED
  BY <1>1, TypeCorrect, PTL DEF Spec
=============================================================================
