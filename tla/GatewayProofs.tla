---------------------------- MODULE GatewayProofs ----------------------------
(***************************************************************************)
(* Proofs about Gateway, for any clients, calls, profiles, backends and    *)
(* bounds.                                                                 *)
(*                                                                         *)
(* An approval is worth one run.  It is a granted record, then a call on   *)
(* its way downstream, then a run: of each operation these three together  *)
(* never exceed its grants, for every step hands on what it takes, or      *)
(* loses it.  What a call goes by was answered by OPA on data it held      *)
(* while the call was evaluated, which the record of a call keeps.         *)
(*                                                                         *)
(* A step takes a call nearer to its end, and what ends it says which      *)
(* reply and which audit event it ends with.  Step by step, approvals and  *)
(* the calls they let go do what GrantPromise says.                        *)
(***************************************************************************)
EXTENDS Gateway, FiniteSetTheorems, TLAPS

CallFields == {"pc", "op", "outcome", "sent", "ran", "reply", "event", "seen"}

Entitled(k) == \E d \in k.seen : EntitlementAllow(d, k.op.profile, k.op.tool)

Judged(k) ==
    \E d \in k.seen : TransactionOutcome(d, k.op.profile, k.op.args, None) = k.outcome

\* What a call must be to go downstream.
Cleared(k) == k.op \in Operations /\ Entitled(k) /\ Judged(k) /\ k.outcome # "DENY"

Evaluating == {"entitle", "transact"}

\* data is what OPA holds.
CallSound(k, data) ==
    /\ DOMAIN k = CallFields
    /\ k.sent \in BOOLEAN /\ k.ran \in BOOLEAN
    /\ k.pc \in Evaluating => data \in k.seen
    /\ k.pc \in Evaluating \cup {"answered"} => k.op \in Operations
    /\ k.pc \in {"transact", "answered"} => Entitled(k)
    /\ k.pc = "answered" => Judged(k)
    /\ k.pc \in Evaluating \cup {"idle", "answered", "exchange"} => ~k.sent /\ ~k.ran
    /\ k.pc \in {"exchange", "connect"} \/ k.sent \/ k.ran => Cleared(k)
    /\ k.pc = "done" /\ k.reply \notin {"RESULT", "RAISED"} => ~k.sent /\ ~k.ran

\* The approvals that are granted, expired ones too.
Granted(o) == {i \in DOMAIN requests : requests[i].op = o /\ requests[i].status = "granted"}

BackedBy(o) ==
    ledger[o].runs + Cardinality(OnWay(o)) + Cardinality(Granted(o)) <= ledger[o].grants

Approval == [op : Operations, status : Statuses, expires_at : Int]

Entry == [grants : Nat, runs : Nat]

CallsInv == DOMAIN call = Calls /\ \A c \in Calls : CallSound(call[c], opa)

StoreInv ==
    /\ now \in Nat
    /\ requests \in Seq(Approval)
    /\ ledger \in [Operations -> Entry]

BackedInv == \A o \in Operations : BackedBy(o)

IInv == CallsInv /\ StoreInv /\ BackedInv

(***************************************************************************)
(* Sets of calls and approvals, and how many they are.                     *)
(***************************************************************************)

\* One element more.
LEMMA OneMore ==
  ASSUME NEW S, IsFiniteSet(S), NEW x, NEW T, T \subseteq S \cup {x}
  PROVE  Cardinality(T) <= Cardinality(S) + 1 /\ Cardinality(T) \in Nat
<1>1. IsFiniteSet(S \cup {x}) /\ Cardinality(S) \in Nat
  BY FS_AddElement, FS_CardinalityType
<1>2. Cardinality(S \cup {x}) = IF x \in S THEN Cardinality(S) ELSE Cardinality(S) + 1
  BY FS_AddElement
<1>3. /\ Cardinality(T) <= Cardinality(S \cup {x}) /\ Cardinality(T) \in Nat
      /\ Cardinality(S \cup {x}) \in Nat
  BY <1>1, FS_Subset, FS_CardinalityType
<1>4. QED
  BY <1>1, <1>2, <1>3

\* One element less.
LEMMA OneLess ==
  ASSUME NEW S, IsFiniteSet(S), NEW x \in S, NEW T, T \subseteq S \ {x}
  PROVE  Cardinality(T) + 1 <= Cardinality(S) /\ Cardinality(T) \in Nat
<1>1. IsFiniteSet(S \ {x}) /\ Cardinality(S) \in Nat
  BY FS_RemoveElement, FS_CardinalityType
<1>2. Cardinality(S \ {x}) = Cardinality(S) - 1
  BY FS_RemoveElement
<1>3. Cardinality(T) <= Cardinality(S \ {x}) /\ Cardinality(T) \in Nat
  BY <1>1, FS_Subset, FS_CardinalityType
<1>4. QED
  BY <1>1, <1>2, <1>3

\* There are finitely many calls and approvals.
LEMMA Finite ==
  ASSUME StoreInv, NEW o
  PROVE  /\ IsFiniteSet(OnWay(o)) /\ Cardinality(OnWay(o)) \in Nat
         /\ IsFiniteSet(Granted(o)) /\ Cardinality(Granted(o)) \in Nat
<1>1. IsFiniteSet(OnWay(o))
  BY CallsAssumption, FS_Subset DEF OnWay
<1>2. IsFiniteSet(Granted(o))
  <2>1. Len(requests) \in Nat /\ DOMAIN requests = 1..Len(requests)
    BY DEF StoreInv
  <2>2. IsFiniteSet(1..Len(requests))
    BY <2>1, FS_Interval
  <2>3. QED
    BY <2>1, <2>2, FS_Subset DEF Granted
<1>3. QED
  BY <1>1, <1>2, FS_CardinalityType

\* Nothing is owed more when nothing is added.
LEMMA FewerBacked ==
  ASSUME StoreInv, NEW o \in Operations, BackedBy(o), ledger'[o] = ledger[o],
         OnWay(o)' \subseteq OnWay(o), Granted(o)' \subseteq Granted(o)
  PROVE  BackedBy(o)'
<1>1. /\ Cardinality(OnWay(o)') <= Cardinality(OnWay(o)) /\ Cardinality(OnWay(o)') \in Nat
      /\ Cardinality(Granted(o)') <= Cardinality(Granted(o)) /\ Cardinality(Granted(o)') \in Nat
  BY Finite, FS_Subset, FS_CardinalityType
<1>2. ledger[o].runs \in Nat /\ ledger[o].grants \in Nat
  BY DEF StoreInv, Entry
<1>3. QED
  BY <1>1, <1>2, Finite DEF BackedBy

\* One approval may become one call on its way.
LEMMA SpentBacked ==
  ASSUME StoreInv, NEW o \in Operations, BackedBy(o), ledger'[o] = ledger[o],
         NEW c, NEW i \in Granted(o),
         OnWay(o)' \subseteq OnWay(o) \cup {c}, Granted(o)' \subseteq Granted(o) \ {i}
  PROVE  BackedBy(o)'
<1>1. Cardinality(OnWay(o)') <= Cardinality(OnWay(o)) + 1 /\ Cardinality(OnWay(o)') \in Nat
  BY Finite, OneMore
<1>2. Cardinality(Granted(o)') + 1 <= Cardinality(Granted(o)) /\ Cardinality(Granted(o)') \in Nat
  BY Finite, OneLess
<1>3. ledger[o].runs \in Nat /\ ledger[o].grants \in Nat
  BY DEF StoreInv, Entry
<1>4. QED
  BY <1>1, <1>2, <1>3, Finite DEF BackedBy

\* A grant is worth one approval.
LEMMA GrantBacked ==
  ASSUME StoreInv, NEW o \in Operations, BackedBy(o), NEW i,
         ledger'[o].runs = ledger[o].runs, ledger'[o].grants = ledger[o].grants + 1,
         OnWay(o)' \subseteq OnWay(o), Granted(o)' \subseteq Granted(o) \cup {i}
  PROVE  BackedBy(o)'
<1>1. Cardinality(OnWay(o)') <= Cardinality(OnWay(o)) /\ Cardinality(OnWay(o)') \in Nat
  BY Finite, FS_Subset, FS_CardinalityType
<1>2. Cardinality(Granted(o)') <= Cardinality(Granted(o)) + 1 /\ Cardinality(Granted(o)') \in Nat
  BY Finite, OneMore
<1>3. ledger[o].runs \in Nat /\ ledger[o].grants \in Nat
  BY DEF StoreInv, Entry
<1>4. QED
  BY <1>1, <1>2, <1>3, Finite DEF BackedBy

\* A run takes its call off the way.
LEMMA RunBacked ==
  ASSUME StoreInv, NEW o \in Operations, BackedBy(o), NEW c \in OnWay(o),
         ledger'[o].runs = ledger[o].runs + 1, ledger'[o].grants = ledger[o].grants,
         OnWay(o)' \subseteq OnWay(o) \ {c}, Granted(o)' \subseteq Granted(o)
  PROVE  BackedBy(o)'
<1>1. Cardinality(OnWay(o)') + 1 <= Cardinality(OnWay(o)) /\ Cardinality(OnWay(o)') \in Nat
  BY Finite, OneLess
<1>2. Cardinality(Granted(o)') <= Cardinality(Granted(o)) /\ Cardinality(Granted(o)') \in Nat
  BY Finite, FS_Subset, FS_CardinalityType
<1>3. ledger[o].runs \in Nat /\ ledger[o].grants \in Nat
  BY DEF StoreInv, Entry
<1>4. QED
  BY <1>1, <1>2, <1>3, Finite DEF BackedBy

(***************************************************************************)
(* A step of one call.                                                     *)
(***************************************************************************)

\* Approvals and grants as they are: whatever a call becomes, it is owed no more
\* unless it goes on its way.
LEMMA OneCall ==
  ASSUME IInv, NEW c \in Calls, NEW r, call' = [call EXCEPT ![c] = r], CallSound(r, opa),
         UNCHANGED <<opa, requests, now, ledger>>,
         OnItsWay(r) => OnItsWay(call[c]) /\ r.op = call[c].op
  PROVE  IInv'
<1>1. DOMAIN call' = Calls /\ call'[c] = r /\ \A d \in Calls \ {c} : call'[d] = call[d]
  BY DEF IInv, CallsInv
<1>2. \A d \in Calls : CallSound(call'[d], opa)
  BY <1>1 DEF IInv, CallsInv
<1>3. CallsInv'
  BY <1>1, <1>2 DEF CallsInv
<1>4. StoreInv'
  BY DEF IInv, StoreInv
<1>5. ASSUME NEW o \in Operations PROVE BackedBy(o)'
  <2>1. OnWay(o)' \subseteq OnWay(o)
    BY <1>1 DEF OnWay, OnItsWay
  <2>2. Granted(o)' \subseteq Granted(o)
    BY DEF Granted
  <2>3. QED
    BY <2>1, <2>2, FewerBacked DEF IInv, BackedInv
<1>6. QED
  BY <1>3, <1>4, <1>5 DEF IInv, BackedInv

\* A call that only waited may end with any answer, or raise.
LEMMA EndsSound ==
  ASSUME NEW k, NEW data, CallSound(k, data), NEW reply, NEW event,
         reply \in {"RESULT", "RAISED"} \/ (~k.sent /\ ~k.ran)
  PROVE  LET r == [k EXCEPT !.pc = "done", !.reply = reply, !.event = event]
         IN  CallSound(r, data) /\ (OnItsWay(r) => OnItsWay(k)) /\ r.op = k.op
<1> DEFINE r == [k EXCEPT !.pc = "done", !.reply = reply, !.event = event]
<1>1. /\ DOMAIN r = CallFields /\ r.pc = "done" /\ r.reply = reply /\ r.event = event
      /\ r.op = k.op /\ r.outcome = k.outcome /\ r.sent = k.sent /\ r.ran = k.ran
      /\ r.seen = k.seen
  BY DEF CallSound, CallFields
<1> HIDE DEF r
<1>2. CallSound(r, data)
  BY <1>1 DEF CallSound, Evaluating, Cleared, Entitled, Judged
<1>3. OnItsWay(r) => OnItsWay(k)
  BY <1>1 DEF OnItsWay
<1>4. QED
  BY <1>1, <1>2, <1>3 DEF r

\* So it keeps the invariant.
LEMMA AnswerKeeps ==
  ASSUME IInv, NEW c \in Calls, NEW reply, NEW event, Answer(c, reply, event),
         reply \in {"RESULT", "RAISED"} \/ (~call[c].sent /\ ~call[c].ran),
         UNCHANGED <<opa, requests, now, ledger>>
  PROVE  IInv'
<1> DEFINE r == [call[c] EXCEPT !.pc = "done", !.reply = reply, !.event = event]
<1>1. DOMAIN call = Calls /\ CallSound(call[c], opa)
  BY DEF IInv, CallsInv
<1>2. call' = [call EXCEPT ![c] = r]
  BY <1>1 DEF Answer
<1>3. CallSound(r, opa) /\ (OnItsWay(r) => OnItsWay(call[c])) /\ r.op = call[c].op
  BY <1>1, EndsSound
<1> HIDE DEF r
<1>4. QED
  BY <1>2, <1>3, OneCall

\* Nobody's call, a client nobody knows, or the first query.
LEMMA ReceiveKeeps ==
  ASSUME IInv, NEW c \in Calls, NEW q \in Requests, Receive(c, q)
  PROVE  IInv'
<1> DEFINE k == call[c]
<1>1. CallSound(k, opa) /\ k.pc = "idle" /\ ~k.sent /\ ~k.ran
  BY DEF IInv, CallsInv, CallSound, Receive
<1>2. UNCHANGED <<opa, requests, now, ledger>>
  BY DEF Receive, entitlement
<1>3. CASE Answer(c, "UNAUTHENTICATED", None) \/ Answer(c, "UNKNOWN_CLIENT", None)
  BY <1>1, <1>2, <1>3, AnswerKeeps, NoneAssumption
<1> DEFINE op == [profile |-> Registrations[q.client], tool |-> q.tool, args |-> q.args]
           r == [k EXCEPT !.pc = "entitle", !.op = op, !.seen = {opa}]
<1>4. CASE q.client \in DOMAIN Registrations
           /\ call' = [call EXCEPT ![c].pc = "entitle", ![c].op = op, ![c].seen = {opa}]
  <2>1. call' = [call EXCEPT ![c] = r]
    BY <1>4 DEF IInv, CallsInv
  <2>2. op \in Operations
    BY <1>4 DEF Operations
  <2> HIDE DEF op
  <2>3. /\ DOMAIN r = CallFields /\ r.pc = "entitle" /\ r.op = op /\ r.seen = {opa}
        /\ r.sent = k.sent /\ r.ran = k.ran /\ r.event = k.event
    BY <1>1 DEF CallSound, CallFields
  <2> HIDE DEF r
  <2>4. CallSound(r, opa) /\ ~OnItsWay(r)
    BY <1>1, <2>2, <2>3 DEF CallSound, Evaluating, OnItsWay
  <2>5. QED
    BY <1>2, <2>1, <2>4, OneCall
<1>5. QED
  BY <1>3, <1>4 DEF Receive

\* OPA answers the first query on data it has in this moment.
LEMMA EntitlementAnswerKeeps ==
  ASSUME IInv, NEW c \in Calls, EntitlementAnswer(c)
  PROVE  IInv'
<1> DEFINE k == call[c]
           r == [k EXCEPT !.pc = "transact"]
<1>1. CallSound(k, opa) /\ k.pc = "entitle" /\ ~k.sent /\ ~k.ran
  BY DEF IInv, CallsInv, CallSound, EntitlementAnswer, Evaluating
<1>2. UNCHANGED <<opa, requests, now, ledger>>
  BY DEF EntitlementAnswer, entitlement
<1>3. CASE EntitlementAllow(opa, k.op.profile, k.op.tool)
  <2>1. call' = [call EXCEPT ![c] = r]
    BY <1>3 DEF EntitlementAnswer, IInv, CallsInv
  <2>2. /\ DOMAIN r = CallFields /\ r.pc = "transact" /\ r.op = k.op /\ r.seen = k.seen
        /\ r.sent = k.sent /\ r.ran = k.ran /\ r.event = k.event
    BY <1>1 DEF CallSound, CallFields
  <2> HIDE DEF r
  <2>3. CallSound(r, opa) /\ ~OnItsWay(r)
    BY <1>1, <1>3, <2>2 DEF CallSound, Evaluating, Entitled, OnItsWay
  <2>4. QED
    BY <1>2, <2>1, <2>3, OneCall
<1>4. CASE ~EntitlementAllow(opa, k.op.profile, k.op.tool)
  BY <1>1, <1>2, <1>4, AnswerKeeps DEF EntitlementAnswer
<1>5. QED
  BY <1>3, <1>4

\* And the second one on data it has then.
LEMMA TransactionAnswerKeeps ==
  ASSUME IInv, NEW c \in Calls, TransactionAnswer(c)
  PROVE  IInv'
<1> DEFINE k == call[c]
           outcome == TransactionOutcome(opa, k.op.profile, k.op.args, None)
           r == [k EXCEPT !.pc = "answered", !.outcome = outcome]
<1>1. CallSound(k, opa) /\ k.pc = "transact" /\ ~k.sent /\ ~k.ran
  BY DEF IInv, CallsInv, CallSound, TransactionAnswer, Evaluating
<1>2. UNCHANGED <<opa, requests, now, ledger>>
  BY DEF TransactionAnswer, entitlement
<1>3. call' = [call EXCEPT ![c] = r]
  BY DEF TransactionAnswer, IInv, CallsInv
<1>4. outcome = TransactionOutcome(opa, k.op.profile, k.op.args, None)
  OBVIOUS
<1> HIDE DEF outcome
<1>5. /\ DOMAIN r = CallFields /\ r.pc = "answered" /\ r.op = k.op /\ r.seen = k.seen
      /\ r.sent = k.sent /\ r.ran = k.ran /\ r.event = k.event /\ r.outcome = outcome
  BY <1>1 DEF CallSound, CallFields
<1> HIDE DEF r
<1>6. Entitled(r) /\ Judged(r)
  BY <1>1, <1>4, <1>5 DEF CallSound, Evaluating, Entitled, Judged
<1>7. CallSound(r, opa) /\ ~OnItsWay(r)
  BY <1>1, <1>5, <1>6 DEF CallSound, Evaluating, OnItsWay
<1>8. QED
  BY <1>2, <1>3, <1>7, OneCall

\* What ends a call without sending it, or after.
LEMMA EndsKeeps ==
  ASSUME IInv, NEW c \in Calls,
         PdpUnavailable(c) \/ PdpGarbled(c) \/ Denied(c) \/ ExchangeFails(c)
             \/ DownstreamReturns(c) \/ DownstreamFails(c)
  PROVE  IInv'
<1>1. CallSound(call[c], opa)
  BY DEF IInv, CallsInv
<1>2. UNCHANGED <<opa, requests, now, ledger>>
  BY DEF PdpUnavailable, PdpGarbled, Denied, ExchangeFails, DownstreamReturns, DownstreamFails,
     entitlement
<1>3. CASE PdpUnavailable(c) \/ Denied(c)
  BY <1>1, <1>2, <1>3, AnswerKeeps DEF PdpUnavailable, Denied, CallSound, Evaluating
<1>4. CASE PdpGarbled(c) \/ ExchangeFails(c) \/ DownstreamFails(c)
  BY <1>2, <1>4, AnswerKeeps, NoneAssumption DEF PdpGarbled, ExchangeFails, DownstreamFails,
     DownstreamError, Raise
<1>5. CASE DownstreamReturns(c)
  BY <1>2, <1>5, AnswerKeeps DEF DownstreamReturns
<1>6. QED
  BY <1>3, <1>4, <1>5

\* Where a call goes that is cleared: to its end, to the identity provider or
\* downstream.
LEMMA DispatchGoes ==
  ASSUME CallsInv, NEW c \in Calls, call[c].pc \in {"answered", "exchange"},
         Cleared(call[c]),
         Dispatch(c) \/ Connect(c)
  PROVE  \E r : /\ call' = [call EXCEPT ![c] = r]
                /\ CallSound(r, opa) /\ r.op = call[c].op /\ r.outcome = call[c].outcome
<1> DEFINE k == call[c]
           goes(r) == /\ call' = [call EXCEPT ![c] = r]
                      /\ CallSound(r, opa) /\ r.op = k.op /\ r.outcome = k.outcome
<1>1. CallSound(k, opa) /\ DOMAIN call = Calls /\ ~k.sent /\ ~k.ran
  BY DEF CallsInv, CallSound
<1>2. ASSUME NEW reply, NEW event, Answer(c, reply, event)
      PROVE  \E r : goes(r)
  <2> DEFINE r == [k EXCEPT !.pc = "done", !.reply = reply, !.event = event]
  <2>1. call' = [call EXCEPT ![c] = r]
    BY <1>1, <1>2 DEF Answer
  <2>2. CallSound(r, opa) /\ r.op = k.op
    BY <1>1, <1>2, EndsSound
  <2>3. r.outcome = k.outcome
    BY <1>1 DEF CallSound, CallFields
  <2> HIDE DEF r
  <2>4. goes(r)
    BY <2>1, <2>2, <2>3
  <2>5. QED
    BY <2>4
<1>3. CASE call' = [call EXCEPT ![c].pc = "connect", ![c].sent = TRUE]
  <2> DEFINE r == [k EXCEPT !.pc = "connect", !.sent = TRUE]
  <2>1. call' = [call EXCEPT ![c] = r]
    BY <1>1, <1>3
  <2>2. /\ DOMAIN r = CallFields /\ r.pc = "connect" /\ r.sent = TRUE /\ r.ran = k.ran
        /\ r.op = k.op /\ r.outcome = k.outcome /\ r.event = k.event /\ r.seen = k.seen
    BY <1>1 DEF CallSound, CallFields
  <2> HIDE DEF r
  <2>3. Cleared(r)
    BY <2>2 DEF Cleared, Entitled, Judged
  <2>4. goes(r)
    BY <1>1, <2>1, <2>2, <2>3 DEF CallSound, Evaluating
  <2>5. QED
    BY <2>4
<1>4. CASE call' = [call EXCEPT ![c].pc = "exchange"]
  <2> DEFINE r == [k EXCEPT !.pc = "exchange"]
  <2>1. call' = [call EXCEPT ![c] = r]
    BY <1>1, <1>4
  <2>2. /\ DOMAIN r = CallFields /\ r.pc = "exchange" /\ r.sent = k.sent /\ r.ran = k.ran
        /\ r.op = k.op /\ r.outcome = k.outcome /\ r.event = k.event /\ r.seen = k.seen
    BY <1>1 DEF CallSound, CallFields
  <2> HIDE DEF r
  <2>3. Cleared(r)
    BY <2>2 DEF Cleared, Entitled, Judged
  <2>4. goes(r)
    BY <1>1, <2>1, <2>2, <2>3 DEF CallSound, Evaluating
  <2>5. QED
    BY <2>4
<1>5. CASE Connect(c)
  BY <1>2, <1>3, <1>5 DEF Connect
<1>6. CASE Dispatch(c)
  <2> DEFINE tool == k.op.tool
  <2>1. CASE Unroutable(tool)
    BY <1>2, <1>6, <2>1 DEF Dispatch
  <2>2. CASE ~Unroutable(tool)
    <3>1. Mode(tool) \in {"static", "unset", "exchange"}
      BY <2>2, BackendsAssumption DEF Unroutable, Mode
    <3>2. CASE Mode(tool) = "unset"
      BY <1>2, <1>6, <2>2, <3>2, NoneAssumption DEF Dispatch, Raise
    <3>3. CASE Mode(tool) = "static"
      <4>1. Connect(c)
        BY <1>6, <2>2, <3>3 DEF Dispatch
      <4>2. QED
        BY <1>5, <4>1
    <3>4. CASE Mode(tool) = "exchange"
      BY <1>4, <1>6, <2>2, <3>4 DEF Dispatch
    <3>5. QED
      BY <3>1, <3>2, <3>3, <3>4
  <2>3. QED
    BY <2>1, <2>2
<1>7. QED
  BY <1>5, <1>6

\* A call that is answered and not denied is cleared.
LEMMA AnsweredCleared ==
  ASSUME CallsInv, NEW c \in Calls, call[c].pc = "answered", call[c].outcome # "DENY"
  PROVE  Cleared(call[c])
BY DEF CallsInv, CallSound, Cleared, Evaluating

\* A call that needs no approval owes none.
LEMMA AllowedKeeps ==
  ASSUME IInv, NEW c \in Calls, Allowed(c)
  PROVE  IInv'
<1>1. /\ call[c].pc = "answered" /\ call[c].outcome = "ALLOW" /\ Dispatch(c)
      /\ UNCHANGED <<opa, requests, now, ledger>>
  BY DEF Allowed, entitlement
<1>2. PICK r : /\ call' = [call EXCEPT ![c] = r]
               /\ CallSound(r, opa) /\ r.op = call[c].op /\ r.outcome = call[c].outcome
  BY <1>1, AnsweredCleared, DispatchGoes DEF IInv
<1>3. ~OnItsWay(r)
  BY <1>1, <1>2 DEF OnItsWay
<1>4. QED
  BY <1>1, <1>2, <1>3, OneCall

\* With the credential in hand a call goes on its way as before.
LEMMA ExchangeAnswerKeeps ==
  ASSUME IInv, NEW c \in Calls, ExchangeAnswer(c)
  PROVE  IInv'
<1>1. call[c].pc = "exchange" /\ Connect(c) /\ UNCHANGED <<opa, requests, now, ledger>>
  BY DEF ExchangeAnswer, entitlement
<1>2. Cleared(call[c])
  BY <1>1 DEF IInv, CallsInv, CallSound
<1>3. PICK r : /\ call' = [call EXCEPT ![c] = r]
               /\ CallSound(r, opa) /\ r.op = call[c].op /\ r.outcome = call[c].outcome
  BY <1>1, <1>2, DispatchGoes DEF IInv
<1>4. OnItsWay(r) => OnItsWay(call[c])
  BY <1>1, <1>3 DEF OnItsWay
<1>5. QED
  BY <1>1, <1>3, <1>4, OneCall

\* A slot that is free again owes nothing.
LEMMA ReturnKeeps ==
  ASSUME IInv, NEW c \in Calls, Return(c)
  PROVE  IInv'
<1>1. call' = [call EXCEPT ![c] = NoCall] /\ UNCHANGED <<opa, requests, now, ledger>>
  BY DEF Return, entitlement
<1>2. CallSound(NoCall, opa) /\ ~OnItsWay(NoCall)
  BY NoneAssumption DEF NoCall, CallSound, CallFields, Evaluating, OnItsWay
<1>3. QED
  BY <1>1, <1>2, OneCall

(***************************************************************************)
(* Approvals.                                                              *)
(***************************************************************************)

\* Setting a status changes one field of one record.
LEMMA StatusSet ==
  ASSUME StoreInv, NEW i \in DOMAIN requests, NEW s \in Statuses
  PROVE  /\ WithStatus(requests, i, s) \in Seq(Approval)
         /\ DOMAIN WithStatus(requests, i, s) = DOMAIN requests
         /\ \A j \in DOMAIN requests :
              /\ WithStatus(requests, i, s)[j].op = requests[j].op
              /\ WithStatus(requests, i, s)[j].status = IF j = i THEN s ELSE requests[j].status
<1> DEFINE a == [requests[i] EXCEPT !.status = s]
           w == [requests EXCEPT ![i] = a]
<1>1. requests \in Seq(Approval) /\ requests[i] \in Approval
  BY DEF StoreInv
<1>2. a \in Approval /\ a.op = requests[i].op /\ a.status = s
  BY <1>1 DEF Approval
<1> HIDE DEF a
<1>3. /\ w \in Seq(Approval) /\ DOMAIN w = DOMAIN requests
      /\ \A j \in DOMAIN requests : w[j] = IF j = i THEN a ELSE requests[j]
  BY <1>1, <1>2
<1>4. WithStatus(requests, i, s) = w
  BY DEF WithStatus, a
<1>5. QED
  BY <1>2, <1>3, <1>4

\* A step of one call keeps the calls sound, whatever it does to the approvals.
LEMMA OneCallSound ==
  ASSUME CallsInv, NEW c \in Calls, NEW r, call' = [call EXCEPT ![c] = r], CallSound(r, opa),
         UNCHANGED opa
  PROVE  CallsInv' /\ call'[c] = r /\ \A d \in Calls \ {c} : call'[d] = call[d]
<1>1. DOMAIN call' = Calls /\ call'[c] = r /\ \A d \in Calls \ {c} : call'[d] = call[d]
  BY DEF CallsInv
<1>2. \A d \in Calls : CallSound(call'[d], opa)
  BY <1>1 DEF CallsInv
<1>3. QED
  BY <1>1, <1>2 DEF CallsInv

\* A call on its way takes the place of the approval that was spent on it.
LEMMA ApprovedKeeps ==
  ASSUME IInv, NEW c \in Calls, Approved(c)
  PROVE  IInv'
<1> DEFINE k == call[c]
<1>1. /\ k.pc = "answered" /\ k.outcome = "REQUIRE_APPROVAL" /\ Dispatch(c)
      /\ UNCHANGED <<opa, now, ledger>>
  BY DEF Approved, Gated, entitlement
<1>2. PICK i \in DOMAIN requests : i \in Spendable(k.op) /\ requests' = WithStatus(requests, i, "consumed")
  BY DEF Approved, IsFirst, SpendApproval
<1>3. PICK r : /\ call' = [call EXCEPT ![c] = r]
               /\ CallSound(r, opa) /\ r.op = k.op /\ r.outcome = k.outcome
  BY <1>1, AnsweredCleared, DispatchGoes DEF IInv
<1>4. CallsInv' /\ call'[c] = r /\ \A d \in Calls \ {c} : call'[d] = call[d]
  BY <1>1, <1>3, OneCallSound DEF IInv
<1>5. /\ requests' \in Seq(Approval) /\ DOMAIN requests' = DOMAIN requests
      /\ \A j \in DOMAIN requests :
           /\ requests'[j].op = requests[j].op
           /\ requests'[j].status = IF j = i THEN "consumed" ELSE requests[j].status
  BY <1>2, StatusSet DEF IInv, Statuses
<1>6. StoreInv'
  BY <1>1, <1>5 DEF IInv, StoreInv
<1>7. ASSUME NEW o \in Operations PROVE BackedBy(o)'
  <2>1. Granted(o)' \subseteq Granted(o) \ {i}
    BY <1>5 DEF Granted
  <2>2. CASE o = k.op
    <3>1. i \in Granted(o)
      BY <1>2, <2>2 DEF Spendable, Releasable, Granted
    <3>2. OnWay(o)' \subseteq OnWay(o) \cup {c}
      BY <1>4 DEF OnWay, OnItsWay
    <3>3. QED
      BY <1>1, <2>1, <3>1, <3>2, SpentBacked DEF IInv, BackedInv
  <2>3. CASE o # k.op
    <3>1. OnWay(o)' \subseteq OnWay(o)
      BY <1>3, <1>4, <2>3 DEF OnWay, OnItsWay
    <3>2. QED
      BY <1>1, <2>1, <3>1, FewerBacked DEF IInv, BackedInv
  <2>4. QED
    BY <2>2, <2>3
<1>8. QED
  BY <1>4, <1>6, <1>7 DEF IInv, BackedInv

\* A new request is pending and releases nothing.
LEMMA AskApprovalKeeps ==
  ASSUME IInv, NEW c \in Calls, AskApproval(c)
  PROVE  IInv'
<1> DEFINE k == call[c]
           r == [k EXCEPT !.pc = "done", !.reply = "REQUIRE_APPROVAL",
                          !.event = "tool_call_require_approval"]
           a == NewRequest(k.op, now, Ttl)
<1>1. CallSound(k, opa) /\ DOMAIN call = Calls /\ k.pc = "answered" /\ ~k.sent /\ ~k.ran
      /\ k.op \in Operations
  BY DEF IInv, CallsInv, CallSound, AskApproval, Evaluating
<1>2. UNCHANGED <<opa, now, ledger>> /\ call' = [call EXCEPT ![c] = r]
  BY <1>1 DEF AskApproval, Answer, entitlement
<1>3. CallSound(r, opa) /\ (OnItsWay(r) => OnItsWay(k)) /\ r.op = k.op
  BY <1>1, EndsSound
<1> HIDE DEF r
<1>4. CallsInv' /\ call'[c] = r /\ \A d \in Calls \ {c} : call'[d] = call[d]
  BY <1>2, <1>3, OneCallSound DEF IInv
<1>5. requests \in Seq(Approval) /\ a \in Approval /\ a.status = "pending"
  BY <1>1, TtlAssumption DEF IInv, StoreInv, NewRequest, Approval, Statuses
<1> HIDE DEF a
<1>6. /\ requests' \in Seq(Approval)
      /\ \A j \in DOMAIN requests' :
            (j \in DOMAIN requests /\ requests'[j] = requests[j]) \/ requests'[j] = a
  <2>1. requests' = requests \/ requests' = Append(requests, a)
    BY DEF AskApproval, a
  <2>2. QED
    BY <1>5, <2>1
<1>7. StoreInv'
  BY <1>2, <1>6 DEF IInv, StoreInv
<1>8. ASSUME NEW o \in Operations PROVE BackedBy(o)'
  <2>1. Granted(o)' \subseteq Granted(o)
    BY <1>5, <1>6 DEF Granted
  <2>2. OnWay(o)' \subseteq OnWay(o)
    BY <1>3, <1>4 DEF OnWay
  <2>3. QED
    BY <1>2, <2>1, <2>2, FewerBacked DEF IInv, BackedInv
<1>9. QED
  BY <1>4, <1>7, <1>8 DEF IInv, BackedInv

\* A run of a gated call is one that was on its way.
LEMMA DownstreamRunsKeeps ==
  ASSUME IInv, NEW c \in Calls, DownstreamRuns(c)
  PROVE  IInv'
<1> DEFINE k == call[c]
           r == [k EXCEPT !.sent = FALSE, !.ran = TRUE]
<1>1. CallSound(k, opa) /\ DOMAIN call = Calls /\ k.sent /\ Cleared(k)
  BY DEF IInv, CallsInv, CallSound, DownstreamRuns
<1>2. UNCHANGED <<opa, requests, now>> /\ call' = [call EXCEPT ![c] = r]
  BY <1>1 DEF DownstreamRuns, entitlement
<1>3. /\ DOMAIN r = CallFields /\ r.pc = k.pc /\ r.op = k.op /\ r.outcome = k.outcome
      /\ r.sent = FALSE /\ r.ran = TRUE /\ r.reply = k.reply /\ r.event = k.event
      /\ r.seen = k.seen
  BY <1>1 DEF CallSound, CallFields
<1> HIDE DEF r
<1>4. CallSound(r, opa) /\ ~OnItsWay(r)
  <2>1. Cleared(r)
    BY <1>1, <1>3 DEF Cleared, Entitled, Judged
  <2>2. QED
    BY <1>1, <1>3, <2>1 DEF CallSound, Evaluating, OnItsWay
<1>5. CallsInv' /\ call'[c] = r /\ \A d \in Calls \ {c} : call'[d] = call[d]
  BY <1>2, <1>4, OneCallSound DEF IInv
<1>6. k.op \in Operations /\ ledger \in [Operations -> Entry]
  BY <1>1 DEF IInv, StoreInv, Cleared
<1>7. CASE Gated(c)
  <2> DEFINE e == [ledger[k.op] EXCEPT !.runs = ledger[k.op].runs + 1]
  <2>1. ledger' = [ledger EXCEPT ![k.op] = e]
    BY <1>7 DEF DownstreamRuns
  <2>2. e \in Entry /\ e.runs = ledger[k.op].runs + 1 /\ e.grants = ledger[k.op].grants
    BY <1>6 DEF Entry
  <2> HIDE DEF e
  <2>3. StoreInv'
    BY <1>2, <1>6, <2>1, <2>2 DEF IInv, StoreInv
  <2>4. ASSUME NEW o \in Operations PROVE BackedBy(o)'
    <3>1. Granted(o)' \subseteq Granted(o)
      BY <1>2 DEF Granted
    <3>2. OnWay(o)' \subseteq OnWay(o) \ {c}
      BY <1>4, <1>5 DEF OnWay
    <3>3. CASE o = k.op
      <4>1. c \in OnWay(o)
        BY <1>1, <1>7, <3>3 DEF OnWay, OnItsWay, Gated
      <4>2. ledger'[o].runs = ledger[o].runs + 1 /\ ledger'[o].grants = ledger[o].grants
        BY <1>6, <2>1, <2>2, <3>3
      <4>3. QED
        BY <3>1, <3>2, <4>1, <4>2, RunBacked DEF IInv, BackedInv
    <3>4. CASE o # k.op
      <4>1. ledger'[o] = ledger[o]
        BY <1>6, <2>1, <3>4
      <4>2. QED
        BY <3>1, <3>2, <4>1, FewerBacked DEF IInv, BackedInv
    <3>5. QED
      BY <3>3, <3>4
  <2>5. QED
    BY <1>5, <2>3, <2>4 DEF IInv, BackedInv
<1>8. CASE ~Gated(c)
  <2>1. ledger' = ledger
    BY <1>8 DEF DownstreamRuns
  <2>2. QED
    BY <1>2, <1>4, <2>1, OneCall
<1>9. QED
  BY <1>7, <1>8

\* A call that a backend refuses is not on its way any more.
LEMMA DownstreamRefusesKeeps ==
  ASSUME IInv, NEW c \in Calls, DownstreamRefuses(c)
  PROVE  IInv'
<1> DEFINE k == call[c]
           r == [k EXCEPT !.sent = FALSE]
<1>1. CallSound(k, opa) /\ DOMAIN call = Calls /\ k.sent /\ Cleared(k)
  BY DEF IInv, CallsInv, CallSound, DownstreamRefuses
<1>2. UNCHANGED <<opa, requests, now, ledger>> /\ call' = [call EXCEPT ![c] = r]
  BY <1>1 DEF DownstreamRefuses, entitlement
<1>3. /\ DOMAIN r = CallFields /\ r.pc = k.pc /\ r.op = k.op /\ r.outcome = k.outcome
      /\ r.sent = FALSE /\ r.ran = k.ran /\ r.reply = k.reply /\ r.seen = k.seen
  BY <1>1 DEF CallSound, CallFields
<1> HIDE DEF r
<1>4. Cleared(r)
  BY <1>1, <1>3 DEF Cleared, Entitled, Judged
<1>5. CallSound(r, opa) /\ (OnItsWay(r) => OnItsWay(k))
  BY <1>1, <1>3, <1>4 DEF CallSound, Evaluating, OnItsWay
<1>6. QED
  BY <1>2, <1>3, <1>5, OneCall

\* A decision of an approver; a grant is counted.
LEMMA DecisionKeeps ==
  ASSUME IInv, NEW i \in DOMAIN requests, Grant(i) \/ Deny(i)
  PROVE  IInv'
<1>1. CallsInv' /\ UNCHANGED <<call, now>>
  BY DEF IInv, CallsInv, Grant, Deny, entitlement
<1>2. requests \in Seq(Approval) /\ requests[i].op \in Operations /\ ledger \in [Operations -> Entry]
  <2>1. requests \in Seq(Approval) /\ ledger \in [Operations -> Entry]
    BY DEF IInv, StoreInv
  <2>2. requests[i] \in Approval
    BY <2>1
  <2>3. QED
    BY <2>1, <2>2 DEF Approval
<1>3. \A o \in Operations : OnWay(o)' \subseteq OnWay(o)
  BY <1>1 DEF OnWay
<1>4. CASE Grant(i)
  <2> DEFINE p == requests[i].op
             e == [ledger[p] EXCEPT !.grants = ledger[p].grants + 1]
  <2>1. ledger' = [ledger EXCEPT ![p] = e] /\ requests' = WithStatus(requests, i, "granted")
    BY <1>4 DEF Grant
  <2>2. e \in Entry /\ e.runs = ledger[p].runs /\ e.grants = ledger[p].grants + 1
    BY <1>2 DEF Entry
  <2> HIDE DEF e
  <2>3. /\ requests' \in Seq(Approval) /\ DOMAIN requests' = DOMAIN requests
        /\ \A j \in DOMAIN requests :
             /\ requests'[j].op = requests[j].op
             /\ requests'[j].status = IF j = i THEN "granted" ELSE requests[j].status
    BY <2>1, StatusSet DEF IInv, Statuses
  <2>4. StoreInv'
    BY <1>1, <1>2, <2>1, <2>2, <2>3 DEF IInv, StoreInv
  <2>5. ASSUME NEW o \in Operations PROVE BackedBy(o)'
    <3>1. CASE o = p
      <4>1. Granted(o)' \subseteq Granted(o) \cup {i}
        BY <2>3 DEF Granted
      <4>2. ledger'[o].runs = ledger[o].runs /\ ledger'[o].grants = ledger[o].grants + 1
        BY <1>2, <2>1, <2>2, <3>1
      <4>3. QED
        BY <1>3, <4>1, <4>2, GrantBacked DEF IInv, BackedInv
    <3>2. CASE o # p
      <4>1. Granted(o)' \subseteq Granted(o)
        BY <2>3, <3>2 DEF Granted
      <4>2. ledger'[o] = ledger[o]
        BY <1>2, <2>1, <3>2
      <4>3. QED
        BY <1>3, <4>1, <4>2, FewerBacked DEF IInv, BackedInv
    <3>3. QED
      BY <3>1, <3>2
  <2>6. QED
    BY <1>1, <2>4, <2>5 DEF IInv, BackedInv
<1>5. CASE Deny(i)
  <2>1. UNCHANGED ledger /\ requests' = WithStatus(requests, i, "denied")
    BY <1>5 DEF Deny
  <2>2. /\ requests' \in Seq(Approval) /\ DOMAIN requests' = DOMAIN requests
        /\ \A j \in DOMAIN requests :
             /\ requests'[j].op = requests[j].op
             /\ requests'[j].status = IF j = i THEN "denied" ELSE requests[j].status
    BY <2>1, StatusSet DEF IInv, Statuses
  <2>3. StoreInv'
    BY <1>1, <1>2, <2>1, <2>2 DEF IInv, StoreInv
  <2>4. \A o \in Operations : Granted(o)' \subseteq Granted(o)
    BY <2>2 DEF Granted
  <2>5. \A o \in Operations : BackedBy(o)'
    BY <1>3, <2>1, <2>4, FewerBacked DEF IInv, BackedInv
  <2>6. QED
    BY <1>1, <2>3, <2>5 DEF IInv, BackedInv
<1>6. QED
  BY <1>4, <1>5

(***************************************************************************)
(* OPA's data and the process.                                             *)
(***************************************************************************)

\* A call that is evaluated remembers what OPA becomes.
LEMMA SeesSound ==
  ASSUME NEW k, NEW data, NEW new, CallSound(k, data)
  PROVE  LET r == IF k.pc \in {"entitle", "transact"} THEN [k EXCEPT !.seen = k.seen \cup {new}] ELSE k
         IN  /\ CallSound(r, new)
             /\ r.op = k.op /\ (OnItsWay(r) => OnItsWay(k))
<1> DEFINE r == [k EXCEPT !.seen = k.seen \cup {new}]
<1>1. CASE k.pc \in {"entitle", "transact"}
  <2>1. /\ DOMAIN r = CallFields /\ r.pc = k.pc /\ r.op = k.op /\ r.outcome = k.outcome
        /\ r.sent = k.sent /\ r.ran = k.ran /\ r.reply = k.reply /\ r.event = k.event
        /\ r.seen = k.seen \cup {new}
    BY DEF CallSound, CallFields
  <2> HIDE DEF r
  <2>2. k.pc = "transact" => Entitled(r)
    BY <2>1 DEF CallSound, Entitled
  <2>3. CallSound(r, new) /\ (OnItsWay(r) => OnItsWay(k))
    BY <1>1, <2>1, <2>2 DEF CallSound, Evaluating, OnItsWay
  <2>4. QED
    BY <1>1, <2>1, <2>3 DEF r
<1>2. CASE k.pc \notin {"entitle", "transact"}
  <2>1. CallSound(k, new)
    BY <1>2 DEF CallSound, Evaluating
  <2>2. QED
    BY <1>2, <2>1
<1>3. QED
  BY <1>1, <1>2

\* Approvals that are there, or are gone with the process.
LEMMA OpaKeeps ==
  ASSUME IInv, NEW data, OpaBecomes(data), UNCHANGED <<now, ledger>>,
         requests' = requests \/ requests' = <<>>
  PROVE  IInv'
<1>1. DOMAIN call' = Calls /\ opa' = data
  BY DEF OpaBecomes
<1>2. ASSUME NEW c \in Calls
      PROVE  /\ CallSound(call'[c], opa') /\ call'[c].op = call[c].op
             /\ OnItsWay(call'[c]) => OnItsWay(call[c])
  <2>1. call'[c] = IF call[c].pc \in {"entitle", "transact"}
                   THEN [call[c] EXCEPT !.seen = call[c].seen \cup {data}] ELSE call[c]
    BY DEF OpaBecomes
  <2>2. CallSound(call[c], opa)
    BY DEF IInv, CallsInv
  <2>3. QED
    BY <1>1, <2>1, <2>2, SeesSound
<1>3. CallsInv'
  BY <1>1, <1>2 DEF CallsInv
<1>4. StoreInv'
  <2>1. <<>> \in Seq(Approval)
    OBVIOUS
  <2>2. requests' \in Seq(Approval)
    BY <2>1 DEF IInv, StoreInv
  <2>3. QED
    BY <2>2 DEF IInv, StoreInv
<1>5. ASSUME NEW o \in Operations PROVE BackedBy(o)'
  <2>1. OnWay(o)' \subseteq OnWay(o)
    BY <1>2 DEF OnWay
  <2>2. Granted(o)' \subseteq Granted(o)
    BY DEF Granted
  <2>3. QED
    BY <2>1, <2>2, FewerBacked DEF IInv, BackedInv
<1>6. QED
  BY <1>3, <1>4, <1>5 DEF IInv, BackedInv

\* A crash takes approvals and calls with it, but not what is on its way.
LEMMA CrashKeeps ==
  ASSUME IInv, Crash
  PROVE  IInv'
<1>1. requests' = <<>> /\ UNCHANGED <<opa, now, ledger>> /\ DOMAIN call' = Calls
  BY DEF Crash, Down
<1>2. ASSUME NEW c \in Calls
      PROVE  /\ CallSound(call'[c], opa)
             /\ OnItsWay(call'[c]) => OnItsWay(call[c]) /\ call'[c].op = call[c].op
  <2> DEFINE k == call[c]
             r == [k EXCEPT !.pc = "done", !.reply = "RAISED"]
  <2>1. CallSound(k, opa)
    BY DEF IInv, CallsInv
  <2>2. CASE k.sent
    <3>1. call'[c] = r
      BY <2>2 DEF Crash
    <3>2. /\ DOMAIN r = CallFields /\ r.pc = "done" /\ r.reply = "RAISED"
          /\ r.event = k.event /\ r.op = k.op /\ r.outcome = k.outcome /\ r.sent = k.sent
          /\ r.ran = k.ran /\ r.seen = k.seen
      BY <2>1 DEF CallSound, CallFields
    <3> HIDE DEF r
    <3>3. CallSound(r, opa) /\ (OnItsWay(r) => OnItsWay(k))
      BY <2>1, <3>2 DEF CallSound, Evaluating, Cleared, Entitled, Judged, OnItsWay
    <3>4. QED
      BY <3>1, <3>2, <3>3
  <2>3. CASE ~k.sent
    <3>1. call'[c] = NoCall
      BY <2>3 DEF Crash
    <3>2. CallSound(NoCall, opa) /\ ~OnItsWay(NoCall)
      BY NoneAssumption DEF NoCall, CallSound, CallFields, Evaluating, OnItsWay
    <3>3. QED
      BY <3>1, <3>2
  <2>4. QED
    BY <2>2, <2>3
<1>3. CallsInv'
  BY <1>1, <1>2 DEF CallsInv
<1>4. StoreInv'
  <2>1. <<>> \in Seq(Approval)
    OBVIOUS
  <2>2. QED
    BY <1>1, <2>1 DEF IInv, StoreInv
<1>5. ASSUME NEW o \in Operations PROVE BackedBy(o)'
  <2>1. OnWay(o)' \subseteq OnWay(o)
    BY <1>2 DEF OnWay
  <2>2. Granted(o)' \subseteq Granted(o)
    BY <1>1 DEF Granted
  <2>3. QED
    BY <1>1, <2>1, <2>2, FewerBacked DEF IInv, BackedInv
<1>6. QED
  BY <1>3, <1>4, <1>5 DEF IInv, BackedInv

\* What concerns neither calls nor approvals nor OPA.
LEMMA OthersKeep ==
  ASSUME IInv, UNCHANGED <<opa, requests, ledger, call>>, now' \in Nat
  PROVE  IInv'
<1>1. CallsInv' /\ StoreInv'
  BY DEF IInv, CallsInv, StoreInv
<1>2. \A o \in Operations : OnWay(o)' \subseteq OnWay(o) /\ Granted(o)' \subseteq Granted(o)
  BY DEF OnWay, Granted
<1>3. \A o \in Operations : BackedBy(o)'
  BY <1>2, FewerBacked DEF IInv, BackedInv
<1>4. QED
  BY <1>1, <1>3 DEF IInv, BackedInv

(***************************************************************************)
(* Every step.                                                             *)
(***************************************************************************)

\* Every step keeps the invariant.
LEMMA NextKeeps ==
  ASSUME IInv, [Next]_vars
  PROVE  IInv'
<1>1. now \in Nat
  BY DEF IInv, StoreInv
<1>2. CASE UNCHANGED vars
  BY <1>1, <1>2, OthersKeep DEF vars, entitlement
<1>3. ASSUME NEW c \in Calls, Handle(c) \/ Respond(c) PROVE IInv'
  BY <1>3, EndsKeeps, AllowedKeeps, ApprovedKeeps, AskApprovalKeeps, ReturnKeeps,
     EntitlementAnswerKeeps, TransactionAnswerKeeps, ExchangeAnswerKeeps, DownstreamRunsKeeps,
     DownstreamRefusesKeeps
     DEF Handle, Respond
<1>4. ASSUME NEW p, Push(p) \/ PushFails(p) PROVE IInv'
  <2>1. PICK data : OpaBecomes(data)
    BY <1>4 DEF Push, PushFails
  <2>2. UNCHANGED <<now, ledger>> /\ (requests' = requests \/ requests' = <<>>)
    BY <1>4 DEF Push, PushFails, Down
  <2>3. QED
    BY <2>1, <2>2, OpaKeeps
<1>5. CASE Start \/ Reload
  BY <1>1, <1>5, OthersKeep DEF Start, Reload
<1>6. CASE OpaRestart
  BY <1>6, OpaKeeps DEF OpaRestart
<1>7. CASE Tick
  BY <1>1, <1>7, OthersKeep DEF Tick, entitlement
<1>8. QED
  BY <1>2, <1>3, <1>4, <1>5, <1>6, <1>7, ReceiveKeeps, DecisionKeeps, CrashKeeps DEF Next

\* Initially there is neither call nor approval nor grant.
LEMMA Initially == Init => IInv
<1> SUFFICES ASSUME Init PROVE IInv
  OBVIOUS
<1>1. CallSound(NoCall, opa) /\ ~OnItsWay(NoCall)
  BY NoneAssumption DEF NoCall, CallSound, CallFields, Evaluating, OnItsWay
<1>2. CallsInv
  BY <1>1 DEF Init, CallsInv
<1>3. StoreInv
  BY DEF Init, StoreInv, Entry
<1>4. ASSUME NEW o \in Operations PROVE BackedBy(o)
  <2>1. OnWay(o) = {} /\ Granted(o) = {}
    BY <1>1 DEF Init, OnWay, Granted
  <2>2. ledger[o].runs = 0 /\ ledger[o].grants = 0
    BY DEF Init
  <2>3. QED
    BY <2>1, <2>2, FS_EmptySet DEF BackedBy
<1>5. QED
  BY <1>2, <1>3, <1>4 DEF IInv, BackedInv

(***************************************************************************)
(* The theorems.                                                           *)
(***************************************************************************)

\* The invariant holds for ever.
THEOREM Invariance == Spec => []IInv
<1>1. IInv /\ [Next]_vars => IInv'
  BY NextKeeps
<1>2. QED
  BY <1>1, Initially, PTL DEF Spec

\* Nothing runs undecided: what goes downstream was answered by OPA, in both
\* steps, on data it held while the call was evaluated.
THEOREM NothingUndecided == Spec => []DecidedByPolicy
<1>1. IInv => DecidedByPolicy
  BY DEF IInv, CallsInv, CallSound, Cleared, Entitled, Judged, DecidedByPolicy
<1>2. QED
  BY <1>1, Invariance, PTL

\* A grant is worth one run at most, over crashes, expiries, lost replies and
\* any number of calls that compete for it.
THEOREM NoRunWithoutGrant == Spec => []GatedRunsBackedByGrants
<1>1. ASSUME IInv PROVE GatedRunsBackedByGrants
  <2> SUFFICES ASSUME NEW o \in Operations
               PROVE  ledger[o].runs
                        + Cardinality({c \in Calls : call[c].sent /\ Gated(c) /\ call[c].op = o})
                          <= ledger[o].grants
    BY DEF GatedRunsBackedByGrants
  <2> DEFINE S == {c \in Calls : call[c].sent /\ Gated(c) /\ call[c].op = o}
  <2>1. StoreInv /\ BackedBy(o)
    BY <1>1 DEF IInv, BackedInv
  <2>2. S \subseteq OnWay(o)
    BY DEF OnWay, OnItsWay, Gated
  <2>3. Cardinality(S) <= Cardinality(OnWay(o)) /\ Cardinality(S) \in Nat
    BY <2>1, <2>2, Finite, FS_Subset, FS_CardinalityType
  <2>4. ledger[o].runs \in Nat /\ ledger[o].grants \in Nat
    BY <2>1 DEF StoreInv, Entry
  <2> HIDE DEF S
  <2>5. ledger[o].runs + Cardinality(S) <= ledger[o].grants
    BY <2>1, <2>3, <2>4, Finite DEF BackedBy
  <2>6. QED
    BY <2>5 DEF S
<1>2. QED
  BY <1>1, Invariance, PTL

(***************************************************************************)
(* Types, part by part.                                                    *)
(***************************************************************************)

TypedCall(k) ==
    /\ k.pc \in {"idle", "entitle", "transact", "answered", "exchange", "connect", "done"}
    /\ k.op \in Operations \cup {None}
    /\ k.outcome \in {None, "DENY", "REQUIRE_APPROVAL", "ALLOW"}
    /\ k.reply \in Replies \cup {None}

TypedCalls == \A c \in Calls : TypedCall(call[c])

FromDisk(d) ==
    \A p \in DOMAIN d :
        \E v \in DOMAIN Versions : p \in DOMAIN Versions[v] /\ d[p] = Document(Versions[v][p])

TypedSync ==
    /\ gateway \in {"down", "boot", "up"}
    /\ version \in DOMAIN Versions
    /\ profiles \in {Nothing} \cup {Versions[v] : v \in DOMAIN Versions}
    /\ toPush \subseteq DOMAIN profiles
    /\ FromDisk(opa)
    /\ now \in 0..MaxTime

Record == [op : Operations, status : Statuses, expires_at : Ttl..MaxTime + Ttl]

TypedRequests == requests \in Seq(Record)

Budget == [calls : 0..MaxCalls, decisions : 0..MaxDecisions,
           syncs : 0..MaxSyncs, failures : 0..MaxFailures]

\* What is left of the decisions, and the grants of an operation.
TypedLedger ==
    /\ budget \in Budget
    /\ \A o \in Operations : ledger[o].grants + budget.decisions <= MaxDecisions

Typed == TypedCalls /\ TypedSync /\ TypedRequests /\ TypedLedger

\* One call becomes another.
LEMMA TypedOne ==
  ASSUME CallsInv, TypedCalls, NEW c \in Calls, NEW r, call' = [call EXCEPT ![c] = r], TypedCall(r)
  PROVE  TypedCalls'
<1>1. \A d \in Calls : call'[d] = IF d = c THEN r ELSE call[d]
  BY DEF CallsInv
<1>2. \A d \in Calls : TypedCall(call'[d])
  BY <1>1 DEF TypedCalls
<1>3. QED
  BY <1>2 DEF TypedCalls, TypedCall

\* A call ends.
LEMMA TypedAnswer ==
  ASSUME CallsInv, TypedCalls, NEW c \in Calls, NEW reply \in Replies, NEW event,
         Answer(c, reply, event)
  PROVE  TypedCalls'
<1> DEFINE k == call[c]
           r == [k EXCEPT !.pc = "done", !.reply = reply, !.event = event]
<1>1. DOMAIN k = CallFields /\ TypedCall(k) /\ DOMAIN call = Calls
  BY DEF CallsInv, CallSound, TypedCalls
<1>2. call' = [call EXCEPT ![c] = r]
  BY <1>1 DEF Answer
<1>3. r.pc = "done" /\ r.op = k.op /\ r.outcome = k.outcome /\ r.reply = reply
  BY <1>1 DEF CallFields
<1> HIDE DEF r
<1>4. TypedCall(r)
  BY <1>1, <1>3 DEF TypedCall
<1>5. QED
  BY <1>2, <1>4, TypedOne

\* A call goes on.
LEMMA TypedGoes ==
  ASSUME CallsInv, TypedCalls, NEW c \in Calls, Dispatch(c) \/ Connect(c)
  PROVE  TypedCalls'
<1> DEFINE k == call[c]
<1>1. DOMAIN k = CallFields /\ TypedCall(k) /\ DOMAIN call = Calls
  BY DEF CallsInv, CallSound, TypedCalls
<1>2. CASE \E reply \in Replies, event \in {None, "tool_call_denied", "backend_credential_unavailable"} :
             Answer(c, reply, event)
  BY <1>2, TypedAnswer
<1>3. CASE call' = [call EXCEPT ![c].pc = "connect", ![c].sent = TRUE]
  <2> DEFINE r == [k EXCEPT !.pc = "connect", !.sent = TRUE]
  <2>1. call' = [call EXCEPT ![c] = r] /\ r.pc = "connect" /\ r.op = k.op
        /\ r.outcome = k.outcome /\ r.reply = k.reply
    BY <1>1, <1>3 DEF CallFields
  <2> HIDE DEF r
  <2>2. TypedCall(r)
    BY <1>1, <2>1 DEF TypedCall
  <2>3. QED
    BY <2>1, <2>2, TypedOne
<1>4. CASE call' = [call EXCEPT ![c].pc = "exchange"]
  <2> DEFINE r == [k EXCEPT !.pc = "exchange"]
  <2>1. call' = [call EXCEPT ![c] = r] /\ r.pc = "exchange" /\ r.op = k.op
        /\ r.outcome = k.outcome /\ r.reply = k.reply
    BY <1>1, <1>4 DEF CallFields
  <2> HIDE DEF r
  <2>2. TypedCall(r)
    BY <1>1, <2>1 DEF TypedCall
  <2>3. QED
    BY <2>1, <2>2, TypedOne
<1>5. CASE Connect(c)
  BY <1>2, <1>3, <1>5 DEF Connect, Replies
<1>6. CASE Dispatch(c)
  <2> DEFINE tool == k.op.tool
  <2>1. CASE Unroutable(tool)
    BY <1>2, <1>6, <2>1 DEF Dispatch, Replies
  <2>2. CASE ~Unroutable(tool)
    <3>1. Mode(tool) \in {"static", "unset", "exchange"}
      BY <2>2, BackendsAssumption DEF Unroutable, Mode
    <3>2. CASE Mode(tool) = "unset"
      BY <1>2, <1>6, <2>2, <3>2 DEF Dispatch, Raise, Replies
    <3>3. CASE Mode(tool) = "static"
      <4>1. Connect(c)
        BY <1>6, <2>2, <3>3 DEF Dispatch
      <4>2. QED
        BY <1>5, <4>1
    <3>4. CASE Mode(tool) = "exchange"
      BY <1>4, <1>6, <2>2, <3>4 DEF Dispatch
    <3>5. QED
      BY <3>1, <3>2, <3>3, <3>4
  <2>3. QED
    BY <2>1, <2>2
<1>7. QED
  BY <1>5, <1>6

\* The calls keep their types.
LEMMA TypedCallsStep ==
  ASSUME CallsInv, TypedCalls, [Next]_vars
  PROVE  TypedCalls'
<1>1. CASE UNCHANGED call
  BY <1>1 DEF TypedCalls, TypedCall
<1>2. ASSUME NEW c \in Calls, NEW q \in Requests, Receive(c, q) PROVE TypedCalls'
  <2> DEFINE k == call[c]
             op == [profile |-> Registrations[q.client], tool |-> q.tool, args |-> q.args]
             r == [k EXCEPT !.pc = "entitle", !.op = op, !.seen = {opa}]
  <2>1. DOMAIN k = CallFields /\ TypedCall(k) /\ DOMAIN call = Calls
    BY DEF CallsInv, CallSound, TypedCalls
  <2>2. CASE Answer(c, "UNAUTHENTICATED", None) \/ Answer(c, "UNKNOWN_CLIENT", None)
    BY <2>2, TypedAnswer DEF Replies
  <2>3. CASE q.client \in DOMAIN Registrations
             /\ call' = [call EXCEPT ![c].pc = "entitle", ![c].op = op, ![c].seen = {opa}]
    <3>1. op \in Operations
      BY <2>3 DEF Operations
    <3>2. call' = [call EXCEPT ![c] = r]
      BY <2>1, <2>3
    <3> HIDE DEF op
    <3>3. r.pc = "entitle" /\ r.op = op /\ r.outcome = k.outcome /\ r.reply = k.reply
      BY <2>1 DEF CallFields
    <3> HIDE DEF r
    <3>4. TypedCall(r)
      BY <2>1, <3>1, <3>3 DEF TypedCall
    <3>5. QED
      BY <3>2, <3>4, TypedOne
  <2>4. QED
    BY <1>2, <2>2, <2>3 DEF Receive
<1>3. ASSUME NEW c \in Calls, EntitlementAnswer(c) PROVE TypedCalls'
  <2> DEFINE k == call[c]
             r == [k EXCEPT !.pc = "transact"]
  <2>1. DOMAIN k = CallFields /\ TypedCall(k) /\ DOMAIN call = Calls
    BY DEF CallsInv, CallSound, TypedCalls
  <2>2. CASE Answer(c, "NOT_IN_ENTITLEMENT", "tool_call_denied")
    BY <2>2, TypedAnswer DEF Replies
  <2>3. CASE call' = [call EXCEPT ![c].pc = "transact"]
    <3>1. call' = [call EXCEPT ![c] = r] /\ r.pc = "transact" /\ r.op = k.op
          /\ r.outcome = k.outcome /\ r.reply = k.reply
      BY <2>1, <2>3 DEF CallFields
    <3> HIDE DEF r
    <3>2. TypedCall(r)
      BY <2>1, <3>1 DEF TypedCall
    <3>3. QED
      BY <3>1, <3>2, TypedOne
  <2>4. QED
    BY <1>3, <2>2, <2>3 DEF EntitlementAnswer
<1>4. ASSUME NEW c \in Calls, TransactionAnswer(c) PROVE TypedCalls'
  <2> DEFINE k == call[c]
             outcome == TransactionOutcome(opa, k.op.profile, k.op.args, None)
             r == [k EXCEPT !.pc = "answered", !.outcome = outcome]
  <2>1. DOMAIN k = CallFields /\ TypedCall(k) /\ DOMAIN call = Calls
    BY DEF CallsInv, CallSound, TypedCalls
  <2>2. outcome \in {"DENY", "REQUIRE_APPROVAL", "ALLOW"}
    BY DEF TransactionOutcome
  <2>3. call' = [call EXCEPT ![c] = r]
    BY <1>4, <2>1 DEF TransactionAnswer
  <2> HIDE DEF outcome
  <2>4. r.pc = "answered" /\ r.op = k.op /\ r.outcome = outcome /\ r.reply = k.reply
    BY <2>1 DEF CallFields
  <2> HIDE DEF r
  <2>5. TypedCall(r)
    BY <2>1, <2>2, <2>4 DEF TypedCall
  <2>6. QED
    BY <2>3, <2>5, TypedOne
<1>5. ASSUME NEW c \in Calls, \E reply \in Replies : \E event : Answer(c, reply, event) PROVE TypedCalls'
  BY <1>5, TypedAnswer
<1>6. ASSUME NEW c \in Calls, DownstreamRuns(c) PROVE TypedCalls'
  <2> DEFINE k == call[c]
             r == [k EXCEPT !.sent = FALSE, !.ran = TRUE]
  <2>1. DOMAIN k = CallFields /\ TypedCall(k) /\ DOMAIN call = Calls
    BY DEF CallsInv, CallSound, TypedCalls
  <2>2. call' = [call EXCEPT ![c] = r]
    BY <1>6, <2>1 DEF DownstreamRuns
  <2>3. r.pc = k.pc /\ r.op = k.op /\ r.outcome = k.outcome /\ r.reply = k.reply
    BY <2>1 DEF CallFields
  <2> HIDE DEF r
  <2>4. TypedCall(r)
    BY <2>1, <2>3 DEF TypedCall
  <2>5. QED
    BY <2>2, <2>4, TypedOne
<1>7. TypedCall(NoCall)
  BY DEF TypedCall, NoCall
<1>7a. ASSUME NEW c \in Calls, DownstreamRefuses(c) PROVE TypedCalls'
  <2> DEFINE k == call[c]
             r == [k EXCEPT !.sent = FALSE]
  <2>1. DOMAIN k = CallFields /\ TypedCall(k) /\ DOMAIN call = Calls
    BY DEF CallsInv, CallSound, TypedCalls
  <2>2. call' = [call EXCEPT ![c] = r]
    BY <1>7a, <2>1 DEF DownstreamRefuses
  <2>3. r.pc = k.pc /\ r.op = k.op /\ r.outcome = k.outcome /\ r.reply = k.reply
    BY <2>1 DEF CallFields
  <2> HIDE DEF r
  <2>4. TypedCall(r)
    BY <2>1, <2>3 DEF TypedCall
  <2>5. QED
    BY <2>2, <2>4, TypedOne
<1>8. ASSUME NEW c \in Calls, Return(c) PROVE TypedCalls'
  BY <1>7, <1>8, TypedOne DEF Return
<1>9. ASSUME NEW data, OpaBecomes(data) PROVE TypedCalls'
  <2>1. ASSUME NEW c \in Calls PROVE TypedCall(call'[c])
    <3> DEFINE k == call[c]
               r == [k EXCEPT !.seen = k.seen \cup {data}]
    <3>1. DOMAIN k = CallFields /\ TypedCall(k)
      BY DEF CallsInv, CallSound, TypedCalls
    <3>2. call'[c] = r \/ call'[c] = k
      BY <1>9 DEF OpaBecomes
    <3>3. r.pc = k.pc /\ r.op = k.op /\ r.outcome = k.outcome /\ r.reply = k.reply
      BY <3>1 DEF CallFields
    <3> HIDE DEF r
    <3>4. QED
      BY <3>1, <3>2, <3>3 DEF TypedCall
  <2>2. QED
    BY <2>1 DEF TypedCalls, TypedCall
<1>10. CASE Crash
  <2>1. ASSUME NEW c \in Calls PROVE TypedCall(call'[c])
    <3> DEFINE k == call[c]
               r == [k EXCEPT !.pc = "done", !.reply = "RAISED"]
    <3>1. DOMAIN k = CallFields /\ TypedCall(k)
      BY DEF CallsInv, CallSound, TypedCalls
    <3>2. call'[c] = r \/ call'[c] = NoCall
      BY <1>10 DEF Crash
    <3>3. r.pc = "done" /\ r.op = k.op /\ r.outcome = k.outcome /\ r.reply = "RAISED"
      BY <3>1 DEF CallFields
    <3> HIDE DEF r
    <3>4. TypedCall(r)
      BY <3>1, <3>3 DEF TypedCall, Replies
    <3>5. QED
      BY <1>7, <3>2, <3>4
  <2>2. QED
    BY <2>1 DEF TypedCalls, TypedCall
<1>11. ASSUME NEW c \in Calls, Handle(c) PROVE TypedCalls'
  <2>1. CASE Allowed(c) \/ Approved(c)
    BY <2>1, TypedGoes DEF Allowed, Approved
  <2>2. CASE PdpUnavailable(c) \/ Denied(c) \/ AskApproval(c) \/ ExchangeFails(c)
    <3>1. \E reply \in Replies : \E event : Answer(c, reply, event)
      BY <2>2 DEF PdpUnavailable, Denied, AskApproval, ExchangeFails, Raise, Replies
    <3>2. QED
      BY <1>5, <3>1
  <2>3. QED
    BY <1>8, <1>11, <2>1, <2>2 DEF Handle
<1>12. ASSUME NEW c \in Calls, Respond(c) PROVE TypedCalls'
  <2>1. CASE ExchangeAnswer(c)
    BY <2>1, TypedGoes DEF ExchangeAnswer
  <2>2. CASE PdpGarbled(c) \/ DownstreamReturns(c) \/ DownstreamFails(c)
    <3>1. \E reply \in Replies : \E event : Answer(c, reply, event)
      BY <2>2 DEF PdpGarbled, DownstreamReturns, DownstreamFails, DownstreamError, Raise, Replies
    <3>2. QED
      BY <1>5, <3>1
  <2>3. QED
    BY <1>3, <1>4, <1>6, <1>12, <1>7a, <2>1, <2>2 DEF Respond
<1>13. (\E p \in toPush : Push(p) \/ PushFails(p)) \/ OpaRestart => \E data : OpaBecomes(data)
  BY DEF Push, PushFails, OpaRestart
<1>14. (\E i \in DOMAIN requests : Grant(i) \/ Deny(i)) \/ Start \/ Reload \/ Tick \/ UNCHANGED vars
         => UNCHANGED call
  BY DEF Grant, Deny, Start, Reload, Tick, vars
<1>15. QED
  BY <1>1, <1>2, <1>9, <1>10, <1>11, <1>12, <1>13, <1>14 DEF Next

\* OPA and the Gateway keep what is on the disk.
LEMMA TypedSyncStep ==
  ASSUME TypedSync, [Next]_vars
  PROVE  TypedSync'
<1>1. CASE UNCHANGED <<gateway, entitlement, now>>
  BY <1>1 DEF TypedSync, FromDisk, entitlement
<1>2. ASSUME NEW v \in version..Len(Versions), LoadProfiles(v), UNCHANGED <<opa, now>>,
             gateway' \in {"down", "boot", "up"}
      PROVE  TypedSync'
  <2>1. v \in DOMAIN Versions
    BY <1>2, VersionsAssumption DEF TypedSync
  <2>2. QED
    BY <1>2, <2>1 DEF TypedSync, FromDisk, LoadProfiles
<1>3. CASE Start \/ Reload
  BY <1>2, <1>3 DEF Start, Reload, TypedSync
<1>4. ASSUME NEW p \in toPush PROVE FromDisk(Pushed(p))
  <2>1. PICK v \in DOMAIN Versions : profiles = Versions[v]
    BY <1>4 DEF TypedSync, Nothing
  <2>2. p \in DOMAIN Versions[v] /\ Document(profiles[p]) = Document(Versions[v][p])
    BY <1>4, <2>1 DEF TypedSync
  <2>3. /\ DOMAIN Pushed(p) = DOMAIN opa \cup {p}
        /\ Pushed(p)[p] = Document(profiles[p])
        /\ \A q \in DOMAIN opa \ {p} : Pushed(p)[q] = opa[q]
    BY DEF Pushed
  <2>4. QED
    BY <2>2, <2>3 DEF TypedSync, FromDisk
<1>5. ASSUME NEW p \in toPush, Push(p) PROVE TypedSync'
  <2>1. opa' = Pushed(p)
    BY <1>5 DEF Push, OpaBecomes
  <2>2. FromDisk(opa')
    BY <1>4, <2>1
  <2>3. QED
    BY <1>5, <2>2 DEF Push, TypedSync, FromDisk
<1>6. ASSUME NEW p \in toPush, PushFails(p) PROVE TypedSync'
  <2>1. opa' = opa \/ opa' = Pushed(p)
    BY <1>6 DEF PushFails, OpaBecomes
  <2>2. FromDisk(opa')
    BY <1>4, <2>1 DEF TypedSync
  <2>3. QED
    BY <1>6, <2>2 DEF PushFails, Down, TypedSync, FromDisk
<1>7. CASE Crash
  BY <1>7 DEF Crash, Down, TypedSync, FromDisk
<1>8. CASE OpaRestart
  BY <1>8 DEF OpaRestart, OpaBecomes, TypedSync, FromDisk, Nothing
<1>9. CASE Tick
  BY <1>9, BoundsAssumption DEF Tick, TypedSync, FromDisk, entitlement
<1>10. ASSUME NEW c \in Calls, Handle(c) \/ Respond(c) PROVE UNCHANGED <<gateway, entitlement, now>>
  BY <1>10 DEF Handle, PdpUnavailable, Denied, Allowed, Approved, AskApproval, ExchangeFails,
     DownstreamFails, Return, Respond, EntitlementAnswer, TransactionAnswer, PdpGarbled,
     ExchangeAnswer, DownstreamRuns, DownstreamRefuses, DownstreamReturns
<1>11. QED
  BY <1>1, <1>3, <1>5, <1>6, <1>7, <1>8, <1>9, <1>10 DEF Next, Receive, Grant, Deny, vars

\* An approval keeps its operation and its expiry.
LEMMA TypedStatus ==
  ASSUME TypedRequests, NEW i \in DOMAIN requests, NEW s \in Statuses
  PROVE  WithStatus(requests, i, s) \in Seq(Record)
<1> DEFINE a == [requests[i] EXCEPT !.status = s]
<1>1. requests \in Seq(Record) /\ requests[i] \in Record
  BY DEF TypedRequests
<1>2. a \in Record
  BY <1>1 DEF Record
<1> HIDE DEF a
<1>3. [requests EXCEPT ![i] = a] \in Seq(Record)
  BY <1>1, <1>2
<1>4. QED
  BY <1>3 DEF WithStatus, a

\* The approvals keep their types.
LEMMA TypedRequestsStep ==
  ASSUME CallsInv, TypedSync, TypedRequests, [Next]_vars
  PROVE  TypedRequests'
<1>1. CASE UNCHANGED requests \/ requests' = <<>>
  <2>1. <<>> \in Seq(Record)
    OBVIOUS
  <2>2. QED
    BY <1>1, <2>1 DEF TypedRequests
<1>2. ASSUME NEW i \in DOMAIN requests, NEW s \in Statuses, requests' = WithStatus(requests, i, s)
      PROVE  TypedRequests'
  BY <1>2, TypedStatus DEF TypedRequests
<1>3. ASSUME NEW c \in Calls, Approved(c) PROVE TypedRequests'
  BY <1>2, <1>3 DEF Approved, SpendApproval, Statuses
<1>4. ASSUME NEW i \in DOMAIN requests, Grant(i) \/ Deny(i) PROVE TypedRequests'
  BY <1>2, <1>4 DEF Grant, Deny, Statuses
<1>5. ASSUME NEW c \in Calls, AskApproval(c) PROVE TypedRequests'
  <2> DEFINE a == NewRequest(call[c].op, now, Ttl)
  <2>1. call[c].op \in Operations
    BY <1>5 DEF AskApproval, CallsInv, CallSound
  <2>2. a \in Record
    <3>1. now + Ttl \in Ttl..MaxTime + Ttl
      BY TtlAssumption, BoundsAssumption DEF TypedSync
    <3>2. QED
      BY <2>1, <3>1 DEF NewRequest, Record, Statuses
  <2>3. requests' = requests \/ requests' = Append(requests, a)
    BY <1>5 DEF AskApproval
  <2> HIDE DEF a
  <2>4. QED
    BY <2>2, <2>3 DEF TypedRequests
<1>6. ASSUME NEW c \in Calls, Handle(c) \/ Respond(c), ~Approved(c), ~AskApproval(c)
      PROVE  UNCHANGED requests
  BY <1>6 DEF Handle, PdpUnavailable, Denied, Allowed, ExchangeFails, DownstreamFails, Return,
     Respond, EntitlementAnswer, TransactionAnswer, PdpGarbled, ExchangeAnswer, DownstreamRuns,
     DownstreamRefuses, DownstreamReturns
<1>7. (\E p \in toPush : Push(p) \/ PushFails(p)) \/ Start \/ Reload \/ Crash \/ OpaRestart \/ Tick
         \/ UNCHANGED vars => UNCHANGED requests \/ requests' = <<>>
  BY DEF Push, PushFails, Start, Reload, Crash, Down, OpaRestart, Tick, vars
<1>8. QED
  BY <1>1, <1>3, <1>4, <1>5, <1>6, <1>7 DEF Next, Receive

\* A decision is used up by each grant.
LEMMA TypedLedgerStep ==
  ASSUME StoreInv, TypedRequests, TypedLedger, [Next]_vars
  PROVE  TypedLedger'
<1> USE BoundsAssumption
<1>1. CASE UNCHANGED <<budget, ledger>>
  BY <1>1 DEF TypedLedger
<1>2. ASSUME NEW c \in Calls, NEW q \in Requests, Receive(c, q) PROVE TypedLedger'
  BY <1>2 DEF Receive, TypedLedger, Budget
<1>3. ASSUME NEW c \in Calls, DownstreamRuns(c) PROVE TypedLedger'
  <2> DEFINE o == call[c].op
             e == [ledger[o] EXCEPT !.runs = @ + 1]
  <2>1. UNCHANGED budget /\ (ledger' = ledger \/ ledger' = [ledger EXCEPT ![o] = e])
    BY <1>3 DEF DownstreamRuns
  <2>2. ASSUME NEW p \in Operations PROVE ledger'[p].grants = ledger[p].grants
    <3>1. ledger[p] \in Entry /\ DOMAIN ledger = Operations
      BY DEF StoreInv
    <3>2. o = p => e.grants = ledger[p].grants
      BY <3>1 DEF Entry
    <3> HIDE DEF e, o
    <3>3. QED
      BY <2>1, <3>1, <3>2
  <2>3. QED
    BY <2>1, <2>2 DEF TypedLedger
<1>4. ASSUME NEW i \in DOMAIN requests, Grant(i) PROVE TypedLedger'
  <2> DEFINE o == requests[i].op
             e == [ledger[o] EXCEPT !.grants = @ + 1]
  <2>1. /\ ledger' = [ledger EXCEPT ![o] = e]
        /\ budget.decisions > 0 /\ budget' = [budget EXCEPT !.decisions = @ - 1]
    BY <1>4 DEF Grant
  <2>2. budget' \in Budget /\ budget'.decisions = budget.decisions - 1 /\ budget.decisions \in Nat
    BY <2>1 DEF TypedLedger, Budget
  <2>3. ASSUME NEW p \in Operations
        PROVE  ledger'[p].grants <= ledger[p].grants + 1 /\ ledger'[p].grants \in Nat
               /\ ledger[p].grants \in Nat
    <3>1. ledger[p] \in Entry /\ DOMAIN ledger = Operations
      BY DEF StoreInv
    <3>2. o = p => e.grants = ledger[p].grants + 1
      BY <3>1 DEF Entry
    <3>3. ledger[p].grants \in Nat
      BY <3>1 DEF Entry
    <3> HIDE DEF e, o
    <3>4. QED
      BY <2>1, <3>1, <3>2, <3>3
  <2>4. QED
    BY <2>2, <2>3 DEF TypedLedger
<1>5. ASSUME NEW i \in DOMAIN requests, Deny(i) PROVE TypedLedger'
  <2>1. /\ UNCHANGED ledger
        /\ budget.decisions > 0 /\ budget' = [budget EXCEPT !.decisions = @ - 1]
    BY <1>5 DEF Deny
  <2>2. budget' \in Budget /\ budget'.decisions = budget.decisions - 1 /\ budget.decisions \in Nat
    BY <2>1 DEF TypedLedger, Budget
  <2>3. \A p \in Operations : ledger[p].grants \in Nat
    BY DEF StoreInv, Entry
  <2>4. QED
    BY <2>1, <2>2, <2>3 DEF TypedLedger
<1>6. CASE Start \/ Reload
  BY <1>6 DEF Start, Reload, LoadProfiles, TypedLedger, Budget
<1>7. CASE Crash \/ OpaRestart
  <2>1. /\ UNCHANGED ledger
        /\ budget.failures > 0 /\ budget' = [budget EXCEPT !.failures = @ - 1]
    BY <1>7 DEF Crash, OpaRestart, Down
  <2>2. budget' \in Budget /\ budget'.decisions = budget.decisions
    BY <2>1 DEF TypedLedger, Budget
  <2>3. QED
    BY <2>1, <2>2 DEF TypedLedger
<1>8. ASSUME NEW p \in toPush, PushFails(p) PROVE TypedLedger'
  BY <1>1, <1>8 DEF PushFails, Down, TypedLedger, Budget
<1>9. ASSUME NEW c \in Calls, Handle(c) \/ Respond(c), ~DownstreamRuns(c)
      PROVE  UNCHANGED <<budget, ledger>>
  BY <1>9 DEF Handle, PdpUnavailable, Denied, Allowed, Approved, AskApproval, ExchangeFails,
     DownstreamFails, Return, Respond, EntitlementAnswer, TransactionAnswer, PdpGarbled,
     ExchangeAnswer, DownstreamRefuses, DownstreamReturns
<1>10. QED
  BY <1>1, <1>2, <1>3, <1>4, <1>5, <1>6, <1>7, <1>8, <1>9 DEF Next, Push, Tick, vars

\* Everything of the Gateway keeps its type; no operation is granted more often
\* than approvers decide, nor run more often.
THEOREM TypeCorrect == Spec => []TypeOK
<1>1. Init => Typed
  <2> SUFFICES ASSUME Init PROVE Typed
    OBVIOUS
  <2>1. TypedCalls
    BY DEF Init, TypedCalls, TypedCall, NoCall
  <2>2. TypedSync
    BY VersionsAssumption, BoundsAssumption DEF Init, TypedSync, FromDisk, Nothing
  <2>3. TypedRequests
    BY DEF Init, TypedRequests
  <2>4. TypedLedger
    BY BoundsAssumption DEF Init, TypedLedger, Budget
  <2>5. QED
    BY <2>1, <2>2, <2>3, <2>4 DEF Typed
<1>2. IInv /\ Typed /\ [Next]_vars => Typed'
  BY TypedCallsStep, TypedSyncStep, TypedRequestsStep, TypedLedgerStep DEF Typed, IInv
<1>3. ASSUME IInv, Typed PROVE TypeOK
  <2>1. ASSUME NEW o \in Operations
        PROVE  ledger[o].grants \in 0..MaxDecisions /\ ledger[o].runs \in 0..MaxDecisions
    <3>1. StoreInv /\ BackedBy(o)
      BY <1>3 DEF IInv, BackedInv
    <3>2. ledger[o].runs \in Nat /\ ledger[o].grants \in Nat
      BY <3>1 DEF StoreInv, Entry
    <3>3. ledger[o].runs <= ledger[o].grants
      BY <3>1, <3>2, Finite DEF BackedBy
    <3>4. ledger[o].grants + budget.decisions <= MaxDecisions /\ budget.decisions \in Nat
      BY <1>3 DEF Typed, TypedLedger, Budget
    <3>5. QED
      BY <3>2, <3>3, <3>4, BoundsAssumption
  <2>2. ledger \in [Operations -> [grants : 0..MaxDecisions, runs : 0..MaxDecisions]]
    <3>1. ledger \in [Operations -> Entry]
      BY <1>3 DEF IInv, StoreInv
    <3>2. ASSUME NEW o \in Operations
          PROVE  ledger[o] \in [grants : 0..MaxDecisions, runs : 0..MaxDecisions]
      <4>1. ledger[o] \in Entry
        BY <3>1
      <4>2. QED
        BY <2>1, <4>1 DEF Entry
    <3>3. QED
      BY <3>1, <3>2
  <2>3. \A i \in DOMAIN requests : requests[i] \in Record
    BY <1>3 DEF Typed, TypedRequests
  <2>4. \A c \in Calls : TypedCall(call[c])
    BY <1>3 DEF Typed, TypedCalls
  <2>5. TypedSync /\ budget \in Budget
    BY <1>3 DEF Typed, TypedLedger
  <2>6. QED
    BY <2>2, <2>3, <2>4, <2>5 DEF TypeOK, TypedSync, FromDisk, TypedCall, Record, Budget
<1>4. QED
  BY <1>1, <1>2, <1>3, Invariance, PTL DEF Spec

(***************************************************************************)
(* The course of a call: from one await to the next and to its end, with   *)
(* one reply and what the audit sink got with it.                          *)
(***************************************************************************)

\* Every way in which a call ends.
Reports ==
    {<<"RESULT", "tool_call_allowed">>, <<"RAISED", None>>, <<"UNAUTHENTICATED", None>>,
     <<"UNKNOWN_CLIENT", None>>, <<"PDP_UNAVAILABLE", "pdp_unavailable">>,
     <<"NOT_IN_ENTITLEMENT", "tool_call_denied">>,
     <<"TRANSACTION_POLICY_DENIED", "tool_call_denied">>,
     <<"REQUIRE_APPROVAL", "tool_call_require_approval">>,
     <<"UNROUTABLE_CAPABILITY", "tool_call_denied">>,
     <<"UNSUPPORTED_BACKEND_TYPE", "backend_credential_unavailable">>}

\* How many awaits are left at most.
Left == [idle |-> 0, done |-> 1, connect |-> 2, exchange |-> 3, answered |-> 4, transact |-> 5,
         entitle |-> 6]

\* A call that has ended was reported in one of these ways; one that is sent has not run.
Told(k) ==
    /\ k.pc \in DOMAIN Left
    /\ k.pc # "done" => k.reply = None /\ k.event = None
    /\ k.pc = "done" => <<k.reply, k.event>> \in Reports
    /\ k.sent => ~k.ran /\ k.pc \in {"connect", "done"}
    /\ k.reply = "RESULT" => ~k.sent

ToldInv == \A c \in Calls : Told(call[c])

\* A call under way comes nearer to its end, or an answer downstream is on its way.
GoesOn(r, k) == k.pc # "idle" => r.pc = k.pc \/ Left[r.pc] < Left[k.pc]

\* A call that needed an approval is let go.
LetGo(r, k) ==
    k.pc = "answered" /\ k.outcome = "REQUIRE_APPROVAL" /\ r.pc \in {"exchange", "connect"}

\* Otherwise it owes no more than it did.
OwesNoMore(r, k) == OnItsWay(r) => r.op = k.op /\ (OnItsWay(k) \/ LetGo(r, k))

Follows(r, k) == Told(r) /\ GoesOn(r, k) /\ OwesNoMore(r, k)

\* A call that ends tells how.
LEMMA AnswerFollows ==
  ASSUME CallsInv, ToldInv, NEW c \in Calls, NEW reply, NEW event, Answer(c, reply, event),
         call[c].pc # "done", <<reply, event>> \in Reports, reply = "RESULT" => ~call[c].sent
  PROVE  \E r : call' = [call EXCEPT ![c] = r] /\ Follows(r, call[c])
<1> DEFINE k == call[c]
           r == [k EXCEPT !.pc = "done", !.reply = reply, !.event = event]
<1>1. call' = [call EXCEPT ![c] = r]
  BY DEF Answer, CallsInv
<1>2. DOMAIN k = CallFields /\ Told(k)
  BY DEF CallsInv, CallSound, ToldInv
<1>3. /\ r.pc = "done" /\ r.reply = reply /\ r.event = event /\ r.op = k.op
      /\ r.outcome = k.outcome /\ r.sent = k.sent /\ r.ran = k.ran
  BY <1>2 DEF CallFields
<1> HIDE DEF r
<1>4. Told(r)
  BY <1>2, <1>3 DEF Told, Left
<1>5. GoesOn(r, k)
  BY <1>2, <1>3 DEF Told, GoesOn, Left
<1>6. OwesNoMore(r, k)
  BY <1>3 DEF OwesNoMore, OnItsWay
<1>7. QED
  BY <1>1, <1>4, <1>5, <1>6 DEF Follows

\* A call that goes on has no reply yet.
LEMMA MoveFollows ==
  ASSUME NEW k, NEW r, Told(k), k.pc # "done", r.pc \in DOMAIN Left \ {"done"},
         r.reply = k.reply, r.event = k.event, r.ran = k.ran,
         r.sent => ~k.ran /\ r.pc = "connect", k.pc # "idle" => Left[r.pc] < Left[k.pc],
         OwesNoMore(r, k)
  PROVE  Follows(r, k)
BY NoneAssumption DEF Follows, Told, GoesOn

\* A client that is nobody, or unknown, is answered at once; the others wait for OPA.
LEMMA ReceiveFollows ==
  ASSUME CallsInv, ToldInv, NEW c \in Calls, NEW q \in Requests, Receive(c, q)
  PROVE  \E r : call' = [call EXCEPT ![c] = r] /\ Follows(r, call[c])
<1> DEFINE k == call[c]
           op == [profile |-> Registrations[q.client], tool |-> q.tool, args |-> q.args]
           r == [k EXCEPT !.pc = "entitle", !.op = op, !.seen = {opa}]
<1>1. /\ DOMAIN k = CallFields /\ CallSound(k, opa) /\ Told(k) /\ k.pc = "idle"
      /\ ~k.sent /\ ~k.ran
  BY DEF CallsInv, CallSound, ToldInv, Receive
<1>2. CASE Answer(c, "UNAUTHENTICATED", None) \/ Answer(c, "UNKNOWN_CLIENT", None)
  BY <1>1, <1>2, AnswerFollows DEF Reports
<1>3. CASE call' = [call EXCEPT ![c].pc = "entitle", ![c].op = op, ![c].seen = {opa}]
  <2>1. call' = [call EXCEPT ![c] = r]
    BY <1>3 DEF CallsInv
  <2> HIDE DEF op
  <2>2. /\ r.pc = "entitle" /\ r.reply = k.reply /\ r.event = k.event /\ r.ran = k.ran
        /\ r.sent = k.sent
    BY <1>1 DEF CallFields
  <2> HIDE DEF r
  <2>3. Follows(r, k)
    BY <1>1, <2>2, MoveFollows DEF Left, OwesNoMore, OnItsWay
  <2>4. QED
    BY <2>1, <2>3
<1>4. QED
  BY <1>2, <1>3 DEF Receive

\* OPA's answers.
LEMMA OpaAnswerFollows ==
  ASSUME CallsInv, ToldInv, NEW c \in Calls, EntitlementAnswer(c) \/ TransactionAnswer(c)
  PROVE  \E r : call' = [call EXCEPT ![c] = r] /\ Follows(r, call[c])
<1> DEFINE k == call[c]
           q == [k EXCEPT !.pc = "transact"]
           outcome == TransactionOutcome(opa, k.op.profile, k.op.args, None)
           r == [k EXCEPT !.pc = "answered", !.outcome = outcome]
<1>1. /\ DOMAIN k = CallFields /\ CallSound(k, opa) /\ Told(k) /\ k.pc \in {"entitle", "transact"}
      /\ ~k.sent /\ ~k.ran
  BY DEF CallsInv, CallSound, ToldInv, EntitlementAnswer, TransactionAnswer, Evaluating
<1>2. CASE Answer(c, "NOT_IN_ENTITLEMENT", "tool_call_denied")
  BY <1>1, <1>2, AnswerFollows DEF Reports
<1>3. CASE k.pc = "entitle" /\ call' = [call EXCEPT ![c].pc = "transact"]
  <2>1. call' = [call EXCEPT ![c] = q]
    BY <1>3 DEF CallsInv
  <2>2. /\ q.pc = "transact" /\ q.reply = k.reply /\ q.event = k.event /\ q.ran = k.ran
        /\ q.sent = k.sent
    BY <1>1 DEF CallFields
  <2> HIDE DEF q
  <2>3. Follows(q, k)
    BY <1>1, <1>3, <2>2, MoveFollows DEF Left, OwesNoMore, OnItsWay
  <2>4. QED
    BY <2>1, <2>3
<1>4. CASE k.pc = "transact" /\ call' = [call EXCEPT ![c].pc = "answered", ![c].outcome = outcome]
  <2>1. call' = [call EXCEPT ![c] = r]
    BY <1>4 DEF CallsInv
  <2> HIDE DEF outcome
  <2>2. /\ r.pc = "answered" /\ r.reply = k.reply /\ r.event = k.event /\ r.ran = k.ran
        /\ r.sent = k.sent
    BY <1>1 DEF CallFields
  <2> HIDE DEF r
  <2>3. Follows(r, k)
    BY <1>1, <1>4, <2>2, MoveFollows DEF Left, OwesNoMore, OnItsWay
  <2>4. QED
    BY <2>1, <2>3
<1>5. QED
  BY <1>2, <1>3, <1>4 DEF EntitlementAnswer, TransactionAnswer

\* A route, a credential.
LEMMA DispatchFollows ==
  ASSUME CallsInv, ToldInv, NEW c \in Calls, call[c].pc \in {"answered", "exchange"},
         Connect(c) \/ (Dispatch(c) /\ call[c].pc = "answered")
  PROVE  \E r : call' = [call EXCEPT ![c] = r] /\ Follows(r, call[c])
<1> DEFINE k == call[c]
           sent == [k EXCEPT !.pc = "connect", !.sent = TRUE]
           exch == [k EXCEPT !.pc = "exchange"]
<1>1. /\ DOMAIN k = CallFields /\ Told(k) /\ ~k.sent /\ ~k.ran
  BY DEF CallsInv, CallSound, ToldInv
<1>2. CASE \E reply, event : /\ <<reply, event>> \in Reports \ {<<"RESULT", "tool_call_allowed">>}
                             /\ Answer(c, reply, event)
  <2>1. PICK reply, event : /\ <<reply, event>> \in Reports \ {<<"RESULT", "tool_call_allowed">>}
                            /\ Answer(c, reply, event)
    BY <1>2
  <2>2. reply # "RESULT"
    BY <2>1 DEF Reports
  <2>3. QED
    BY <2>1, <2>2, AnswerFollows
<1>3. CASE call' = [call EXCEPT ![c].pc = "connect", ![c].sent = TRUE]
  <2>1. call' = [call EXCEPT ![c] = sent]
    BY <1>3 DEF CallsInv
  <2>2. /\ sent.pc = "connect" /\ sent.reply = k.reply /\ sent.event = k.event
        /\ sent.ran = k.ran /\ sent.op = k.op /\ sent.outcome = k.outcome
    BY <1>1 DEF CallFields
  <2> HIDE DEF sent
  <2>3. OwesNoMore(sent, k)
    BY <1>1, <2>2 DEF OwesNoMore, OnItsWay, LetGo
  <2>4. Follows(sent, k)
    BY <1>1, <2>2, <2>3, MoveFollows DEF Left
  <2>5. QED
    BY <2>1, <2>4
<1>4. CASE k.pc = "answered" /\ call' = [call EXCEPT ![c].pc = "exchange"]
  <2>1. call' = [call EXCEPT ![c] = exch]
    BY <1>4 DEF CallsInv
  <2>2. /\ exch.pc = "exchange" /\ exch.reply = k.reply /\ exch.event = k.event
        /\ exch.ran = k.ran /\ exch.sent = k.sent /\ exch.op = k.op /\ exch.outcome = k.outcome
    BY <1>1 DEF CallFields
  <2> HIDE DEF exch
  <2>3. Follows(exch, k)
    BY <1>1, <1>4, <2>2, MoveFollows DEF Left, OwesNoMore, OnItsWay, LetGo
  <2>4. QED
    BY <2>1, <2>3
<1>5. CASE Connect(c)
  <2>1. CASE Answer(c, "UNSUPPORTED_BACKEND_TYPE", "backend_credential_unavailable")
    BY <1>2, <2>1 DEF Reports
  <2>2. QED
    BY <1>3, <1>5, <2>1 DEF Connect
<1>6. CASE Dispatch(c) /\ k.pc = "answered"
  <2> DEFINE tool == k.op.tool
  <2>1. CASE Unroutable(tool)
    <3>1. Answer(c, "UNROUTABLE_CAPABILITY", "tool_call_denied")
      BY <1>6, <2>1 DEF Dispatch
    <3>2. QED
      BY <1>2, <3>1 DEF Reports
  <2>2. CASE ~Unroutable(tool)
    <3>1. Mode(tool) \in {"static", "unset", "exchange"}
      BY <2>2, BackendsAssumption DEF Unroutable, Mode
    <3>2. CASE Mode(tool) = "unset"
      <4>1. Answer(c, "RAISED", None)
        BY <1>6, <2>2, <3>2 DEF Dispatch, Raise
      <4>2. QED
        BY <1>2, <4>1 DEF Reports
    <3>3. CASE Mode(tool) = "static"
      <4>1. Connect(c)
        BY <1>6, <2>2, <3>3 DEF Dispatch
      <4>2. QED
        BY <1>5, <4>1
    <3>4. CASE Mode(tool) = "exchange"
      BY <1>4, <1>6, <2>2, <3>4 DEF Dispatch
    <3>5. QED
      BY <3>1, <3>2, <3>3, <3>4
  <2>3. QED
    BY <2>1, <2>2
<1>7. QED
  BY <1>5, <1>6

\* A call that is over without having been sent, or after.
LEMMA EndFollows ==
  ASSUME CallsInv, ToldInv, NEW c \in Calls,
         PdpUnavailable(c) \/ PdpGarbled(c) \/ Denied(c) \/ AskApproval(c) \/ ExchangeFails(c)
             \/ DownstreamReturns(c) \/ DownstreamFails(c)
  PROVE  \E r : call' = [call EXCEPT ![c] = r] /\ Follows(r, call[c])
<1>1. PICK reply, event : /\ Answer(c, reply, event) /\ <<reply, event>> \in Reports
                          /\ reply = "RESULT" => ~call[c].sent
  BY DEF PdpUnavailable, PdpGarbled, Denied, AskApproval, ExchangeFails, DownstreamReturns,
     DownstreamFails, DownstreamError, Raise, Reports
<1>2. call[c].pc # "done"
  BY DEF PdpUnavailable, PdpGarbled, Denied, AskApproval, ExchangeFails, DownstreamReturns,
     DownstreamFails
<1>3. QED
  BY <1>1, <1>2, AnswerFollows

\* A backend that runs a call leaves it where it was; it owes nothing any more.
LEMMA RunFollows ==
  ASSUME CallsInv, ToldInv, NEW c \in Calls, DownstreamRuns(c)
  PROVE  \E r : call' = [call EXCEPT ![c] = r] /\ Follows(r, call[c]) /\ ~OnItsWay(r)
<1> DEFINE k == call[c]
           r == [k EXCEPT !.sent = FALSE, !.ran = TRUE]
<1>1. DOMAIN k = CallFields /\ Told(k) /\ k.sent /\ call' = [call EXCEPT ![c] = r]
  BY DEF CallsInv, CallSound, ToldInv, DownstreamRuns
<1>2. /\ r.pc = k.pc /\ r.reply = k.reply /\ r.event = k.event /\ r.sent = FALSE /\ r.ran = TRUE
  BY <1>1 DEF CallFields
<1> HIDE DEF r
<1>3. Follows(r, k) /\ ~OnItsWay(r)
  BY <1>1, <1>2 DEF Follows, Told, GoesOn, OwesNoMore, OnItsWay
<1>4. QED
  BY <1>1, <1>3

\* Nor does a call that a backend refuses.
LEMMA RefuseFollows ==
  ASSUME CallsInv, ToldInv, NEW c \in Calls, DownstreamRefuses(c)
  PROVE  \E r : call' = [call EXCEPT ![c] = r] /\ Follows(r, call[c])
<1> DEFINE k == call[c]
           r == [k EXCEPT !.sent = FALSE]
<1>1. DOMAIN k = CallFields /\ Told(k) /\ k.sent /\ call' = [call EXCEPT ![c] = r]
  BY DEF CallsInv, CallSound, ToldInv, DownstreamRefuses
<1>2. r.pc = k.pc /\ r.reply = k.reply /\ r.event = k.event /\ r.sent = FALSE
  BY <1>1 DEF CallFields
<1>3. r.pc # "exchange"
  BY <1>1, <1>2 DEF Told
<1> HIDE DEF r
<1>4. Follows(r, k)
  BY <1>1, <1>2, <1>3 DEF Follows, Told, GoesOn, OwesNoMore, OnItsWay
<1>5. QED
  BY <1>1, <1>4

\* A slot is free again.
LEMMA ReturnFollows ==
  ASSUME ToldInv, NEW c \in Calls, Return(c)
  PROVE  \E r : call' = [call EXCEPT ![c] = r] /\ Follows(r, call[c])
<1>1. call' = [call EXCEPT ![c] = NoCall] /\ call[c].pc = "done"
  BY DEF Return
<1>2. Follows(NoCall, call[c])
  BY <1>1, NoneAssumption DEF NoCall, Follows, Told, Left, GoesOn, OwesNoMore, OnItsWay
<1>3. QED
  BY <1>1, <1>2

\* So with every step of one call.
LEMMA StepFollows ==
  ASSUME CallsInv, ToldInv, NEW c \in Calls,
         Handle(c) \/ Respond(c) \/ \E q \in Requests : Receive(c, q)
  PROVE  \E r : call' = [call EXCEPT ![c] = r] /\ Follows(r, call[c])
<1>1. CASE Allowed(c) \/ Approved(c)
  BY <1>1, DispatchFollows DEF Allowed, Approved
<1>2. CASE ExchangeAnswer(c)
  <2>1. Connect(c) /\ call[c].pc = "exchange"
    BY <1>2 DEF ExchangeAnswer
  <2>2. QED
    BY <2>1, DispatchFollows
<1>3. QED
  BY <1>1, <1>2, ReceiveFollows, OpaAnswerFollows, EndFollows, RunFollows, RefuseFollows,
     ReturnFollows
     DEF Handle, Respond

\* And with every step of the system.
LEMMA AllFollow ==
  ASSUME CallsInv, ToldInv, [Next]_vars, NEW c \in Calls
  PROVE  Follows(call'[c], call[c])
<1> DEFINE k == call[c]
<1>1. CallSound(k, opa) /\ DOMAIN k = CallFields /\ Told(k) /\ Follows(k, k)
  BY DEF CallsInv, CallSound, ToldInv, Follows, GoesOn, OwesNoMore
<1>2. ASSUME NEW d \in Calls, Handle(d) \/ Respond(d) \/ \E q \in Requests : Receive(d, q)
      PROVE  Follows(call'[c], k)
  <2>1. PICK r : call' = [call EXCEPT ![d] = r] /\ Follows(r, call[d])
    BY <1>2, StepFollows
  <2>2. call'[c] = IF c = d THEN r ELSE k
    BY <2>1 DEF CallsInv
  <2>3. QED
    BY <1>1, <2>1, <2>2
<1>3. ASSUME NEW data, OpaBecomes(data) PROVE Follows(call'[c], k)
  <2> DEFINE r == [k EXCEPT !.seen = k.seen \cup {data}]
  <2>1. call'[c] = k \/ call'[c] = r
    BY <1>3 DEF OpaBecomes
  <2>2. /\ r.pc = k.pc /\ r.op = k.op /\ r.outcome = k.outcome /\ r.sent = k.sent
        /\ r.ran = k.ran /\ r.reply = k.reply /\ r.event = k.event
    BY <1>1 DEF CallFields
  <2> HIDE DEF r
  <2>3. Follows(r, k)
    BY <1>1, <2>2 DEF Follows, Told, GoesOn, OwesNoMore, OnItsWay
  <2>4. QED
    BY <1>1, <2>1, <2>3
<1>4. CASE Crash
  <2> DEFINE r == [k EXCEPT !.pc = "done", !.reply = "RAISED"]
  <2>1. call'[c] = IF k.sent THEN r ELSE NoCall
    BY <1>4 DEF Crash
  <2>2. Told(NoCall) /\ GoesOn(NoCall, k) /\ OwesNoMore(NoCall, k)
    BY <1>1, NoneAssumption DEF NoCall, Told, Left, GoesOn, OwesNoMore, OnItsWay
  <2>3. ASSUME k.sent PROVE Follows(r, k)
    <3>1. /\ r.pc = "done" /\ r.op = k.op /\ r.outcome = k.outcome /\ r.sent = k.sent
          /\ r.ran = k.ran /\ r.reply = "RAISED" /\ r.event = k.event
      BY <1>1 DEF CallFields
    <3> HIDE DEF r
    <3>2. r.event = None
      <4>1. CASE k.pc = "done"
        <5>1. k.reply \in {"RESULT", "RAISED"} /\ k.reply # "RESULT"
          BY <1>1, <2>3, <4>1 DEF CallSound, Told
        <5>2. QED
          BY <1>1, <3>1, <4>1, <5>1 DEF Told, Reports
      <4>2. QED
        BY <1>1, <3>1, <4>1 DEF Told
    <3>3. Told(r)
      BY <1>1, <2>3, <3>1, <3>2 DEF Told, Left, Reports
    <3>4. GoesOn(r, k) /\ OwesNoMore(r, k)
      BY <1>1, <2>3, <3>1 DEF Told, GoesOn, Left, OwesNoMore, OnItsWay
    <3>5. QED
      BY <3>3, <3>4 DEF Follows
  <2>4. QED
    BY <2>1, <2>2, <2>3 DEF Follows
<1>5. (\E p \in toPush : Push(p) \/ PushFails(p)) \/ OpaRestart => \E data : OpaBecomes(data)
  BY DEF Push, PushFails, OpaRestart
<1>6. (\E i \in DOMAIN requests : Grant(i) \/ Deny(i)) \/ Start \/ Reload \/ Tick \/ UNCHANGED vars
         => UNCHANGED call
  BY DEF Grant, Deny, Start, Reload, Tick, vars
<1>7. QED
  BY <1>1, <1>2, <1>3, <1>4, <1>5, <1>6 DEF Next

\* Whatever happens to a call, it was reported in one of the ways in Reports
\* once it is over, and one that is sent has not run.
THEOREM ToldInvariance == Spec => []ToldInv
<1>1. Init => ToldInv
  BY NoneAssumption DEF Init, NoCall, ToldInv, Told, Left
<1>2. CallsInv /\ ToldInv /\ [Next]_vars => ToldInv'
  <2> SUFFICES ASSUME CallsInv, ToldInv, [Next]_vars, NEW c \in Calls PROVE Told(call'[c])
    BY DEF ToldInv, Told
  <2>1. QED
    BY AllFollow DEF Follows
<1>3. IInv => CallsInv
  BY DEF IInv
<1>4. QED
  BY <1>1, <1>2, <1>3, Invariance, PTL DEF Spec

\* A denial is final: what a client or the audit trail is told was denied was run
\* by no backend and is on its way to none, whatever crashes, fails or comes late.
\* A reply that is a denial is given before anything is sent, and every event but
\* tool_call_allowed goes with such a reply.
THEOREM DenialsAreFinal == Spec => []DeniedIsNotRun
<1>1. ASSUME CallsInv, ToldInv PROVE DeniedIsNotRun
  <2> SUFFICES ASSUME NEW c \in Calls, call[c].pc = "done",
                      \/ call[c].reply \notin {"RESULT", "RAISED"}
                      \/ call[c].event \notin {None, "tool_call_allowed"}
               PROVE  ~call[c].sent /\ ~call[c].ran
    BY DEF DeniedIsNotRun
  <2>1. <<call[c].reply, call[c].event>> \in Reports
    BY <1>1 DEF ToldInv, Told
  <2>2. call[c].reply \notin {"RESULT", "RAISED"}
    BY <2>1 DEF Reports
  <2>3. QED
    BY <1>1, <2>2 DEF CallsInv, CallSound
<1>2. IInv => CallsInv
  BY DEF IInv
<1>3. QED
  BY <1>1, <1>2, Invariance, ToldInvariance, PTL

\* How far the audit trail falls short of audit-events.en-us.md:73: a call that
\* ends without an event raised, or came from nobody, or from a client that is
\* not known.  Every other denial leaves one.
THEOREM OnlyUnknownUnaudited ==
  Spec => [](\A c \in Calls : call[c].pc = "done" /\ call[c].event = None =>
                call[c].reply \in {"RAISED", "UNAUTHENTICATED", "UNKNOWN_CLIENT"})
<1>1. ASSUME ToldInv
      PROVE  \A c \in Calls : call[c].pc = "done" /\ call[c].event = None =>
                call[c].reply \in {"RAISED", "UNAUTHENTICATED", "UNKNOWN_CLIENT"}
  BY <1>1, NoneAssumption DEF ToldInv, Told, Reports
<1>2. QED
  BY <1>1, ToldInvariance, PTL

\* A call never goes back: a step that takes it from where it waits leaves fewer
\* awaits before it.  With a handler that does not stop for ever this is why every
\* call is answered, or waits for a backend.
THEOREM CallsGoOn == Spec => [][\A c \in Calls : GoesOn(call'[c], call[c])]_vars
<1>1. ASSUME CallsInv, ToldInv, [Next]_vars
      PROVE  [\A c \in Calls : GoesOn(call'[c], call[c])]_vars
  BY <1>1, AllFollow DEF Follows
<1>2. IInv => CallsInv
  BY DEF IInv
<1>3. QED
  BY <1>1, <1>2, Invariance, ToldInvariance, PTL DEF Spec

(***************************************************************************)
(* GrantPromise is kept, step by step.                                     *)
(***************************************************************************)

\* Whatever only takes away is a loss.
LEMMA LossKept ==
  ASSUME \A o \in Operations : /\ Spendable(o)' \subseteq Spendable(o)
                               /\ OnWay(o)' \subseteq OnWay(o)
                               /\ ledger'[o].runs = ledger[o].runs
  PROVE  Promise!Next
<1>1. [o \in Operations |-> ledger[o].runs]' = [o \in Operations |-> ledger[o].runs]
  OBVIOUS
<1>2. Promise!Lose
  BY <1>1 DEF Promise!Lose, Promise!Fewer
<1>3. QED
  BY <1>2 DEF Promise!Next

\* A status is all that changes of an approval.
LEMMA ExpiryKept ==
  ASSUME StoreInv, NEW i \in DOMAIN requests, NEW s \in Statuses,
         requests' = WithStatus(requests, i, s)
  PROVE  /\ DOMAIN requests' = DOMAIN requests
         /\ \A j \in DOMAIN requests :
              /\ requests'[j].op = requests[j].op
              /\ requests'[j].expires_at = requests[j].expires_at
              /\ requests'[j].status = IF j = i THEN s ELSE requests[j].status
<1> DEFINE a == [requests[i] EXCEPT !.status = s]
<1>1. requests[i] \in Approval
  BY DEF StoreInv
<1>2. a.expires_at = requests[i].expires_at
  BY <1>1 DEF Approval
<1> HIDE DEF a
<1>3. requests' = [requests EXCEPT ![i] = a]
  BY DEF WithStatus, a
<1>4. \A j \in DOMAIN requests : requests'[j].expires_at = requests[j].expires_at
  BY <1>2, <1>3
<1>5. QED
  BY <1>4, StatusSet

\* Only an approval that is spent lets a call go.
LEMMA NoneLetGo ==
  ASSUME CallsInv, ToldInv, [Next]_vars, \A d \in Calls : ~Approved(d), NEW o
  PROVE  OnWay(o)' \subseteq OnWay(o)
<1> SUFFICES ASSUME NEW c \in Calls, OnItsWay(call'[c]) PROVE OnItsWay(call[c]) /\ call'[c].op = call[c].op
  BY DEF OnWay
<1>1. CallSound(call[c], opa) /\ OwesNoMore(call'[c], call[c])
  BY AllFollow DEF CallsInv, Follows
<1>2. ASSUME LetGo(call'[c], call[c]) PROVE FALSE
  <2>1. call[c].pc = "answered" /\ Gated(c) /\ ~call[c].sent /\ call'[c].pc \in {"exchange", "connect"}
    BY <1>1, <1>2 DEF LetGo, Gated, CallSound
  <2>2. ASSUME NEW d \in Calls, Handle(d) \/ Respond(d) \/ \E q \in Requests : Receive(d, q)
        PROVE  FALSE
    <3>1. PICK r : call' = [call EXCEPT ![d] = r]
      BY <2>2, StepFollows
    <3>2. d = c
      BY <2>1, <3>1 DEF CallsInv
    <3>3. AskApproval(c)
      BY <2>1, <2>2, <3>2 DEF Handle, Respond, Receive, PdpUnavailable, Denied, Allowed,
         ExchangeFails, DownstreamFails, Return, EntitlementAnswer, TransactionAnswer, PdpGarbled,
         ExchangeAnswer, DownstreamRuns, DownstreamRefuses, DownstreamReturns, Gated
    <3>4. call'[c].pc = "done"
      BY <3>3, <1>1 DEF AskApproval, Answer, CallsInv, CallSound, CallFields
    <3>5. QED
      BY <2>1, <3>4
  <2>3. ASSUME NEW data, OpaBecomes(data) PROVE FALSE
    BY <2>1, <2>3 DEF OpaBecomes
  <2>4. ASSUME Crash PROVE FALSE
    <3>1. call'[c] = NoCall
      BY <2>1, <2>4 DEF Crash
    <3>2. QED
      BY <2>1, <3>1 DEF NoCall
  <2>5. UNCHANGED call => FALSE
    BY <2>1
  <2>6. QED
    BY <2>2, <2>3, <2>4, <2>5 DEF Next, Push, PushFails, OpaRestart, Grant, Deny, Start, Reload,
       Tick, vars
<1>3. QED
  BY <1>1, <1>2 DEF OwesNoMore

\* A call that is let go takes the approval that is spent.
LEMMA ApprovedKept ==
  ASSUME CallsInv, StoreInv, ToldInv, [Next]_vars, NEW c \in Calls, Approved(c)
  PROVE  Promise!Next
<1> PICK o \in Operations : o = call[c].op
  BY DEF CallsInv, CallSound, Evaluating, Approved
<1>1. call[c].pc = "answered" /\ ~call[c].sent /\ UNCHANGED <<opa, now, ledger>>
  BY DEF CallsInv, CallSound, Approved, entitlement
<1>2. PICK i \in Spendable(o) : requests' = WithStatus(requests, i, "consumed")
  BY DEF Approved, IsFirst, SpendApproval
<1>3. /\ DOMAIN requests' = DOMAIN requests
      /\ \A j \in DOMAIN requests :
           /\ requests'[j].op = requests[j].op
           /\ requests'[j].expires_at = requests[j].expires_at
           /\ requests'[j].status = IF j = i THEN "consumed" ELSE requests[j].status
  BY <1>2, ExpiryKept DEF Spendable, Statuses
<1>4. \A p \in Operations : Spendable(p)' = IF p = o THEN Spendable(p) \ {i} ELSE Spendable(p)
  BY <1>1, <1>2, <1>3 DEF Spendable, Releasable, IsExpired
<1>5. PICK r : call' = [call EXCEPT ![c] = r] /\ Follows(r, call[c])
  BY StepFollows DEF Handle
<1>6. call'[c] = r /\ (\A d \in Calls \ {c} : call'[d] = call[d]) /\ ~OnItsWay(call[c])
  BY <1>1, <1>5 DEF CallsInv, OnItsWay
<1>7. CASE OnItsWay(r)
  <2>1. r.op = o
    BY <1>5, <1>7 DEF Follows, OwesNoMore
  <2>2. \A p \in Operations : OnWay(p)' = IF p = o THEN OnWay(p) \cup {c} ELSE OnWay(p)
    BY <1>6, <1>7, <2>1 DEF OnWay
  <2>3. c \notin OnWay(o)
    BY <1>6 DEF OnWay
  <2>4. Promise!Release(o, i, c)
    BY <1>1, <1>2, <1>4, <2>2, <2>3 DEF Promise!Release
  <2>5. c \in OnWay(o)'
    BY <1>1, <2>2
  <2>6. QED
    BY <1>1, <1>2, <2>4, <2>5 DEF Promise!Next
<1>8. CASE ~OnItsWay(r)
  <2>1. \A p \in Operations : OnWay(p)' \subseteq OnWay(p)
    BY <1>6, <1>8 DEF OnWay
  <2>2. QED
    BY <1>1, <1>4, <2>1, LossKept
<1>9. QED
  BY <1>7, <1>8

\* A gated call that a backend runs was on its way, and is not any more.
LEMMA RunKept ==
  ASSUME CallsInv, StoreInv, ToldInv, NEW c \in Calls, DownstreamRuns(c), Gated(c)
  PROVE  Promise!Next
<1> PICK o \in Operations : o = call[c].op
  BY DEF CallsInv, CallSound, Cleared, DownstreamRuns
<1> DEFINE e == [ledger[o] EXCEPT !.runs = ledger[o].runs + 1]
<1>1. /\ call[c].sent /\ UNCHANGED <<requests, now>>
      /\ ledger' = [ledger EXCEPT ![o] = e] /\ ledger \in [Operations -> Entry]
  BY DEF DownstreamRuns, StoreInv
<1>2. e.runs = ledger[o].runs + 1
  BY <1>1 DEF Entry
<1> HIDE DEF e
<1>3. \A p \in Operations : ledger'[p].runs = IF p = o THEN ledger[p].runs + 1 ELSE ledger[p].runs
  BY <1>1, <1>2
<1>4. PICK r : call' = [call EXCEPT ![c] = r] /\ ~OnItsWay(r)
  BY RunFollows
<1>5. call'[c] = r /\ \A d \in Calls \ {c} : call'[d] = call[d]
  BY <1>4 DEF CallsInv
<1>6. c \in OnWay(o)
  BY <1>1 DEF OnWay, OnItsWay, Gated
<1>7. \A p \in Operations : OnWay(p)' = IF p = o THEN OnWay(p) \ {c} ELSE OnWay(p)
  BY <1>4, <1>5 DEF OnWay
<1>8. \A p \in Operations : Spendable(p)' = Spendable(p)
  BY <1>1 DEF Spendable
<1>9. Promise!Run(o, c)
  BY <1>1, <1>3, <1>6, <1>7, <1>8 DEF Promise!Run
<1>10. QED
  BY <1>1, <1>6, <1>9 DEF Promise!Next

\* A grant is an offer, unless it comes too late.
LEMMA GrantKept ==
  ASSUME CallsInv, StoreInv, NEW i \in DOMAIN requests, Grant(i)
  PROVE  Promise!Next
<1>1. requests[i] \in Approval
  BY DEF StoreInv
<1> PICK o \in Operations : o = requests[i].op
  BY <1>1 DEF Approval
<1> DEFINE e == [ledger[o] EXCEPT !.grants = ledger[o].grants + 1]
<1>2. /\ UNCHANGED <<now, call>> /\ requests' = WithStatus(requests, i, "granted")
      /\ ledger' = [ledger EXCEPT ![o] = e] /\ ledger \in [Operations -> Entry]
  BY DEF Grant, StoreInv
<1>3. e.runs = ledger[o].runs
  BY <1>2 DEF Entry
<1> HIDE DEF e
<1>4. \A p \in Operations : ledger'[p].runs = ledger[p].runs /\ OnWay(p)' = OnWay(p)
  BY <1>2, <1>3 DEF OnWay
<1>5. /\ DOMAIN requests' = DOMAIN requests
      /\ \A j \in DOMAIN requests :
           /\ requests'[j].op = requests[j].op
           /\ requests'[j].expires_at = requests[j].expires_at
           /\ requests'[j].status = IF j = i THEN "granted" ELSE requests[j].status
  BY <1>2, ExpiryKept DEF Statuses
<1>6. CASE IsExpired(requests[i], now)
  <2>1. \A p \in Operations : Spendable(p)' \subseteq Spendable(p)
    BY <1>2, <1>5, <1>6 DEF Spendable, Releasable, IsExpired
  <2>2. QED
    BY <1>4, <2>1, LossKept
<1>7. CASE ~IsExpired(requests[i], now)
  <2>1. \A p \in Operations : Spendable(p)' = IF p = o THEN Spendable(p) \cup {i} ELSE Spendable(p)
    BY <1>2, <1>5, <1>7 DEF Spendable, Releasable, IsExpired
  <2>2. Promise!Offer(o, i)
    BY <1>4, <2>1 DEF Promise!Offer
  <2>3. i \in Spendable(o)'
    BY <2>1
  <2>4. QED
    BY <2>2, <2>3 DEF Promise!Next
<1>8. QED
  BY <1>6, <1>7

\* An approval that is denied, asked for, expired or forgotten offers nothing more.
LEMMA NothingOffered ==
  ASSUME CallsInv, StoreInv, [Next]_vars, \A c \in Calls : ~Approved(c),
         \A i \in DOMAIN requests : ~Grant(i), NEW o
  PROVE  Spendable(o)' \subseteq Spendable(o)
<1>1. CASE UNCHANGED <<requests, now>> \/ requests' = <<>>
  BY <1>1 DEF Spendable
<1>2. ASSUME NEW i \in DOMAIN requests, Deny(i) PROVE Spendable(o)' \subseteq Spendable(o)
  <2>1. UNCHANGED now /\ requests' = WithStatus(requests, i, "denied")
    BY <1>2 DEF Deny
  <2>2. /\ DOMAIN requests' = DOMAIN requests
        /\ \A j \in DOMAIN requests :
             /\ requests'[j].op = requests[j].op
             /\ requests'[j].expires_at = requests[j].expires_at
             /\ requests'[j].status = IF j = i THEN "denied" ELSE requests[j].status
    BY <2>1, ExpiryKept DEF Statuses
  <2>3. QED
    BY <2>1, <2>2 DEF Spendable, Releasable, IsExpired
<1>3. ASSUME NEW c \in Calls, AskApproval(c) PROVE Spendable(o)' \subseteq Spendable(o)
  <2> DEFINE a == NewRequest(call[c].op, now, Ttl)
  <2>1. UNCHANGED now /\ (requests' = requests \/ requests' = Append(requests, a))
    BY <1>3 DEF AskApproval
  <2>2. a.status = "pending" /\ requests \in Seq(Approval)
    BY DEF NewRequest, StoreInv
  <2> HIDE DEF a
  <2>3. \A j \in DOMAIN requests' :
          (j \in DOMAIN requests /\ requests'[j] = requests[j]) \/ requests'[j] = a
    BY <2>1, <2>2
  <2>4. QED
    BY <2>1, <2>2, <2>3 DEF Spendable, Releasable
<1>4. CASE Tick
  <2>1. UNCHANGED requests /\ now' = now + 1 /\ now \in Nat
    BY <1>4 DEF Tick, StoreInv
  <2>2. \A i \in DOMAIN requests : requests[i].expires_at \in Int
    <3>1. \A i \in DOMAIN requests : requests[i] \in Approval
      BY DEF StoreInv
    <3>2. QED
      BY <3>1 DEF Approval
  <2>3. \A i \in DOMAIN requests : IsExpired(requests[i], now) => IsExpired(requests[i], now')
    BY <2>1, <2>2 DEF IsExpired
  <2>4. QED
    BY <2>1, <2>3 DEF Spendable, Releasable
<1>5. ASSUME NEW c \in Calls, Handle(c) \/ Respond(c), ~AskApproval(c)
      PROVE  UNCHANGED <<requests, now>>
  BY <1>5 DEF Handle, PdpUnavailable, Denied, Allowed, ExchangeFails, DownstreamFails, Return,
     Respond, EntitlementAnswer, TransactionAnswer, PdpGarbled, ExchangeAnswer, DownstreamRuns,
     DownstreamRefuses, DownstreamReturns
<1>6. (\E p \in toPush : Push(p) \/ PushFails(p)) \/ Start \/ Reload \/ Crash \/ OpaRestart
         \/ (\E c \in Calls, q \in Requests : Receive(c, q)) \/ UNCHANGED vars
         => UNCHANGED <<requests, now>> \/ requests' = <<>>
  BY DEF Push, PushFails, Start, Reload, Crash, Down, OpaRestart, Receive, vars
<1>7. QED
  BY <1>1, <1>2, <1>3, <1>4, <1>5, <1>6 DEF Next

\* The runs of gated calls are all that is counted as runs.
LEMMA NothingRun ==
  ASSUME [Next]_vars, \A c \in Calls : ~(DownstreamRuns(c) /\ Gated(c)),
         \A i \in DOMAIN requests : ~Grant(i)
  PROVE  UNCHANGED ledger
BY DEF Next, Handle, PdpUnavailable, Denied, Allowed, Approved, AskApproval, ExchangeFails,
   DownstreamFails, Return, Respond, EntitlementAnswer, TransactionAnswer, PdpGarbled,
   ExchangeAnswer, DownstreamRuns, DownstreamRefuses, DownstreamReturns, Receive, Deny, Push, PushFails, Start,
   Reload, Crash, OpaRestart, Tick, vars

\* Every step of the Gateway, its clients, approvers, services and of OPA, crashes
\* and expiries among them, is one of GrantPromise's or none: what is run on the
\* strength of an approval took an offer away when it was let go, and runs once.
THEOREM GrantsKept == Spec => KeepsGrants
<1>1. Init => Promise!Init
  <2> SUFFICES ASSUME Init PROVE Promise!Init
    OBVIOUS
  <2>1. \A o \in Operations : Spendable(o) = {} /\ OnWay(o) = {} /\ ledger[o].runs = 0
    BY NoneAssumption DEF Init, Spendable, OnWay, OnItsWay, NoCall
  <2>2. QED
    BY <2>1 DEF Promise!Init
<1>2. ASSUME IInv, ToldInv, [Next]_vars PROVE [Promise!Next]_(Promise!vars)
  <2>1. CallsInv /\ StoreInv
    BY <1>2 DEF IInv
  <2>2. ASSUME NEW c \in Calls, Approved(c) PROVE Promise!Next
    BY <1>2, <2>1, <2>2, ApprovedKept
  <2>3. ASSUME NEW c \in Calls, DownstreamRuns(c), Gated(c) PROVE Promise!Next
    BY <1>2, <2>1, <2>3, RunKept
  <2>4. ASSUME NEW i \in DOMAIN requests, Grant(i) PROVE Promise!Next
    BY <2>1, <2>4, GrantKept
  <2>5. ASSUME \A c \in Calls : ~Approved(c) /\ ~(DownstreamRuns(c) /\ Gated(c)),
               \A i \in DOMAIN requests : ~Grant(i)
        PROVE  Promise!Next
    <3>1. \A o \in Operations : Spendable(o)' \subseteq Spendable(o) /\ OnWay(o)' \subseteq OnWay(o)
      BY <1>2, <2>1, <2>5, NoneLetGo, NothingOffered
    <3>2. UNCHANGED ledger
      BY <1>2, <2>5, NothingRun
    <3>3. QED
      BY <3>1, <3>2, LossKept
  <2>6. QED
    BY <2>2, <2>3, <2>4, <2>5
<1>3. QED
  BY <1>1, <1>2, Invariance, ToldInvariance, PTL DEF Spec, KeepsGrants, Promise!Spec
=============================================================================
