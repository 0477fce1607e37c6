---------------------------- MODULE JourneyProofs ----------------------------
(***************************************************************************)
(* Proofs about Journey, for any threads, clients, capabilities, catalogs, *)
(* profiles and bounds, and for Mode B, whose journeys these are.          *)
(*                                                                         *)
(* A state of the graph is sound by itself, whether it is that of the      *)
(* invocation under way or the one that was saved: that is what a crash,   *)
(* which goes back from one to the other, cannot break.  What a thread's   *)
(* caller knows is related to both.                                        *)
(***************************************************************************)
EXTENDS ModeB, TLAPS, FiniteSetTheorems

(***************************************************************************)
(* decide has a least element to return.                                   *)
(***************************************************************************)

\* Every set of natural numbers that is not empty has a least element: else there
\* were a smallest finite set without one, and one is left when any of its
\* elements is taken away.
LEMMA LeastOfFinite ==
  ASSUME NEW S \in SUBSET Nat, S # {}, IsFiniteSet(S)
  PROVE  \E n \in S : \A m \in S : n <= m
<1> DEFINE HasLeast(X) == \E n \in X : \A m \in X : n <= m
           Bad == {X \in FiniteSubsetsOf(Nat) : X # {} /\ ~HasLeast(X)}
<1>1. SUFFICES ASSUME ~HasLeast(S) PROVE FALSE
  OBVIOUS
<1>2. S \in Bad
  BY <1>1 DEF FiniteSubsetsOf
<1>3. PICK X \in Bad : \A Y \in Bad : ~(<<Y, X>> \in StrictSubsetOrdering(Nat))
  <2>1. IsWellFoundedOn(StrictSubsetOrdering(Nat), FiniteSubsetsOf(Nat))
    BY FS_StrictSubsetOrderingWellFounded
  <2>2. Bad \subseteq FiniteSubsetsOf(Nat) /\ Bad # {}
    BY <1>2
  <2> HIDE DEF Bad
  <2>3. QED
    BY <2>1, <2>2, WFMin
<1>4. X \subseteq Nat /\ X # {} /\ IsFiniteSet(X) /\ ~HasLeast(X)
  BY DEF FiniteSubsetsOf
<1>5. PICK x \in X : TRUE
  BY <1>4
<1>6. X \ {x} # {}
  BY <1>4, <1>5
<1>7. <<X \ {x}, X>> \in StrictSubsetOrdering(Nat)
  BY <1>4, <1>5 DEF StrictSubsetOrdering
<1>8. IsFiniteSet(X \ {x})
  BY <1>4, FS_RemoveElement
<1>9. HasLeast(X \ {x})
  <2>1. X \ {x} \in FiniteSubsetsOf(Nat)
    BY <1>4, <1>8 DEF FiniteSubsetsOf
  <2>2. QED
    BY <1>3, <1>6, <1>7, <2>1
<1>10. PICK n \in X \ {x} : \A m \in X \ {x} : n <= m
  BY <1>9
<1>11. x \in Nat /\ n \in Nat
  BY <1>4, <1>5
<1>12. CASE n <= x
  BY <1>4, <1>10, <1>12
<1>13. CASE x <= n
  <2>1. \A m \in X : x <= m
    BY <1>4, <1>10, <1>11, <1>13
  <2>2. QED
    BY <1>4, <1>5, <2>1
<1>14. QED
  BY <1>11, <1>12, <1>13

\* And every set of natural numbers at all.
LEMMA Least ==
  ASSUME NEW S \in SUBSET Nat, S # {}
  PROVE  \E n \in S : \A m \in S : n <= m
<1> PICK k \in S : TRUE
  OBVIOUS
<1>1. S \cap (0 .. k) # {} /\ S \cap (0 .. k) \in SUBSET Nat
  OBVIOUS
<1>2. IsFiniteSet(0 .. k)
  BY FS_Interval
<1>3. IsFiniteSet(S \cap (0 .. k))
  BY <1>2, FS_Subset
<1>4. PICK n \in S \cap (0 .. k) : \A m \in S \cap (0 .. k) : n <= m
  BY <1>1, <1>3, LeastOfFinite
<1>5. \A m \in S : n <= m
  BY <1>4
<1>6. QED
  BY <1>4, <1>5

\* decide returns one of the offerings, or nothing when there is none.
LEMMA DecideEffect ==
  ASSUME NEW S \in SUBSET Names
  PROVE  /\ Decide(S) \in S \cup {None}
         /\ Decide(S) # None => Decide(S) \in S
<1>1. CASE S = {}
  BY <1>1 DEF Decide
<1>2. CASE S # {}
  <2>1. \E n \in S : \A m \in S : n <= m
    BY <1>2, Least, NamesAssumption
  <2>2. QED
    BY <1>2, <2>1 DEF Decide
<1>3. QED
  BY <1>1, <1>2

\* No capability is None, and none of the gated ones.
LEMMA NoneIsNoName == None \notin Names /\ Gated \subseteq Names
BY NamesAssumption DEF None

(***************************************************************************)
(* States of the graph.                                                    *)
(***************************************************************************)

Statuses == {"unset", "not_applicable", "not_required", "approved", "denied"}

\* The nodes at which the offerings may be those of another entitlement, and
\* those after the decision.
Early == {"resolve_entitlement", "filter_offerings"}
Late == {"approval_gate", "paused", "end"}

\* Offerings are entitled and consented to but at the early nodes; a decision
\* is one of them that is not excluded, and says whether it is gated; what
\* pauses is.
SoundState(s) ==
    /\ s.next \notin Early => s.offerings \subseteq s.tools \cap Consented
    /\ s.next \in Early \cup {"decide_nba"} => s.denied = None
    /\ s.next = "handle_denial" => s.denied # None
    /\ s.next \in Late => /\ s.nba # None => s.nba \in s.offerings \ s.excluded
                          /\ s.gated = RequiresApproval(s.nba)
    /\ s.next = "paused" => s.nba \in Gated

\* A fresh state, before any invocation.
LEMMA NewThreadSound == NewThread \in States /\ SoundState(NewThread)
<1>1. NewThread \in States
  BY DEF NewThread, States, Nodes
<1>2. /\ NewThread.next = "end" /\ NewThread.nba = None /\ NewThread.gated = FALSE
      /\ NewThread.offerings = {}
  BY DEF NewThread
<1>3. RequiresApproval(None) = FALSE
  BY NoneIsNoName DEF RequiresApproval
<1>4. SoundState(NewThread)
  BY <1>2, <1>3 DEF SoundState, Early, Late
<1>5. QED
  BY <1>1, <1>4

\* An entry goes to handle_denial only with offerings that were filtered.
LEMMA EnterSound ==
  ASSUME NEW s \in States,
         s.next \notin Early => s.offerings \subseteq s.tools \cap Consented,
         s.denied # None => s.next \notin Early
  PROVE  /\ Enter(s) \in States
         /\ SoundState(Enter(s))
         /\ Enter(s).excluded = s.excluded
         /\ Enter(s).denied = s.denied
         /\ Enter(s).next = IF s.denied = None THEN "resolve_entitlement" ELSE "handle_denial"
<1> DEFINE e == Enter(s)
<1>1. e = [s EXCEPT !.next = IF s.denied = None THEN "resolve_entitlement" ELSE "handle_denial"]
  BY DEF Enter
<1>2. "resolve_entitlement" \in Nodes /\ "handle_denial" \in Nodes
  BY DEF Nodes
<1>3. e \in States
  BY <1>1, <1>2 DEF States
<1>4. /\ e.excluded = s.excluded /\ e.denied = s.denied
      /\ e.offerings = s.offerings /\ e.tools = s.tools
      /\ e.next = IF s.denied = None THEN "resolve_entitlement" ELSE "handle_denial"
  BY <1>1 DEF States
<1> HIDE DEF e
<1>5. SoundState(e)
  BY <1>4 DEF SoundState, Early, Late
<1>6. QED
  BY <1>3, <1>4, <1>5 DEF e

\* decide_nba proposes an offering that is not excluded.
LEMMA DecisionSound ==
  ASSUME NEW s \in States, SoundState(s), s.next = "decide_nba"
  PROVE  /\ AfterDecision(s) \in States
         /\ SoundState(AfterDecision(s))
         /\ AfterDecision(s).excluded = s.excluded
         /\ AfterDecision(s).next = "approval_gate"
<1> DEFINE nba == Decide(s.offerings \ s.excluded)
           a == AfterDecision(s)
<1>1. nba \in Names \cup {None} /\ (nba # None => nba \in s.offerings \ s.excluded)
  BY DecideEffect DEF States
<1>2. RequiresApproval(nba) \in BOOLEAN /\ "approval_gate" \in Nodes
  BY DEF RequiresApproval, Nodes
<1>3. a = [s EXCEPT !.nba = nba, !.gated = RequiresApproval(nba), !.next = "approval_gate"]
  BY DEF AfterDecision
<1> HIDE DEF nba, a
<1>4. a \in States
  BY <1>1, <1>2, <1>3 DEF States
<1>5. /\ a.nba = nba /\ a.gated = RequiresApproval(nba) /\ a.next = "approval_gate"
      /\ a.offerings = s.offerings /\ a.tools = s.tools /\ a.excluded = s.excluded
  BY <1>3 DEF States
<1>6. s.offerings \subseteq s.tools \cap Consented
  BY DEF SoundState, Early
<1>7. SoundState(a)
  BY <1>1, <1>5, <1>6 DEF SoundState, Early, Late
<1>8. QED
  BY <1>4, <1>5, <1>7 DEF a

\* handle_denial excludes what was denied, and proposes what remains or ends.
LEMMA DenialSound ==
  ASSUME NEW s \in States, SoundState(s), s.next = "handle_denial"
  PROVE  /\ AfterDenial(s) \in States
         /\ SoundState(AfterDenial(s))
         /\ AfterDenial(s).excluded = s.excluded \cup {s.denied}
         /\ AfterDenial(s).next = IF AfterDenial(s).nba = None THEN "end" ELSE "approval_gate"
<1> DEFINE nba == Decide(s.offerings \ (s.excluded \cup {s.denied}))
           a == AfterDenial(s)
           node == IF nba = None THEN "end" ELSE "approval_gate"
<1>1. nba \in Names \cup {None} /\ (nba # None => nba \in s.offerings \ (s.excluded \cup {s.denied}))
  BY DecideEffect DEF States
<1>2. RequiresApproval(nba) \in BOOLEAN /\ node \in Nodes /\ node \notin Early \cup {"decide_nba", "handle_denial", "paused"}
  BY DEF RequiresApproval, Nodes, Early
<1>3. a = [s EXCEPT !.nba = nba, !.gated = RequiresApproval(nba),
                    !.excluded = @ \cup {s.denied}, !.denied = None, !.next = node]
  BY DEF AfterDenial
<1>4. s.offerings \subseteq s.tools \cap Consented
  BY DEF SoundState, Early
<1> HIDE DEF nba, a
<1>5. /\ a.nba = nba /\ a.gated = RequiresApproval(nba) /\ a.next = node
      /\ a.offerings = s.offerings /\ a.tools = s.tools
      /\ a.excluded = s.excluded \cup {s.denied}
  BY <1>3 DEF States
<1> HIDE DEF node
<1>6. SoundState(a)
  BY <1>1, <1>2, <1>4, <1>5 DEF SoundState
<1>7. a.next = IF a.nba = None THEN "end" ELSE "approval_gate"
  BY <1>5 DEF node
<1>8. a \in States
  <2>1. s.excluded \cup {s.denied} \in SUBSET Names
    BY DEF States, SoundState
  <2>2. nba \in Names \cup {None} /\ node \in Nodes
    BY <1>1, <1>2
  <2>3. QED
    BY <1>2, <1>3, <2>1, <2>2 DEF States
<1>9. QED
  BY <1>5, <1>6, <1>7, <1>8 DEF a

(***************************************************************************)
(* Threads.                                                                *)
(***************************************************************************)

Soundness(t) == SoundState(live[t]) /\ SoundState(saved[t])

\* What returned was saved, and waits in the gate or is at its end.
ReturnInv(t) ==
    /\ phase[t] = "paused" => saved[t] = live[t] /\ live[t].next = "paused"
    /\ phase[t] = "ended" => saved[t] = live[t] /\ live[t].next = "end"
    /\ phase[t] \in {"over", "denied"} =>
           saved[t] = live[t] /\ live[t].next \in {"paused", "end"}

\* A re-entry is about to exclude the denial it was made with, or has done so.
ReentryInv(t) ==
    reported[t] # None =>
        /\ live[t].next \notin Early /\ saved[t].next \notin Early
        /\ phase[t] = "running" =>
               \/ live[t].next = "handle_denial" /\ live[t].denied = reported[t]
               \/ live[t].next \in Late /\ reported[t] \in live[t].excluded

\* No state of the thread forgets what it has refused.
RefusedInv(t) == refused[t] \subseteq live[t].excluded \cap saved[t].excluded

\* A decision at the end of its invocation has the status the gate, or the answer
\* to its pause, has given it.
RightStatus(x, approved) ==
    x.status = IF x.nba \notin Gated THEN "not_required"
               ELSE IF approved THEN "approved" ELSE "denied"

ConsentInv(t) ==
    phase[t] \in {"running", "ended"} /\ live[t].next = "end" /\ live[t].nba # None
        => RightStatus(live[t], consent[t])

AuditInv(t) == live[t].excluded \cup saved[t].excluded \subseteq emitted[t]

ThreadInv(t) ==
    Soundness(t) /\ ReturnInv(t) /\ ReentryInv(t) /\ RefusedInv(t) /\ ConsentInv(t) /\ AuditInv(t)

IInv == TypeOK /\ \A t \in Threads : ThreadInv(t)

\* The other threads stay as they are.
OnlyAt(t) ==
    \A u \in Threads \ {t} :
        /\ live'[u] = live[u] /\ saved'[u] = saved[u]
        /\ phase'[u] = phase[u] /\ reported'[u] = reported[u]
        /\ emitted'[u] = emitted[u] /\ consent'[u] = consent[u] /\ refused'[u] = refused[u]

\* What is known of one thread.
LEMMA ThreadTypes ==
  ASSUME TypeOK, NEW t \in Threads
  PROVE  /\ live[t] \in States /\ saved[t] \in States /\ phase[t] \in Phases
         /\ reported[t] \in Names \cup {None}
         /\ emitted[t] \subseteq Names /\ consent[t] \in BOOLEAN /\ refused[t] \subseteq Names
BY DEF TypeOK

\* A step of one thread is judged by that thread.
LEMMA OneThread ==
  ASSUME IInv, NEW t \in Threads, TypeOK', OnlyAt(t), ThreadInv(t)'
  PROVE  IInv'
<1>1. ASSUME NEW u \in Threads, u # t PROVE ThreadInv(u)'
  <2>1. ThreadInv(u)
    BY DEF IInv
  <2>2. /\ live'[u] = live[u] /\ saved'[u] = saved[u]
        /\ phase'[u] = phase[u] /\ reported'[u] = reported[u]
        /\ emitted'[u] = emitted[u] /\ consent'[u] = consent[u] /\ refused'[u] = refused[u]
    BY <1>1 DEF OnlyAt
  <2>3. QED
    BY <2>1, <2>2 DEF ThreadInv, Soundness, ReturnInv, ReentryInv, RefusedInv, ConsentInv, AuditInv
<1>2. QED
  BY <1>1 DEF IInv

\* A step that leaves every thread alone keeps what is known of them.
LEMMA ThreadsAlone ==
  ASSUME IInv, TypeOK', UNCHANGED <<live, saved, phase, reported, emitted, consent, refused>>
  PROVE  IInv'
BY DEF IInv, ThreadInv, Soundness, ReturnInv, ReentryInv, RefusedInv, ConsentInv, AuditInv

\* Initially no thread has a decision, and nothing is refused or excluded.
LEMMA Initially == Init => IInv
<1> SUFFICES ASSUME Init PROVE IInv
  OBVIOUS
<1>1. \A t \in Threads : /\ live[t] = NewThread /\ saved[t] = NewThread /\ phase[t] = "new"
                          /\ reported[t] = None /\ refused[t] = {} /\ emitted[t] = {}
  BY DEF Init
<1>2. TypeOK
  <2>1. live \in [Threads -> States] /\ saved \in [Threads -> States]
    BY NewThreadSound DEF Init
  <2>2. ceiling \in [Clients -> SUBSET Names]
    BY SetsAssumption DEF Init
  <2>3. /\ phase \in [Threads -> Phases]
        /\ reported \in [Threads -> Names \cup {None}]
    BY DEF Init, Phases
  <2>4. budget \in [invocations : 0..MaxInvocations, events : 0..MaxEvents]
    BY BoundsAssumption DEF Init
  <2>5. QED
    BY <2>1, <2>2, <2>3, <2>4 DEF Init, TypeOK
<1>3. ASSUME NEW t \in Threads PROVE ThreadInv(t)
  <2>1. Soundness(t)
    BY <1>1, NewThreadSound DEF Soundness
  <2>2. NewThread.excluded = {} /\ NewThread.nba = None
    BY DEF NewThread
  <2>3. QED
    BY <1>1, <2>1, <2>2, NoneIsNoName
       DEF ThreadInv, ReturnInv, ReentryInv, RefusedInv, ConsentInv, AuditInv
<1>4. QED
  BY <1>2, <1>3 DEF IInv

(***************************************************************************)
(* Invocations.                                                            *)
(***************************************************************************)

\* What an invocation begins with.
LEMMA RunsEffect ==
  ASSUME TypeOK, NEW t \in Threads, NEW s \in States,
         NEW denial \in Names \cup {None}, Runs(t, s, denial)
  PROVE  /\ live' = [live EXCEPT ![t] = s] /\ live'[t] = s /\ phase'[t] = "running"
         /\ reported'[t] = denial
         /\ live' \in [Threads -> States] /\ phase' \in [Threads -> Phases]
         /\ reported' \in [Threads -> Names \cup {None}]
         /\ \A u \in Threads \ {t} :
                live'[u] = live[u] /\ phase'[u] = phase[u] /\ reported'[u] = reported[u]
         /\ UNCHANGED <<registered, ceiling, active, saved, emitted, refused>>
<1>1. "running" \in Phases
  BY DEF Phases
<1>2. QED
  BY <1>1 DEF TypeOK, Runs, world

\* The bounds count downwards.
LEMMA CountedEffect ==
  ASSUME TypeOK, Counted
  PROVE  budget' \in [invocations : 0..MaxInvocations, events : 0..MaxEvents]
BY BoundsAssumption DEF TypeOK, Counted

\* A fresh entry keeps the exclusions, and starts over.
LEMMA InvokeKeeps ==
  ASSUME IInv, NEW t \in Threads, Invoke(t),
         budget' \in [invocations : 0..MaxInvocations, events : 0..MaxEvents]
  PROVE  IInv'
<1>1. TypeOK /\ ThreadInv(t)
  BY DEF IInv
<1>2. saved[t] \in States /\ SoundState(saved[t])
  BY <1>1, ThreadTypes DEF ThreadInv, Soundness
<1>3. /\ Enter(saved[t]) \in States /\ SoundState(Enter(saved[t]))
      /\ Enter(saved[t]).excluded = saved[t].excluded
      /\ Enter(saved[t]).next \in {"resolve_entitlement", "handle_denial"}
  <2>1. /\ saved[t].next \notin Early => saved[t].offerings \subseteq saved[t].tools \cap Consented
        /\ saved[t].denied # None => saved[t].next \notin Early
    BY <1>2 DEF SoundState
  <2>2. QED
    BY <1>2, <2>1, EnterSound
<1>4. Runs(t, Enter(saved[t]), None) /\ consent' = consent
  BY DEF Invoke
<1>5. /\ live'[t] = Enter(saved[t]) /\ phase'[t] = "running" /\ reported'[t] = None
      /\ live' \in [Threads -> States] /\ phase' \in [Threads -> Phases]
      /\ reported' \in [Threads -> Names \cup {None}]
      /\ \A u \in Threads \ {t} :
             live'[u] = live[u] /\ phase'[u] = phase[u] /\ reported'[u] = reported[u]
      /\ UNCHANGED <<registered, ceiling, active, saved, emitted, refused>>
  BY <1>1, <1>3, <1>4, RunsEffect
<1>6. TypeOK'
  BY <1>1, <1>4, <1>5 DEF TypeOK
<1>7. OnlyAt(t)
  BY <1>4, <1>5 DEF OnlyAt
<1>8. ThreadInv(t)'
  <2>1. Soundness(t)' /\ ReturnInv(t)' /\ ReentryInv(t)'
    BY <1>2, <1>3, <1>5 DEF Soundness, ReturnInv, ReentryInv
  <2>2. RefusedInv(t)' /\ ConsentInv(t)' /\ AuditInv(t)'
    BY <1>1, <1>3, <1>5 DEF ThreadInv, RefusedInv, ConsentInv, AuditInv
  <2>3. QED
    BY <2>1, <2>2 DEF ThreadInv
<1>9. QED
  BY <1>6, <1>7, <1>8, OneThread

\* A re-entry begins at handle_denial, with the denial it was made with.
LEMMA ReenterKeeps ==
  ASSUME IInv, NEW t \in Threads, Reenter(t)
  PROVE  IInv'
<1> DEFINE denied == IF phase[t] = "denied" THEN saved[t].nba ELSE reported[t]
           s == [saved[t] EXCEPT !.denied = denied]
<1>1. TypeOK /\ ThreadInv(t)
  BY DEF IInv
<1>2. /\ saved[t] \in States /\ SoundState(saved[t])
      /\ saved[t].nba \in Names \cup {None} /\ reported[t] \in Names \cup {None}
  BY <1>1, ThreadTypes DEF ThreadInv, Soundness, States
<1>3. denied \in Names \cup {None}
  BY <1>2
<1>4. saved[t].next \notin Early
  <2>1. CASE phase[t] = "denied"
    BY <1>1, <2>1 DEF ThreadInv, ReturnInv, Early
  <2>2. CASE phase[t] = "raised" /\ reported[t] # None
    BY <1>1, <2>2 DEF ThreadInv, ReentryInv
  <2>3. QED
    BY <2>1, <2>2 DEF Reenter
<1>5. /\ s \in States /\ s.next = saved[t].next /\ s.excluded = saved[t].excluded
      /\ s.offerings = saved[t].offerings /\ s.tools = saved[t].tools /\ s.denied = denied
  BY <1>2, <1>3 DEF States
<1>6. Runs(t, Enter(s), denied) /\ UNCHANGED <<consent, budget>>
  BY DEF Reenter
<1> HIDE DEF denied, s
<1>7. /\ Enter(s) \in States /\ SoundState(Enter(s)) /\ Enter(s).excluded = saved[t].excluded
      /\ Enter(s).denied = denied
      /\ Enter(s).next = IF denied = None THEN "resolve_entitlement" ELSE "handle_denial"
  BY <1>2, <1>4, <1>5, EnterSound DEF SoundState
<1>8. /\ live'[t] = Enter(s) /\ phase'[t] = "running" /\ reported'[t] = denied
      /\ live' \in [Threads -> States] /\ phase' \in [Threads -> Phases]
      /\ reported' \in [Threads -> Names \cup {None}]
      /\ \A u \in Threads \ {t} :
             live'[u] = live[u] /\ phase'[u] = phase[u] /\ reported'[u] = reported[u]
      /\ UNCHANGED <<registered, ceiling, active, saved, emitted, refused>>
  BY <1>1, <1>3, <1>6, <1>7, RunsEffect
<1>9. TypeOK'
  BY <1>1, <1>6, <1>8 DEF TypeOK
<1>10. OnlyAt(t)
  BY <1>6, <1>8 DEF OnlyAt
<1>11. ThreadInv(t)'
  <2>1. Soundness(t)' /\ ReturnInv(t)'
    BY <1>2, <1>7, <1>8 DEF Soundness, ReturnInv
  <2>2. ReentryInv(t)'
    BY <1>4, <1>7, <1>8 DEF ReentryInv, Early
  <2>3. RefusedInv(t)' /\ ConsentInv(t)' /\ AuditInv(t)'
    BY <1>1, <1>7, <1>8 DEF ThreadInv, RefusedInv, ConsentInv, AuditInv
  <2>4. QED
    BY <2>1, <2>2, <2>3 DEF ThreadInv
<1>12. QED
  BY <1>9, <1>10, <1>11, OneThread

\* An answer ends the gate's round, approved only by an approval.
LEMMA ResumeKeeps ==
  ASSUME IInv, NEW t \in Threads, NEW decision, Resume(t, decision),
         budget' \in [invocations : 0..MaxInvocations, events : 0..MaxEvents]
  PROVE  IInv'
<1> DEFINE status == IF decision = "approved" THEN decision ELSE "denied"
           s == [saved[t] EXCEPT !.status = status, !.next = "end"]
<1>1. TypeOK /\ ThreadInv(t)
  BY DEF IInv
<1>2. saved[t] \in States /\ SoundState(saved[t]) /\ saved[t].next = "paused"
  BY <1>1, ThreadTypes DEF ThreadInv, Soundness, Resume
<1>3. status \in {"approved", "denied"} /\ (status = "approved" => decision = "approved")
  OBVIOUS
<1>4. /\ Runs(t, s, None)
      /\ consent' = [consent EXCEPT ![t] = decision = "approved"]
  BY DEF Resume
<1> HIDE DEF status
<1>5. s \in States
  <2>1. "end" \in Nodes
    BY DEF Nodes
  <2>2. QED
    BY <1>2, <1>3, <2>1 DEF States
<1>6. /\ s.next = "end" /\ s.status = status /\ s.nba = saved[t].nba /\ s.gated = saved[t].gated
      /\ s.offerings = saved[t].offerings /\ s.tools = saved[t].tools
      /\ s.denied = saved[t].denied /\ s.excluded = saved[t].excluded
  BY <1>2 DEF States
<1> HIDE DEF s
<1>7. SoundState(s)
  BY <1>2, <1>6 DEF SoundState, Early, Late
<1>8. /\ live'[t] = s /\ phase'[t] = "running" /\ reported'[t] = None
      /\ live' \in [Threads -> States] /\ phase' \in [Threads -> Phases]
      /\ reported' \in [Threads -> Names \cup {None}]
      /\ \A u \in Threads \ {t} :
             live'[u] = live[u] /\ phase'[u] = phase[u] /\ reported'[u] = reported[u]
      /\ UNCHANGED <<registered, ceiling, active, saved, emitted, refused>>
  BY <1>1, <1>4, <1>5, RunsEffect
<1>9. /\ consent' \in [Threads -> BOOLEAN]
      /\ consent'[t] = (decision = "approved")
      /\ \A u \in Threads \ {t} : consent'[u] = consent[u]
  BY <1>1, <1>4 DEF TypeOK
<1>10. TypeOK'
  BY <1>1, <1>8, <1>9 DEF TypeOK
<1>11. OnlyAt(t)
  BY <1>8, <1>9 DEF OnlyAt
<1>12. ThreadInv(t)'
  <2>1. Soundness(t)' /\ ReturnInv(t)' /\ ReentryInv(t)'
    BY <1>2, <1>7, <1>8 DEF Soundness, ReturnInv, ReentryInv
  <2>2. ConsentInv(t)'
    <3>1. s.nba \in Gated
      BY <1>2, <1>6 DEF SoundState
    <3>2. s.status = IF consent'[t] THEN "approved" ELSE "denied"
      BY <1>6, <1>9 DEF status
    <3>3. QED
      BY <1>8, <3>1, <3>2 DEF ConsentInv, RightStatus
  <2>3. RefusedInv(t)' /\ AuditInv(t)'
    BY <1>1, <1>6, <1>8 DEF ThreadInv, RefusedInv, AuditInv
  <2>4. QED
    BY <2>1, <2>2, <2>3 DEF ThreadInv
<1>13. QED
  BY <1>10, <1>11, <1>12, OneThread

\* What is live is sound, so it may be saved.
LEMMA CheckpointKeeps ==
  ASSUME IInv, NEW t \in Threads, Checkpoint(t)
  PROVE  IInv'
<1>1. TypeOK /\ ThreadInv(t) /\ live[t] \in States
  BY ThreadTypes DEF IInv
<1>2. /\ saved' = [saved EXCEPT ![t] = live[t]] /\ phase[t] = "running"
      /\ UNCHANGED <<world, live, phase, reported, emitted, consent, refused, budget>>
  BY DEF Checkpoint
<1>3. saved' \in [Threads -> States] /\ saved'[t] = live[t]
      /\ \A u \in Threads \ {t} : saved'[u] = saved[u]
  BY <1>1, <1>2 DEF TypeOK
<1>4. TypeOK'
  BY <1>1, <1>2, <1>3 DEF TypeOK, world
<1>5. OnlyAt(t)
  BY <1>2, <1>3 DEF OnlyAt
<1>6. ThreadInv(t)'
  BY <1>1, <1>2, <1>3
     DEF ThreadInv, Soundness, ReturnInv, ReentryInv, RefusedInv, ConsentInv, AuditInv
<1>7. QED
  BY <1>4, <1>5, <1>6, OneThread

\* A re-entry that returns has excluded its denial.
LEMMA ReturnKeeps ==
  ASSUME IInv, NEW t \in Threads, Return(t)
  PROVE  IInv'
<1>1. TypeOK /\ ThreadInv(t) /\ refused[t] \subseteq Names /\ reported[t] \in Names \cup {None}
  BY ThreadTypes DEF IInv
<1>2. /\ phase[t] = "running" /\ live[t].next \in {"end", "paused"} /\ saved[t] = live[t]
      /\ phase' = [phase EXCEPT ![t] = IF live[t].next = "end" THEN "ended" ELSE "paused"]
      /\ refused' = [refused EXCEPT ![t] = refused[t] \cup ({reported[t]} \ {None})]
      /\ UNCHANGED <<world, live, saved, reported, emitted, consent, budget>>
  BY DEF Return
<1>3. /\ phase' \in [Threads -> Phases]
      /\ phase'[t] = (IF live[t].next = "end" THEN "ended" ELSE "paused")
      /\ \A u \in Threads \ {t} : phase'[u] = phase[u]
  BY <1>1, <1>2 DEF TypeOK, Phases
<1>4. /\ refused' \in [Threads -> SUBSET Names]
      /\ refused'[t] = refused[t] \cup ({reported[t]} \ {None})
      /\ \A u \in Threads \ {t} : refused'[u] = refused[u]
  BY <1>1, <1>2 DEF TypeOK
<1>5. TypeOK'
  BY <1>1, <1>2, <1>3, <1>4 DEF TypeOK, world
<1>6. OnlyAt(t)
  BY <1>2, <1>3, <1>4 DEF OnlyAt
<1>7. ThreadInv(t)'
  <2>1. Soundness(t)' /\ ReturnInv(t)' /\ ReentryInv(t)' /\ AuditInv(t)'
    BY <1>1, <1>2, <1>3 DEF ThreadInv, Soundness, ReturnInv, ReentryInv, AuditInv
  <2>2. RefusedInv(t)'
    BY <1>1, <1>2, <1>4 DEF ThreadInv, ReentryInv, RefusedInv
  <2>3. ConsentInv(t)'
    BY <1>1, <1>2, <1>3 DEF ThreadInv, ConsentInv
  <2>4. QED
    BY <2>1, <2>2, <2>3 DEF ThreadInv
<1>8. QED
  BY <1>5, <1>6, <1>7, OneThread

\* An exception saves a sound state.
LEMMA RaisesKeeps ==
  ASSUME IInv, NEW t \in Threads, phase[t] = "running", Raises(t),
         budget' \in [invocations : 0..MaxInvocations, events : 0..MaxEvents]
  PROVE  IInv'
<1>1. TypeOK /\ ThreadInv(t) /\ live[t] \in States
  BY ThreadTypes DEF IInv
<1>2. /\ saved' = [saved EXCEPT ![t] = live[t]] /\ phase' = [phase EXCEPT ![t] = "raised"]
      /\ UNCHANGED <<world, live, reported, emitted, consent, refused>>
  BY DEF Raises
<1>3. /\ saved' \in [Threads -> States] /\ saved'[t] = live[t]
      /\ phase' \in [Threads -> Phases] /\ phase'[t] = "raised"
      /\ \A u \in Threads \ {t} : saved'[u] = saved[u] /\ phase'[u] = phase[u]
  BY <1>1, <1>2 DEF TypeOK, Phases
<1>4. TypeOK'
  BY <1>1, <1>2, <1>3 DEF TypeOK, world
<1>5. OnlyAt(t)
  BY <1>2, <1>3 DEF OnlyAt
<1>6. ThreadInv(t)'
  BY <1>1, <1>2, <1>3
     DEF ThreadInv, Soundness, ReturnInv, ReentryInv, RefusedInv, ConsentInv, AuditInv
<1>7. QED
  BY <1>4, <1>5, <1>6, OneThread

\* A crash goes back to a sound state, which has forgotten no refusal.
LEMMA CrashKeeps ==
  ASSUME IInv, NEW t \in Threads, Crash(t)
  PROVE  IInv'
<1>1. TypeOK /\ ThreadInv(t) /\ saved[t] \in States
  BY ThreadTypes DEF IInv
<1>2. /\ live' = [live EXCEPT ![t] = saved[t]] /\ phase' = [phase EXCEPT ![t] = "raised"]
      /\ UNCHANGED <<world, saved, reported, emitted, consent, refused>>
  BY DEF Crash
<1>3. /\ live' \in [Threads -> States] /\ live'[t] = saved[t]
      /\ phase' \in [Threads -> Phases] /\ phase'[t] = "raised"
      /\ \A u \in Threads \ {t} : live'[u] = live[u] /\ phase'[u] = phase[u]
  BY <1>1, <1>2 DEF TypeOK, Phases
<1>4. budget' \in [invocations : 0..MaxInvocations, events : 0..MaxEvents]
  BY <1>1, BoundsAssumption DEF Crash, TypeOK
<1>5. TypeOK'
  BY <1>1, <1>2, <1>3, <1>4 DEF TypeOK, world
<1>6. OnlyAt(t)
  BY <1>2, <1>3 DEF OnlyAt
<1>7. ThreadInv(t)'
  BY <1>1, <1>2, <1>3
     DEF ThreadInv, Soundness, ReturnInv, ReentryInv, RefusedInv, ConsentInv, AuditInv
<1>8. QED
  BY <1>5, <1>6, <1>7, OneThread

(***************************************************************************)
(* Nodes.                                                                  *)
(***************************************************************************)

\* What a node makes of the invocation under way.
LEMMA GoesEffect ==
  ASSUME TypeOK, NEW t \in Threads, NEW s \in States, Goes(t, s)
  PROVE  /\ live' \in [Threads -> States] /\ live'[t] = s
         /\ \A u \in Threads \ {t} : live'[u] = live[u]
         /\ UNCHANGED <<registered, ceiling, active, saved, phase, reported, refused, budget>>
BY DEF TypeOK, Goes, world

\* A node that keeps the exclusions, emits nothing, and ends with the right
\* status, keeps the invariant.
LEMMA NodeKeeps ==
  ASSUME IInv, NEW t \in Threads, NEW s \in States, Goes(t, s), phase[t] = "running",
         live[t].next # "handle_denial", UNCHANGED emitted,
         consent' \in [Threads -> BOOLEAN],
         \A u \in Threads \ {t} : consent'[u] = consent[u],
         SoundState(s), s.excluded = live[t].excluded,
         live[t].next \notin Early => s.next \notin Early,
         live[t].next \in Late => s.next \in Late,
         s.next = "end" /\ s.nba # None => RightStatus(s, consent'[t])
  PROVE  IInv'
<1>1. TypeOK /\ ThreadInv(t)
  BY DEF IInv
<1>2. /\ live' \in [Threads -> States] /\ live'[t] = s
      /\ \A u \in Threads \ {t} : live'[u] = live[u]
      /\ UNCHANGED <<registered, ceiling, active, saved, phase, reported, refused, budget>>
  BY <1>1, GoesEffect
<1>3. TypeOK'
  BY <1>1, <1>2 DEF TypeOK
<1>4. OnlyAt(t)
  BY <1>2 DEF OnlyAt
<1>5. ThreadInv(t)'
  <2>1. Soundness(t)' /\ ReturnInv(t)'
    BY <1>1, <1>2 DEF ThreadInv, Soundness, ReturnInv
  <2>2. ReentryInv(t)'
    BY <1>1, <1>2 DEF ThreadInv, ReentryInv
  <2>3. RefusedInv(t)' /\ ConsentInv(t)' /\ AuditInv(t)'
    BY <1>1, <1>2 DEF ThreadInv, RefusedInv, ConsentInv, AuditInv
  <2>4. QED
    BY <2>1, <2>2, <2>3 DEF ThreadInv
<1>6. QED
  BY <1>3, <1>4, <1>5, OneThread

\* Other tools, and offerings that are not filtered yet.
LEMMA ResolveEntitlementKeeps ==
  ASSUME IInv, NEW t \in Threads, ResolveEntitlement(t)
  PROVE  IInv'
<1> DEFINE s == [live[t] EXCEPT !.tools = ceiling[ClientOf[t]], !.next = "filter_offerings"]
<1>1. TypeOK /\ live[t] \in States /\ SoundState(live[t])
  BY ThreadTypes DEF IInv, ThreadInv, Soundness
<1>2. phase[t] = "running" /\ live[t].next = "resolve_entitlement"
  BY DEF ResolveEntitlement, At
<1>3. ceiling[ClientOf[t]] \in SUBSET Names /\ "filter_offerings" \in Nodes
  BY <1>1 DEF TypeOK, Clients, Nodes
<1>4. s \in States
  BY <1>1, <1>3 DEF States
<1>5. s.next = "filter_offerings" /\ s.excluded = live[t].excluded /\ s.denied = live[t].denied
  BY <1>1 DEF States
<1>6. Goes(t, s) /\ UNCHANGED <<emitted, consent>>
  BY DEF ResolveEntitlement
<1> HIDE DEF s
<1>7. SoundState(s)
  BY <1>1, <1>2, <1>5 DEF SoundState, Early, Late
<1>8. consent' \in [Threads -> BOOLEAN]
  BY <1>1, <1>6 DEF TypeOK
<1>9. QED
  BY <1>2, <1>4, <1>5, <1>6, <1>7, <1>8, NodeKeeps DEF Early, Late

\* What is filtered is entitled and consented to.
LEMMA FilterOfferingsKeeps ==
  ASSUME IInv, NEW t \in Threads, FilterOfferings(t)
  PROVE  IInv'
<1> DEFINE offerings == FilteredOfferings(live[t].tools)
           s == [live[t] EXCEPT !.offerings = offerings, !.next = "decide_nba"]
<1>1. TypeOK /\ live[t] \in States /\ SoundState(live[t])
  BY ThreadTypes DEF IInv, ThreadInv, Soundness
<1>2. phase[t] = "running" /\ live[t].next = "filter_offerings"
  BY DEF FilterOfferings, At
<1>3. /\ offerings \in SUBSET Names /\ "decide_nba" \in Nodes
      /\ offerings \subseteq live[t].tools \cap Consented
  BY <1>1 DEF TypeOK, FilteredOfferings, Nodes
<1>4. Goes(t, s) /\ UNCHANGED <<emitted, consent>>
  BY DEF FilterOfferings
<1> HIDE DEF offerings
<1>5. s \in States
  BY <1>1, <1>3 DEF States
<1>6. /\ s.next = "decide_nba" /\ s.excluded = live[t].excluded /\ s.denied = live[t].denied
      /\ s.offerings = offerings /\ s.tools = live[t].tools
  BY <1>1 DEF States
<1> HIDE DEF s
<1>7. SoundState(s)
  BY <1>1, <1>2, <1>3, <1>6 DEF SoundState, Early, Late
<1>8. consent' \in [Threads -> BOOLEAN]
  BY <1>1, <1>4 DEF TypeOK
<1>9. QED
  BY <1>2, <1>4, <1>5, <1>6, <1>7, <1>8, NodeKeeps DEF Early, Late

\* A new decision, which nobody has approved.
LEMMA DecideNbaKeeps ==
  ASSUME IInv, NEW t \in Threads, DecideNba(t)
  PROVE  IInv'
<1> DEFINE s == AfterDecision(live[t])
<1>1. TypeOK /\ live[t] \in States /\ SoundState(live[t])
  BY ThreadTypes DEF IInv, ThreadInv, Soundness
<1>2. phase[t] = "running" /\ live[t].next = "decide_nba"
  BY DEF DecideNba, At
<1>3. s \in States /\ SoundState(s) /\ s.excluded = live[t].excluded /\ s.next = "approval_gate"
  BY <1>1, <1>2, DecisionSound
<1>4. Goes(t, s) /\ UNCHANGED emitted /\ consent' = [consent EXCEPT ![t] = FALSE]
  BY DEF DecideNba
<1>5. consent' \in [Threads -> BOOLEAN] /\ \A u \in Threads \ {t} : consent'[u] = consent[u]
  BY <1>1, <1>4 DEF TypeOK
<1> HIDE DEF s
<1>6. QED
  BY <1>2, <1>3, <1>4, <1>5, NodeKeeps DEF Early, Late

\* The gate pauses for a gated decision; what it lets through is not gated.
LEMMA ApprovalGateKeeps ==
  ASSUME IInv, NEW t \in Threads, ApprovalGate(t)
  PROVE  IInv'
<1> DEFINE l == live[t]
           passed == [l EXCEPT !.status = IF l.nba = None THEN "not_applicable" ELSE "not_required",
                               !.next = "end"]
           s == IF l.nba # None /\ l.gated THEN [l EXCEPT !.next = "paused"] ELSE passed
<1>1. TypeOK /\ l \in States /\ SoundState(l)
  BY ThreadTypes DEF IInv, ThreadInv, Soundness
<1>2. phase[t] = "running" /\ l.next = "approval_gate"
  BY DEF ApprovalGate, At
<1>3. Goes(t, s) /\ UNCHANGED <<emitted, consent>>
  BY DEF ApprovalGate
<1>4. consent' \in [Threads -> BOOLEAN]
  BY <1>1, <1>3 DEF TypeOK
<1> HIDE DEF l
<1>5. s \in States
  <2>1. "end" \in Nodes /\ "paused" \in Nodes
    BY DEF Nodes
  <2>2. (IF l.nba = None THEN "not_applicable" ELSE "not_required")
            \in {"unset", "not_applicable", "not_required", "approved", "denied"}
    OBVIOUS
  <2>3. [l EXCEPT !.next = "paused"] \in States /\ passed \in States
    BY <1>1, <2>1, <2>2 DEF States
  <2>4. QED
    BY <2>3
<1>6. /\ s.next = IF l.nba # None /\ l.gated THEN "paused" ELSE "end"
      /\ s.excluded = l.excluded /\ s.denied = l.denied /\ s.nba = l.nba /\ s.gated = l.gated
      /\ s.offerings = l.offerings /\ s.tools = l.tools
  BY <1>1 DEF States
<1> HIDE DEF s
<1>7. SoundState(s)
  <2>1. l.gated = RequiresApproval(l.nba)
    BY <1>1, <1>2 DEF SoundState, Late
  <2>2. s.next = "paused" => s.nba \in Gated
    BY <1>6, <2>1 DEF RequiresApproval
  <2>3. QED
    BY <1>1, <1>2, <1>6, <2>1, <2>2 DEF SoundState, Early, Late
<1>8. s.next = "end" /\ s.nba # None => RightStatus(s, consent'[t])
  <2> SUFFICES ASSUME s.next = "end", s.nba # None PROVE RightStatus(s, consent'[t])
    OBVIOUS
  <2>1. l.nba # None /\ ~l.gated /\ s.nba \notin Gated
    BY <1>1, <1>2, <1>6 DEF SoundState, Late, RequiresApproval
  <2>2. s.status = "not_required"
    BY <1>1, <2>1 DEF States, s
  <2>3. QED
    BY <2>1, <2>2 DEF RightStatus
<1>9. QED
  BY <1>2, <1>3, <1>4, <1>5, <1>6, <1>7, <1>8, NodeKeeps DEF l, Early, Late

\* The denial is excluded for good, after its event.
LEMMA HandleDenialKeeps ==
  ASSUME IInv, NEW t \in Threads, HandleDenial(t)
  PROVE  IInv'
<1> DEFINE s == AfterDenial(live[t])
<1>1. TypeOK /\ ThreadInv(t) /\ live[t] \in States /\ SoundState(live[t]) /\ emitted[t] \subseteq Names
  BY ThreadTypes DEF IInv, ThreadInv, Soundness
<1>2. phase[t] = "running" /\ live[t].next = "handle_denial"
  BY DEF HandleDenial, At
<1>3. /\ s \in States /\ SoundState(s) /\ s.excluded = live[t].excluded \cup {live[t].denied}
      /\ s.next = IF s.nba = None THEN "end" ELSE "approval_gate"
  BY <1>1, <1>2, DenialSound
<1>4. /\ Goes(t, s)
      /\ emitted' = [emitted EXCEPT ![t] = emitted[t] \cup {live[t].denied}]
      /\ consent' = [consent EXCEPT ![t] = FALSE]
  BY DEF HandleDenial
<1> HIDE DEF s
<1>5. /\ live' \in [Threads -> States] /\ live'[t] = s
      /\ \A u \in Threads \ {t} : live'[u] = live[u]
      /\ UNCHANGED <<registered, ceiling, active, saved, phase, reported, refused, budget>>
  BY <1>1, <1>3, <1>4, GoesEffect
<1>6. live[t].denied \in Names
  BY <1>1, <1>2 DEF SoundState, States
<1>7. /\ emitted' \in [Threads -> SUBSET Names] /\ consent' \in [Threads -> BOOLEAN]
      /\ emitted'[t] = emitted[t] \cup {live[t].denied}
      /\ \A u \in Threads \ {t} : emitted'[u] = emitted[u] /\ consent'[u] = consent[u]
  BY <1>1, <1>4, <1>6 DEF TypeOK
<1>8. TypeOK'
  BY <1>1, <1>5, <1>7 DEF TypeOK
<1>9. OnlyAt(t)
  BY <1>5, <1>7 DEF OnlyAt
<1>10. ThreadInv(t)'
  <2>1. Soundness(t)' /\ ReturnInv(t)'
    BY <1>1, <1>2, <1>3, <1>5 DEF ThreadInv, Soundness, ReturnInv
  <2>2. ReentryInv(t)'
    BY <1>1, <1>2, <1>3, <1>5 DEF ThreadInv, ReentryInv, Early, Late
  <2>3. ConsentInv(t)'
    BY <1>3, <1>5, NoneIsNoName DEF ConsentInv
  <2>4. RefusedInv(t)' /\ AuditInv(t)'
    BY <1>1, <1>3, <1>5, <1>7 DEF ThreadInv, RefusedInv, AuditInv
  <2>5. QED
    BY <2>1, <2>2, <2>3, <2>4 DEF ThreadInv
<1>11. QED
  BY <1>8, <1>9, <1>10, OneThread

(***************************************************************************)
(* Dispatches, the world, and every step.                                  *)
(***************************************************************************)

\* A dispatch changes what the caller knows, and nothing else.
LEMMA DispatchKeeps ==
  ASSUME IInv, NEW t \in Threads, Dispatch(t)
  PROVE  IInv'
<1>1. TypeOK /\ ThreadInv(t)
  BY DEF IInv
<1>2. PICK outcome \in {"over", "denied"} :
        /\ phase' = [phase EXCEPT ![t] = outcome] /\ phase[t] \in {"paused", "ended"}
        /\ UNCHANGED <<world, live, saved, reported, emitted, consent, refused, budget>>
  BY DEF Dispatch, Dispatchable
<1>3. outcome \in Phases
  BY DEF Phases
<1>4. /\ phase' \in [Threads -> Phases] /\ phase'[t] \in {"over", "denied"}
      /\ \A u \in Threads \ {t} : phase'[u] = phase[u]
  BY <1>1, <1>2, <1>3 DEF TypeOK
<1>5. TypeOK'
  BY <1>1, <1>2, <1>4 DEF TypeOK, world
<1>6. OnlyAt(t)
  BY <1>2, <1>4 DEF OnlyAt
<1>7. ThreadInv(t)'
  BY <1>1, <1>2, <1>4
     DEF ThreadInv, Soundness, ReturnInv, ReentryInv, RefusedInv, ConsentInv, AuditInv
<1>8. QED
  BY <1>5, <1>6, <1>7, OneThread

\* Revocations, loads and the catalog do not reach into a thread.
LEMMA WorldKeeps ==
  ASSUME IInv,
         \/ \E c \in Clients : RevokeClient(c)
         \/ LoadProfiles
         \/ CatalogChanges
  PROVE  IInv'
<1>1. TypeOK /\ Changes
  BY DEF IInv, RevokeClient, LoadProfiles, CatalogChanges
<1>2. budget' \in [invocations : 0..MaxInvocations, events : 0..MaxEvents]
  BY <1>1, BoundsAssumption DEF Changes, TypeOK
<1>3. UNCHANGED <<live, saved, phase, reported, emitted, consent, refused>>
  BY <1>1 DEF Changes
<1>4. /\ registered' \subseteq Clients /\ ceiling' \in [Clients -> SUBSET Names]
      /\ active' \subseteq Names
  BY <1>1, SetsAssumption DEF TypeOK, RevokeClient, LoadProfiles, CatalogChanges
<1>5. TypeOK'
  BY <1>1, <1>2, <1>3, <1>4 DEF TypeOK
<1>6. QED
  BY <1>3, <1>5, ThreadsAlone

\* Every step keeps the invariant.
LEMMA Inductive == IInv /\ [Next]_vars => IInv'
<1> SUFFICES ASSUME IInv, [Next]_vars PROVE IInv'
  OBVIOUS
<1>1. TypeOK /\ budget \in [invocations : 0..MaxInvocations, events : 0..MaxEvents]
  BY DEF IInv, TypeOK
<1>2. CASE UNCHANGED vars
  <2>1. TypeOK'
    BY <1>1, <1>2 DEF vars, world, TypeOK
  <2>2. QED
    BY <1>2, <2>1, ThreadsAlone DEF vars
<1>3. ASSUME NEW t \in Threads, Graph(t) PROVE IInv'
  <2>1. ASSUME UnknownClient(t) PROVE IInv'
    BY <1>1, <2>1, RaisesKeeps DEF UnknownClient, At
  <2>2. QED
    BY <1>3, <2>1, CheckpointKeeps, ReturnKeeps, ResolveEntitlementKeeps, FilterOfferingsKeeps,
       DecideNbaKeeps, HandleDenialKeeps, ApprovalGateKeeps DEF Graph, Node
<1>4. ASSUME NEW t \in Threads, Dispatch(t) \/ Reenter(t) PROVE IInv'
  BY <1>4, DispatchKeeps, ReenterKeeps
<1>5. ASSUME NEW t \in Threads, Start(t) PROVE IInv'
  BY <1>1, <1>5, CountedEffect, InvokeKeeps DEF Start
<1>6. ASSUME NEW t \in Threads, Answer(t) PROVE IInv'
  BY <1>1, <1>6, CountedEffect, ResumeKeeps DEF Answer
<1>7. ASSUME NEW t \in Threads, Invoke(t), UNCHANGED budget PROVE IInv'
  BY <1>1, <1>7, InvokeKeeps
<1>8. ASSUME Environment PROVE IInv'
  <2>1. ASSUME NEW t \in Threads, DenialEventFails(t) PROVE IInv'
    <3>1. budget' \in [invocations : 0..MaxInvocations, events : 0..MaxEvents]
      BY <1>1, <2>1, BoundsAssumption DEF DenialEventFails
    <3>2. QED
      BY <2>1, <3>1, RaisesKeeps DEF DenialEventFails, At
  <2>2. QED
    BY <1>8, <2>1, CrashKeeps, WorldKeeps DEF Environment
<1>9. QED
  BY <1>2, <1>3, <1>4, <1>5, <1>6, <1>7, <1>8 DEF Next

(***************************************************************************)
(* The theorems.                                                           *)
(***************************************************************************)

\* The invariant holds for ever.
THEOREM Invariance == Spec => []IInv
BY Initially, Inductive, PTL DEF Spec

\* The graph's state, checkpointed or not, and the runtime's keep their types.
THEOREM TypeCorrect == Spec => []TypeOK
<1>1. IInv => TypeOK
  BY DEF IInv
<1>2. QED
  BY <1>1, Invariance, PTL

\* The four properties of the journey, in one state.
LEMMA SafeStates ==
  IInv => RefusedNotProposed /\ ProposalsEntitled /\ ApprovalMatchesDecision /\ ExclusionsAudited
<1> SUFFICES ASSUME IInv
             PROVE  RefusedNotProposed /\ ProposalsEntitled /\ ApprovalMatchesDecision /\ ExclusionsAudited
  OBVIOUS
<1>1. ASSUME NEW t \in Threads, Delivered(t)
      PROVE  /\ saved[t] = live[t] /\ saved[t].next \in Late \ Early
             /\ SoundState(saved[t]) /\ RefusedInv(t) /\ refused[t] \subseteq Names
  BY <1>1, ThreadTypes DEF IInv, ThreadInv, Soundness, ReturnInv, Delivered, Late, Early
<1>2. RefusedNotProposed
  <2> SUFFICES ASSUME NEW t \in Threads, Delivered(t) PROVE saved[t].nba \notin refused[t]
    BY DEF RefusedNotProposed
  <2>1. QED
    BY <1>1, NoneIsNoName DEF RefusedInv, SoundState
<1>3. ProposalsEntitled
  BY <1>1 DEF ProposalsEntitled, SoundState
<1>4. ApprovalMatchesDecision
  BY DEF IInv, ThreadInv, ReturnInv, ConsentInv, RightStatus, ApprovalMatchesDecision
<1>5. ExclusionsAudited
  BY DEF IInv, ThreadInv, AuditInv, ExclusionsAudited
<1>6. QED
  BY <1>2, <1>3, <1>4, <1>5

\* An action whose denial was handled is not proposed on that thread again, over
\* crashes, failures of the sink, fresh entries and repeated re-entries.
THEOREM DenialsLast == Spec => []RefusedNotProposed
BY Invariance, SafeStates, PTL

\* Every proposal is entitled and consented to, those of re-entries included.
THEOREM ProposalsHold == Spec => []ProposalsEntitled
BY Invariance, SafeStates, PTL

\* An ended journey says of its decision what became of its approval, whatever
\* earlier rounds of the thread have left.
THEOREM StatusIsOfDecision == Spec => []ApprovalMatchesDecision
BY Invariance, SafeStates, PTL

\* No exclusion is in effect without its event.
THEOREM NoSilentExclusion == Spec => []ExclusionsAudited
BY Invariance, SafeStates, PTL

(***************************************************************************)
(* Denials run out.                                                        *)
(***************************************************************************)

\* The invocation under way has what was saved, and perhaps more.
KeptInv == \A t \in Threads : saved[t].excluded \subseteq live[t].excluded

\* What the Gateway denies is a decision that was dispatched.
DeniedInv == \A t \in Threads : phase[t] = "denied" => saved[t].nba # None

\* A step saves what is live, or saves nothing and goes on from it or from what
\* is saved.
Saves(t) ==
    \/ saved'[t] = live[t] /\ live'[t] = live[t]
    \/ saved'[t] = saved[t] /\ saved[t].excluded \subseteq live'[t].excluded

\* What a node or an entry changes of a state.
LEMMA ExclusionsStay ==
  ASSUME NEW s \in States
  PROVE  /\ Enter(s).excluded = s.excluded
         /\ \A d : Enter([s EXCEPT !.denied = d]).excluded = s.excluded
         /\ \A d : [s EXCEPT !.status = d, !.next = "end"].excluded = s.excluded
         /\ \A tools : [s EXCEPT !.tools = tools, !.next = "filter_offerings"].excluded = s.excluded
         /\ \A o : [s EXCEPT !.offerings = o, !.next = "decide_nba"].excluded = s.excluded
         /\ AfterDecision(s).excluded = s.excluded
         /\ s.excluded \subseteq AfterDenial(s).excluded
         /\ [s EXCEPT !.next = "paused"].excluded = s.excluded
BY DEF States, Enter, AfterDecision, AfterDenial

\* Every step is of that kind, for every thread.
LEMMA StepSaves ==
  ASSUME TypeOK, KeptInv, [Next]_vars, NEW t \in Threads
  PROVE  Saves(t)
<1>1. /\ live \in [Threads -> States] /\ saved \in [Threads -> States]
      /\ live[t] \in States /\ saved[t] \in States
      /\ saved[t].excluded \subseteq live[t].excluded
  BY DEF TypeOK, KeptInv
<1>2. CASE UNCHANGED <<live, saved>>
  BY <1>1, <1>2 DEF Saves
<1>3. ASSUME NEW u \in Threads, NEW s, live' = [live EXCEPT ![u] = s], UNCHANGED saved,
             saved[u].excluded \subseteq s.excluded
      PROVE  Saves(t)
  BY <1>1, <1>3 DEF Saves
<1>4. ASSUME NEW u \in Threads, UNCHANGED live,
             saved' = [saved EXCEPT ![u] = live[u]]
      PROVE  Saves(t)
  BY <1>1, <1>4 DEF Saves
<1>5. ASSUME NEW u \in Threads, NEW s, Goes(u, s), live[u].excluded \subseteq s.excluded
      PROVE  Saves(t)
  BY <1>3, <1>5 DEF Goes, KeptInv
<1>6. ASSUME NEW u \in Threads, NEW s, NEW denial, Runs(u, s, denial),
             s.excluded = saved[u].excluded
      PROVE  Saves(t)
  BY <1>3, <1>6 DEF Runs
<1>7. \A u \in Threads : live[u] \in States /\ saved[u] \in States
  BY <1>1
<1>8. ASSUME NEW u \in Threads, Node(u) PROVE Saves(t)
  <2>1. CASE ResolveEntitlement(u)
    BY <1>5, <1>7, <2>1, ExclusionsStay DEF ResolveEntitlement
  <2>2. CASE UnknownClient(u)
    BY <1>4, <2>2 DEF UnknownClient, Raises
  <2>3. CASE FilterOfferings(u)
    BY <1>5, <1>7, <2>3, ExclusionsStay DEF FilterOfferings
  <2>4. CASE DecideNba(u)
    BY <1>5, <1>7, <2>4, ExclusionsStay DEF DecideNba
  <2>5. CASE HandleDenial(u)
    BY <1>5, <1>7, <2>5, ExclusionsStay DEF HandleDenial
  <2>6. CASE ApprovalGate(u)
    <3>1. CASE live[u].nba # None /\ live[u].gated
      BY <1>5, <1>7, <2>6, <3>1, ExclusionsStay DEF ApprovalGate
    <3>2. CASE ~(live[u].nba # None /\ live[u].gated)
      BY <1>5, <1>7, <2>6, <3>2, ExclusionsStay DEF ApprovalGate
    <3>3. QED
      BY <3>1, <3>2
  <2>7. QED
    BY <1>8, <2>1, <2>2, <2>3, <2>4, <2>5, <2>6 DEF Node
<1>9. ASSUME NEW u \in Threads, Invoke(u) PROVE Saves(t)
  BY <1>6, <1>7, <1>9, ExclusionsStay DEF Invoke
<1>10. ASSUME NEW u \in Threads, Reenter(u) PROVE Saves(t)
  <2> DEFINE d == IF phase[u] = "denied" THEN saved[u].nba ELSE reported[u]
  <2>1. Runs(u, Enter([saved[u] EXCEPT !.denied = d]), d)
    BY <1>10 DEF Reenter
  <2> HIDE DEF d
  <2>2. QED
    BY <1>6, <1>7, <2>1, ExclusionsStay
<1>11. ASSUME NEW u \in Threads, NEW decision, Resume(u, decision) PROVE Saves(t)
  <2> DEFINE d == IF decision = "approved" THEN decision ELSE "denied"
  <2>1. Runs(u, [saved[u] EXCEPT !.status = d, !.next = "end"], None)
    BY <1>11 DEF Resume
  <2> HIDE DEF d
  <2>2. QED
    BY <1>6, <1>7, <2>1, ExclusionsStay
<1>12. ASSUME NEW u \in Threads, Checkpoint(u) \/ DenialEventFails(u) PROVE Saves(t)
  BY <1>4, <1>12 DEF Checkpoint, DenialEventFails, Raises
<1>13. ASSUME NEW u \in Threads, Crash(u) PROVE Saves(t)
  BY <1>3, <1>13 DEF Crash
<1>14. ASSUME \/ \E u \in Threads : Return(u) \/ Dispatch(u)
              \/ \E c \in Clients : RevokeClient(c)
              \/ LoadProfiles \/ CatalogChanges \/ UNCHANGED vars
       PROVE  UNCHANGED <<live, saved>>
  BY <1>14 DEF Return, Dispatch, RevokeClient, LoadProfiles, CatalogChanges, Changes, vars
<1>15. QED
  BY <1>2, <1>8, <1>9, <1>10, <1>11, <1>12, <1>13, <1>14
     DEF Next, Graph, Start, Answer, Environment


\* A denial is the answer to a dispatch, until a re-entry takes it up.
LEMMA DeniedStep == TypeOK /\ DeniedInv /\ [Next]_vars => DeniedInv'
<1> SUFFICES ASSUME TypeOK, DeniedInv, [Next]_vars, NEW t \in Threads, phase'[t] = "denied"
             PROVE  saved'[t].nba # None
  BY DEF DeniedInv
<1>1. phase \in [Threads -> Phases] /\ saved \in [Threads -> States]
  BY DEF TypeOK
<1>2. CASE UNCHANGED <<phase, saved>>
  BY <1>2 DEF DeniedInv
<1>3. ASSUME NEW u \in Threads, NEW p, p # "denied", phase' = [phase EXCEPT ![u] = p],
             saved' = saved \/ saved' = [saved EXCEPT ![u] = live[u]]
      PROVE  saved'[t].nba # None
  <2>1. t # u /\ phase[t] = "denied"
    BY <1>1, <1>3
  <2>2. saved'[t] = saved[t]
    BY <1>1, <1>3, <2>1
  <2>3. QED
    BY <2>1, <2>2 DEF DeniedInv
<1>4. ASSUME NEW u \in Threads, Checkpoint(u) PROVE saved'[t].nba # None
  <2>1. /\ phase[u] = "running" /\ UNCHANGED phase /\ saved' = [saved EXCEPT ![u] = live[u]]
    BY <1>4 DEF Checkpoint
  <2>2. t # u /\ saved'[t] = saved[t]
    BY <1>1, <2>1
  <2>3. QED
    BY <2>1, <2>2 DEF DeniedInv
<1>5. ASSUME NEW u \in Threads, Dispatch(u) PROVE saved'[t].nba # None
  <2>1. PICK outcome : phase' = [phase EXCEPT ![u] = outcome] /\ UNCHANGED saved /\ saved[u].nba # None
    BY <1>5 DEF Dispatch, Dispatchable
  <2>2. t = u \/ phase'[t] = phase[t]
    BY <1>1, <2>1
  <2>3. QED
    BY <2>1, <2>2 DEF DeniedInv
<1>6. ASSUME NEW u \in Threads, NEW s, Goes(u, s) PROVE saved'[t].nba # None
  BY <1>2, <1>6 DEF Goes
<1>7. ASSUME NEW u \in Threads, NEW s, NEW denial, Runs(u, s, denial)
      PROVE  saved'[t].nba # None
  BY <1>3, <1>7 DEF Runs
<1>8. ASSUME NEW u \in Threads,
             \/ ResolveEntitlement(u) \/ FilterOfferings(u) \/ DecideNba(u) \/ HandleDenial(u)
             \/ ApprovalGate(u)
      PROVE  \E s : Goes(u, s)
  BY <1>8 DEF ResolveEntitlement, FilterOfferings, DecideNba, HandleDenial, ApprovalGate
<1>9. ASSUME NEW u \in Threads,
             \/ Invoke(u)
             \/ \E decision : Resume(u, decision)
             \/ Reenter(u)
      PROVE  \E s, denial : Runs(u, s, denial)
  BY <1>9 DEF Invoke, Resume, Reenter
<1>10. ASSUME NEW u \in Threads, UnknownClient(u) \/ DenialEventFails(u) \/ Crash(u)
       PROVE  saved'[t].nba # None
  BY <1>3, <1>10 DEF UnknownClient, DenialEventFails, Raises, Crash
<1>11. ASSUME NEW u \in Threads, Return(u) PROVE saved'[t].nba # None
  BY <1>3, <1>11 DEF Return
<1>12. ASSUME \/ \E c \in Clients : RevokeClient(c)
              \/ LoadProfiles \/ CatalogChanges \/ UNCHANGED vars
       PROVE  UNCHANGED <<phase, saved>>
  BY <1>12 DEF RevokeClient, LoadProfiles, CatalogChanges, Changes, vars
<1>13. ASSUME NEW u \in Threads, Graph(u) \/ Dispatch(u) \/ Reenter(u) \/ Start(u) \/ Answer(u)
       PROVE  saved'[t].nba # None
  BY <1>4, <1>5, <1>6, <1>7, <1>8, <1>9, <1>10, <1>11, <1>13
     DEF Graph, Node, Start, Answer
<1>14. QED
  BY <1>2, <1>7, <1>9, <1>10, <1>12, <1>13 DEF Next, Environment

\* Both hold for ever.
LEMMA KeptInvariance == Spec => [](KeptInv /\ DeniedInv)
<1>1. Init => KeptInv /\ DeniedInv
  BY DEF Init, KeptInv, DeniedInv
<1>2. TypeOK /\ KeptInv /\ DeniedInv /\ [Next]_vars => KeptInv' /\ DeniedInv'
  <2> SUFFICES ASSUME TypeOK, KeptInv, DeniedInv, [Next]_vars PROVE KeptInv' /\ DeniedInv'
    OBVIOUS
  <2>1. ASSUME NEW t \in Threads PROVE saved'[t].excluded \subseteq live'[t].excluded
    BY StepSaves DEF Saves
  <2>2. QED
    BY <2>1, DeniedStep DEF KeptInv
<1>3. QED
  BY <1>1, <1>2, TypeCorrect, PTL DEF Spec

\* What the Gateway denies is an action that is not excluded yet: a denial leads
\* to an exclusion the thread did not have.
THEOREM DenialsAreNew ==
  Spec => [](\A t \in Threads : phase[t] = "denied" => saved[t].nba \in Names \ saved[t].excluded)
<1>1. ASSUME IInv, DeniedInv
      PROVE  \A t \in Threads : phase[t] = "denied" => saved[t].nba \in Names \ saved[t].excluded
  <2> SUFFICES ASSUME NEW t \in Threads, phase[t] = "denied"
               PROVE  saved[t].nba \in Names \ saved[t].excluded
    OBVIOUS
  <2>1. saved[t] \in States /\ SoundState(saved[t]) /\ saved[t].next \in {"paused", "end"}
    BY <1>1, ThreadTypes DEF IInv, ThreadInv, Soundness, ReturnInv
  <2>2. saved[t].nba # None
    BY <1>1 DEF DeniedInv
  <2>3. QED
    BY <2>1, <2>2 DEF SoundState, Late, States
<1>2. QED
  BY <1>1, Invariance, KeptInvariance, PTL

\* And an exclusion that was saved is never lost, over crashes, fresh entries and
\* answers of approvers.  There being finitely many capabilities, this and the
\* theorem before it are why denials end.
THEOREM ExclusionsGrow ==
  Spec => [][\A t \in Threads : saved[t].excluded \subseteq saved'[t].excluded]_vars
<1>1. ASSUME TypeOK, KeptInv, [Next]_vars
      PROVE  [\A t \in Threads : saved[t].excluded \subseteq saved'[t].excluded]_vars
  BY <1>1, StepSaves DEF Saves, KeptInv
<1>2. QED
  BY <1>1, TypeCorrect, KeptInvariance, PTL DEF Spec

(***************************************************************************)
(* Mode B invokes journeys, and does nothing else to them.                 *)
(***************************************************************************)

\* The orchestrator counts its threads from 1, and waits for one of them.
Counts(m) ==
    \E step, at, candidates, rounds :
        /\ m = [pc |-> step, at |-> at, candidates |-> candidates, rounds |-> rounds]
        /\ at \in Nat \ {0}
        /\ step = "invoke" => at \in DOMAIN Order

AtInv == Counts(modeB)

\* An idle orchestrator is about to begin with the first one.
LEMMA IdleCounts == ASSUME NEW r PROVE Counts(Idle(r))
<1>1. Idle(r) = [pc |-> "idle", at |-> 1, candidates |-> <<>>, rounds |-> r]
  BY DEF Idle
<1>2. 1 \in Nat \ {0} /\ "idle" # "invoke"
  OBVIOUS
<1> HIDE DEF Idle
<1>3. QED
  BY <1>1, <1>2, Zenon DEF Counts

\* A step that leaves only the counter as it was, or one further, or at 1.
LEMMA AtCounts == AtInv /\ [NextB]_allVars => AtInv'
<1> SUFFICES ASSUME AtInv, [NextB]_allVars PROVE AtInv'
  OBVIOUS
<1>1. CASE modeB' = modeB
  BY <1>1 DEF AtInv
<1>2. CASE modeB' = Idle(modeB.rounds)
  BY <1>2, IdleCounts DEF AtInv
<1>3. CASE Begin \/ InvokeNext \/ Collect
  <2>1. PICK step, at, candidates, rounds :
          /\ modeB = [pc |-> step, at |-> at, candidates |-> candidates, rounds |-> rounds]
          /\ at \in Nat \ {0}
          /\ step = "invoke" => at \in DOMAIN Order
    BY DEF AtInv, Counts
  <2>2. CASE Begin
    BY <2>1, <2>2 DEF AtInv, Counts, Begin
  <2>3. CASE InvokeNext
    <3>1. at \in DOMAIN Order
      BY <2>1, <2>3, OrderAssumption DEF InvokeNext
    <3>2. QED
      BY <2>1, <2>3, <3>1 DEF AtInv, Counts, InvokeNext
  <2>4. CASE Collect
    <3>1. \E c : modeB' = [modeB EXCEPT !.pc = "decide", !.at = @ + 1, !.candidates = c]
      BY <2>4 DEF Collect
    <3>2. at + 1 \in Nat \ {0}
      BY <2>1
    <3>3. QED
      BY <2>1, <3>1, <3>2 DEF AtInv, Counts, Counts
  <2>5. QED
    BY <1>3, <2>2, <2>3, <2>4
<1>4. CASE Choose
  <2>1. PICK step, at, candidates, rounds :
          /\ modeB = [pc |-> step, at |-> at, candidates |-> candidates, rounds |-> rounds]
          /\ at \in Nat \ {0}
          /\ step = "invoke" => at \in DOMAIN Order
    BY DEF AtInv, Counts
  <2>2. QED
    BY <1>2, <1>4, <2>1 DEF AtInv, Counts, Choose
<1>5. QED
  BY <1>1, <1>2, <1>3, <1>4 DEF NextB, Round, Aborts, DispatchEnds, JourneyStep, allVars

\* Whatever the orchestrator's Order, rounds and dispatches, what it makes of the
\* threads is a behaviour of Journey.
THEOREM ModeBIsJourneys == SpecB => Spec
<1>1. InitB => Init /\ AtInv
  BY IdleCounts DEF InitB, AtInv
<1>2. AtInv /\ [NextB]_allVars => [Next]_vars
  <2> SUFFICES ASSUME AtInv, [NextB]_allVars PROVE [Next]_vars
    OBVIOUS
  <2>1. CASE UNCHANGED allVars
    BY <2>1 DEF allVars
  <2>2. CASE Begin
    BY <2>2 DEF Begin
  <2>3. CASE Round
    <3>1. CASE InvokeNext
      <4>1. modeB.at \in DOMAIN Order => Order[modeB.at] \in Threads
        BY OrderAssumption
      <4>2. modeB.at \in DOMAIN Order
        BY <3>1, OrderAssumption DEF InvokeNext, AtInv, Counts
      <4>3. QED
        BY <3>1, <4>1, <4>2 DEF InvokeNext, Next
    <3>2. CASE Collect \/ Aborts \/ Choose \/ DispatchEnds
      BY <3>2 DEF Collect, Aborts, Choose, DispatchEnds
    <3>3. QED
      BY <2>3, <3>1, <3>2 DEF Round
  <2>4. CASE JourneyStep
    BY <2>4 DEF JourneyStep, GoesOn, Next
  <2>5. QED
    BY <2>1, <2>2, <2>3, <2>4 DEF NextB
<1>3. QED
  BY <1>1, <1>2, AtCounts, PTL DEF SpecB, Spec

\* So what Mode B collects and dispatches has the four properties too.
THEOREM ModeBIsSafe ==
  SpecB => [](RefusedNotProposed /\ ProposalsEntitled /\ ApprovalMatchesDecision /\ ExclusionsAudited)
BY ModeBIsJourneys, Invariance, SafeStates, PTL

(***************************************************************************)
(* A journey that Mode B waits for.                                        *)
(***************************************************************************)

Waits == {"running", "paused", "ended", "raised"}

\* It runs, has returned or has raised: nobody else takes its result away.
AwaitedInv == \A t \in Awaited : phase[t] \in Waits

\* No step of the threads changes that.
LEMMA AwaitedStep == TypeOK /\ AtInv /\ AwaitedInv /\ [NextB]_allVars => AwaitedInv'
<1> SUFFICES ASSUME TypeOK, AtInv, AwaitedInv, [NextB]_allVars, NEW t \in Threads,
                    modeB'.pc = "invoke", t = Order[modeB'.at]
             PROVE  phase'[t] \in Waits
  BY DEF AwaitedInv, Awaited
<1> USE DEF Waits
<1>1. phase \in [Threads -> Phases]
  BY DEF TypeOK
<1>2. PICK step, at, candidates, rounds :
        /\ modeB = [pc |-> step, at |-> at, candidates |-> candidates, rounds |-> rounds]
        /\ at \in Nat \ {0}
        /\ step = "invoke" => at \in DOMAIN Order
  BY DEF AtInv, Counts
<1>3. CASE UNCHANGED modeB /\ UNCHANGED phase
  BY <1>3 DEF AwaitedInv, Awaited
<1>4. CASE InvokeNext
  <2>1. modeB'.at = modeB.at /\ Invoke(Order[modeB.at])
    BY <1>2, <1>4 DEF InvokeNext
  <2>2. phase' = [phase EXCEPT ![t] = "running"]
    BY <2>1 DEF Invoke, Runs
  <2>3. QED
    BY <1>1, <2>2
<1>5. CASE Begin \/ Collect \/ Aborts \/ Choose \/ DispatchEnds
  <2>1. CASE Collect
    <3>1. \E c : modeB' = [modeB EXCEPT !.pc = "decide", !.at = @ + 1, !.candidates = c]
      BY <2>1 DEF Collect
    <3>2. modeB'.pc = "decide"
      BY <1>2, <3>1
    <3>3. QED
      BY <3>2
  <2>2. CASE Begin
    <3>1. modeB'.pc = "decide"
      BY <1>2, <2>2 DEF Begin
    <3>2. QED
      BY <3>1
  <2>3. ASSUME modeB' = Idle(modeB.rounds) PROVE phase'[t] \in Waits
    <3>1. modeB'.pc = "idle"
      BY <2>3 DEF Idle
    <3>2. QED
      BY <3>1
  <2>4. ASSUME modeB' = [modeB EXCEPT !.pc = "dispatch"] PROVE phase'[t] \in Waits
    <3>1. modeB'.pc = "dispatch"
      BY <1>2, <2>4
    <3>2. QED
      BY <3>1
  <2>5. QED
    BY <1>5, <2>1, <2>2, <2>3, <2>4 DEF Aborts, DispatchEnds, Choose
<1>6. CASE JourneyStep
  <2>1. t \in Awaited /\ phase[t] \in Waits
    BY <1>6 DEF JourneyStep, Awaited, AwaitedInv
  <2>2. t = Order[modeB.at]
    BY <2>1 DEF Awaited
  <2>3. ASSUME NEW u \in Threads, NEW p, phase' = [phase EXCEPT ![u] = p], u # t \/ p \in Waits
        PROVE  phase'[t] \in Waits
    BY <1>1, <2>1, <2>3
  <2>4. ASSUME UNCHANGED phase PROVE phase'[t] \in Waits
    BY <2>1, <2>4
  <2>5. ASSUME NEW u \in Threads, Graph(u) PROVE phase'[t] \in Waits
    <3>1. CASE Return(u)
      <4>1. \E p \in {"ended", "paused"} : phase' = [phase EXCEPT ![u] = p]
        BY <3>1 DEF Return
      <4>2. QED
        BY <2>3, <4>1
    <3>2. CASE UnknownClient(u)
      BY <2>3, <3>2 DEF UnknownClient, Raises
    <3>3. QED
      BY <2>4, <2>5, <3>1, <3>2 DEF Graph, Node, Checkpoint, ResolveEntitlement, FilterOfferings,
         DecideNba, HandleDenial, ApprovalGate, Goes
  <2>6. ASSUME NEW u \in Threads, u # t, Dispatch(u) \/ Reenter(u) \/ Answer(u) \/ Start(u)
        PROVE  phase'[t] \in Waits
    <3>1. \E p : phase' = [phase EXCEPT ![u] = p]
      BY <2>6 DEF Dispatch, Reenter, Answer, Resume, Start, Invoke, Runs
    <3>2. QED
      BY <2>3, <2>6, <3>1
  <2>7. ASSUME NEW u \in Threads \ Range(Order), Start(u) \/ Dispatch(u)
        PROVE  phase'[t] \in Waits
    <3>1. modeB.at \in DOMAIN Order
      BY <1>2, <2>1 DEF Awaited
    <3>2. u # t
      BY <2>2, <2>7, <3>1 DEF Range
    <3>3. QED
      BY <2>6, <2>7, <3>2
  <2>8. CASE Environment
    <3>1. ASSUME NEW u \in Threads, Crash(u) \/ DenialEventFails(u) PROVE phase'[t] \in Waits
      BY <2>3, <3>1 DEF Crash, DenialEventFails, Raises
    <3>2. QED
      BY <2>4, <2>8, <3>1 DEF Environment, RevokeClient, LoadProfiles, CatalogChanges, Changes
  <2>9. QED
    BY <1>6, <2>1, <2>5, <2>6, <2>7, <2>8 DEF JourneyStep, GoesOn
<1>7. QED
  BY <1>3, <1>4, <1>5, <1>6 DEF NextB, Round, allVars, vars

\* While decide waits for a journey, that journey is under way or has come to a
\* result or an error decide takes up: the orchestrator waits for nothing that
\* somebody else has taken.
THEOREM AwaitedStays == SpecB => []AwaitedInv
<1>1. InitB => AtInv /\ AwaitedInv
  BY IdleCounts DEF InitB, AtInv, AwaitedInv, Awaited, Idle
<1>2. QED
  BY <1>1, AtCounts, AwaitedStep, ModeBIsJourneys, TypeCorrect, PTL DEF SpecB
=============================================================================
