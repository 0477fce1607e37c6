-------------------------------- MODULE ModeB --------------------------------
(***************************************************************************)
(* ModeBOrchestrator: one fresh entry of the journey graph for each of its *)
(* clients, on a thread of its own that lasts, then the dispatch of the    *)
(* decision that _combine picks.  Between its steps everything goes on as  *)
(* in Journey: the runtime starts journeys on other threads, and those who *)
(* approve answer the pauses of all.                                       *)
(***************************************************************************)
EXTENDS Journey, Sequences, SequencesExt

CONSTANTS
    Order,          \* the threads of the orchestrator's client_ids, in order
    Finance,        \* the capabilities named finance.*
    MaxRounds       \* bound on the calls of decide_and_dispatch

ASSUME OrderAssumption == Order \in Seq(Threads)

\* pc: "idle", "decide" (about to invoke the next thread), "invoke" (the graph
\* runs for it) or "dispatch".  candidates: the decisions so far, each with its
\* thread.  rounds: what is left of MaxRounds.
VARIABLE modeB

allVars == <<vars, modeB>>

Idle(rounds) == [pc |-> "idle", at |-> 1, candidates |-> <<>>, rounds |-> rounds]

InitB == Init /\ modeB = Idle(MaxRounds)

IsFinance(candidate) == candidate.nba \in Finance

\* A pending obligation of finance first, else the first candidate.
Combine(candidates) ==
    IF \E i \in DOMAIN candidates : IsFinance(candidates[i])
    THEN SelectSeq(candidates, IsFinance)[1] ELSE candidates[1]

Begin ==
    /\ modeB.pc = "idle"
    /\ modeB.rounds > 0
    /\ modeB' = [modeB EXCEPT !.pc = "decide", !.rounds = @ - 1]
    /\ UNCHANGED vars

InvokeNext ==
    /\ modeB.pc = "decide"
    /\ modeB.at <= Len(Order)
    /\ Invoke(Order[modeB.at]) /\ UNCHANGED budget
    /\ modeB' = [modeB EXCEPT !.pc = "invoke"]

\* A mutant: a decision that waits for its approval is waited for.
CollectApproved ==
    LET t == Order[modeB.at] IN
    /\ modeB.pc = "invoke"
    /\ phase[t] = "ended"
    /\ modeB' = [modeB EXCEPT
          !.pc = "decide", !.at = @ + 1,
          !.candidates = IF saved[t].nba = None THEN @
                         ELSE Append(@, [thread |-> t, nba |-> saved[t].nba])]
    /\ UNCHANGED vars

\* invoke returned, ended or paused: its nba, if there is one, is a candidate.
Collect ==
    LET t == Order[modeB.at] IN
    /\ modeB.pc = "invoke"
    /\ Delivered(t)
    /\ modeB' = [modeB EXCEPT
          !.pc = "decide", !.at = @ + 1,
          !.candidates = IF saved[t].nba = None THEN @
                         ELSE Append(@, [thread |-> t, nba |-> saved[t].nba])]
    /\ UNCHANGED vars

\* What invoke raises leaves decide, and the candidates of other clients with it.
Aborts ==
    /\ modeB.pc = "invoke"
    /\ phase[Order[modeB.at]] = "raised"
    /\ modeB' = Idle(modeB.rounds)
    /\ UNCHANGED vars

Chosen == Combine(modeB.candidates)

Choose ==
    /\ modeB.pc = "decide"
    /\ modeB.at > Len(Order)
    /\ modeB' = IF modeB.candidates = <<>> THEN Idle(modeB.rounds)
                ELSE [modeB EXCEPT !.pc = "dispatch"]
    /\ UNCHANGED vars

\* Whatever the Gateway answers, decide_and_dispatch returns it.
DispatchEnds ==
    /\ modeB.pc = "dispatch"
    /\ modeB' = Idle(modeB.rounds)
    /\ UNCHANGED vars

\* The thread whose invocation decide waits for.
Awaited == {t \in Threads : modeB.pc = "invoke" /\ t = Order[modeB.at]}

GoesOn(t) == Graph(t) \/ (t \notin Awaited /\ Reenter(t))

\* The journeys of Order are decide's to start, and their decisions are
\* decide_and_dispatch's to dispatch, which nobody re-enters a graph after.
JourneyStep ==
    /\ \/ \E t \in Threads : GoesOn(t)
       \/ \E t \in Threads \ Awaited : Answer(t)
       \/ \E t \in Threads \ Range(Order) : Start(t) \/ Dispatch(t)
       \/ Environment
    /\ UNCHANGED modeB

Round == InvokeNext \/ Collect \/ Aborts \/ Choose \/ DispatchEnds

NextB == Begin \/ Round \/ JourneyStep

SpecB ==
    /\ InitB
    /\ [][NextB]_allVars
    /\ WF_allVars(Round)
    /\ \A t \in Threads : WF_allVars(GoesOn(t) /\ UNCHANGED modeB)

-----------------------------------------------------------------------------
\* decide_and_dispatch ends: a client whose journey waits for an approval, or was
\* revoked, or fails, does not hold up the others' for ever.
RoundsEnd == modeB.pc # "idle" ~> modeB.pc = "idle"

\* What hitl_node.py:6-8 says of the approval gate ("checked here *before* the
\* Agent Runtime (EP-12) ever attempts dispatch"): an action that requires
\* approval is not dispatched before its decision was approved.
ApprovedBeforeDispatch ==
    modeB.pc = "dispatch" /\ Chosen.nba \in Gated => consent[Chosen.thread]
=============================================================================
