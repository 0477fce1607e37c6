--------------------------- MODULE RegistryProofs ---------------------------
(***************************************************************************)
(* Proofs about Registry, for any callers, names, manifests and bound.     *)
(*                                                                         *)
(* The gates hold because a manifest enters by a submit only and is never  *)
(* changed: whatever is in a row, in a caller's hands or on its way has    *)
(* passed them.  The lifecycle holds for a name no two calls have worked   *)
(* on at a time: its one caller's next status is one the row is ready for. *)
(***************************************************************************)
EXTENDS Registry, TLAPS

\* A call names what it works on: where it nominates, its manifest; where it
\* sets a status, that status.
StepInv ==
    \A p \in Callers :
        /\ caller[p].pc # "idle" => caller[p].name \in Names
        /\ caller[p].pc = "nominate" => caller[p].manifest \in Manifests
        /\ caller[p].pc \in {"get", "put"} =>
               caller[p].target \in {"review", "register", "active", "deprecated", "retired"}

\* Every manifest that is stored, was read or is about to be nominated has
\* passed the gates.
GateInv ==
    /\ \A n \in Names : table[n] # Absent => RunGates(table[n].manifest)
    /\ \A p \in Callers :
           /\ caller[p].pc = "nominate" => RunGates(caller[p].manifest)
           /\ caller[p].pc = "put" => RunGates(caller[p].row.manifest)

\* Two calls for one name are a race.
RaceInv ==
    \A p, q \in Callers :
        p # q /\ caller[p].pc # "idle" /\ caller[q].pc # "idle" /\ caller[p].name = caller[q].name
            => caller[p].name \in raced

\* The row that a status is about to go to, and the row that was read for it.
ReadyFor(row, status) ==
    /\ status = "review" => row # Absent /\ row.status = "nominate"
    /\ status = "register" => row # Absent /\ row.status = "review"
    /\ status = "active" => row # Absent /\ row.status \in {"register", "active"}

ReadyInv ==
    \A p \in Callers :
        caller[p].pc \in {"get", "put"} /\ caller[p].name \notin raced =>
            /\ ReadyFor(Row(p), caller[p].target)
            /\ caller[p].pc = "put" => caller[p].row = Row(p)

\* From REVIEW to ACTIVE, the manifest of a row is the one that was in REVIEW.
StatusInv ==
    \A n \in Names \ raced :
        table[n] # Absent /\ table[n].status \in {"review", "register", "active"} => Reviewed(n)

IInv == TypeOK /\ StepInv /\ GateInv /\ RaceInv /\ ReadyInv /\ StatusInv

(***************************************************************************)
(* What a step makes of the callers and of the table.                      *)
(***************************************************************************)

\* Every other caller goes on undisturbed.
OthersKeep(p) == \A q \in Callers : q # p => caller'[q] = caller[q]

\* A call that ends leaves an idle caller.
LEMMA EndsEffect ==
  ASSUME TypeOK, NEW p \in Callers, Ends(p)
  PROVE  /\ caller' \in [Callers -> CallerType]
         /\ caller'[p] = Idle
         /\ OthersKeep(p)
<1>1. Idle \in CallerType
  BY DEF Idle, CallerType, RowType
<1>2. QED
  BY <1>1 DEF TypeOK, Ends, OthersKeep

\* A caller that goes on to set a status keeps the name it works on.
LEMMA ThenSetEffect ==
  ASSUME TypeOK, NEW p \in Callers, NEW s \in Statuses, ThenSet(p, s)
  PROVE  /\ caller' \in [Callers -> CallerType]
         /\ caller'[p].pc = "get" /\ caller'[p].target = s
         /\ caller'[p].name = caller[p].name
         /\ OthersKeep(p)
<1>1. caller[p] \in CallerType
  BY DEF TypeOK
<1>2. caller'[p] = [caller[p] EXCEPT !.pc = "get", !.target = s, !.row = Absent]
  BY DEF TypeOK, ThenSet
<1>3. caller'[p] \in CallerType
  BY <1>1, <1>2 DEF CallerType, RowType
<1>4. caller'[p].pc = "get" /\ caller'[p].target = s /\ caller'[p].name = caller[p].name
  BY <1>1, <1>2 DEF CallerType
<1>5. OthersKeep(p)
  BY DEF TypeOK, ThenSet, OthersKeep
<1>6. caller' \in [Callers -> CallerType]
  BY <1>3 DEF TypeOK, ThenSet
<1>7. QED
  BY <1>4, <1>5, <1>6

\* A caller that begins takes its first step; a name another works on is raced.
LEMMA BeginEffect ==
  ASSUME TypeOK, NEW p \in Callers, NEW n \in Names, NEW step \in CallerType, step.pc # "put",
         Begin(p, n, step)
  PROVE  /\ TypeOK'
         /\ caller[p].pc = "idle"
         /\ caller'[p] = step
         /\ OthersKeep(p)
         /\ raced \subseteq raced'
         /\ \A q \in Callers : caller[q].name = n => n \in raced'
         /\ UNCHANGED <<table, reviewed, retired>>
<1>1. /\ caller[p].pc = "idle"
      /\ caller'[p] = step
      /\ OthersKeep(p)
      /\ raced \subseteq raced'
      /\ \A q \in Callers : caller[q].name = n => n \in raced'
      /\ UNCHANGED <<table, reviewed, retired>>
  BY DEF TypeOK, Begin, OthersKeep
<1>2. caller' \in [Callers -> CallerType] /\ raced' \subseteq Names
  BY DEF TypeOK, Begin
<1>3. calls' \in 0..MaxCalls
  BY MaxCallsAssumption DEF TypeOK, Begin
<1>4. \A q \in Callers : caller'[q].pc = "put" => caller'[q].row # Absent
  BY <1>1 DEF TypeOK, OthersKeep
<1>5. QED
  BY <1>1, <1>2, <1>3, <1>4 DEF TypeOK

(***************************************************************************)
(* The invariant is inductive, one action at a time.                       *)
(***************************************************************************)

\* Initially there is nothing to violate it.
LEMMA Initially == Init => IInv
<1> SUFFICES ASSUME Init PROVE IInv
  OBVIOUS
<1>1. Idle \in CallerType
  BY DEF Idle, CallerType, RowType
<1>2. TypeOK
  BY <1>1, MaxCallsAssumption DEF Init, TypeOK, RowType, Idle
<1>3. StepInv /\ GateInv /\ RaceInv /\ ReadyInv /\ StatusInv
  BY DEF Init, Idle, StepInv, GateInv, RaceInv, ReadyInv, StatusInv
<1>4. QED
  BY <1>2, <1>3 DEF IInv

\* A call that begins writes nothing, and makes a race of an overlap.
LEMMA BeginKeeps ==
  ASSUME IInv, NEW p \in Callers, NEW n \in Names, NEW step \in CallerType,
         step.pc \in {"nominate", "check", "get"}, step.name = n,
         step.pc = "nominate" => step.manifest \in Manifests /\ RunGates(step.manifest),
         step.pc = "get" => step.target \in {"deprecated", "retired"},
         Begin(p, n, step)
  PROVE  IInv'
<1>1. /\ TypeOK'
      /\ caller[p].pc = "idle"
      /\ caller'[p] = step
      /\ OthersKeep(p)
      /\ raced \subseteq raced'
      /\ \A q \in Callers : caller[q].name = n => n \in raced'
      /\ UNCHANGED <<table, reviewed, retired>>
  BY BeginEffect DEF IInv
<1>2. StepInv'
  BY <1>1 DEF IInv, StepInv, OthersKeep
<1>3. GateInv'
  BY <1>1 DEF IInv, GateInv, OthersKeep
<1>4. RaceInv'
  BY <1>1 DEF IInv, RaceInv, OthersKeep
<1>5. ReadyInv'
  BY <1>1 DEF IInv, ReadyInv, ReadyFor, Row, OthersKeep
<1>6. StatusInv'
  BY <1>1 DEF IInv, StatusInv, Reviewed
<1>7. QED
  BY <1>1, <1>2, <1>3, <1>4, <1>5, <1>6 DEF IInv

\* A submit begins with a manifest that passed the gates.
LEMMA SubmitKeeps ==
  ASSUME IInv, NEW p \in Callers, NEW n \in Names, NEW m \in Manifests, Submit(p, n, m)
  PROVE  IInv'
<1> DEFINE step == [Idle EXCEPT !.pc = "nominate", !.name = n, !.manifest = m]
<1>1. step \in CallerType /\ step.pc = "nominate" /\ step.name = n /\ step.manifest = m
  BY DEF Idle, CallerType, RowType
<1>2. RunGates(m) /\ Begin(p, n, step)
  BY DEF Submit
<1> HIDE DEF step
<1>3. QED
  BY <1>1, <1>2, BeginKeeps

\* A publish begins with the check.
LEMMA PublishKeeps ==
  ASSUME IInv, NEW p \in Callers, NEW n \in Names, Publish(p, n)
  PROVE  IInv'
<1> DEFINE step == [Idle EXCEPT !.pc = "check", !.name = n]
<1>1. step \in CallerType /\ step.pc = "check" /\ step.name = n
  BY DEF Idle, CallerType, RowType
<1>2. Begin(p, n, step)
  BY DEF Publish
<1> HIDE DEF step
<1>3. QED
  BY <1>1, <1>2, BeginKeeps

\* Deprecating and retiring start from any status.
LEMMA SetStatusKeeps ==
  ASSUME IInv, NEW p \in Callers, NEW n \in Names, NEW s \in {"deprecated", "retired"},
         SetStatus(p, n, s)
  PROVE  IInv'
<1> DEFINE step == [Idle EXCEPT !.pc = "get", !.name = n, !.target = s]
<1>1. step \in CallerType /\ step.pc = "get" /\ step.name = n /\ step.target = s
  BY DEF Idle, CallerType, RowType, Statuses
<1>2. Begin(p, n, step)
  BY DEF SetStatus
<1> HIDE DEF step
<1>3. QED
  BY <1>1, <1>2, BeginKeeps

\* A call that ends, having written nothing.
LEMMA EndsKeeps ==
  ASSUME IInv, NEW p \in Callers, Ends(p), UNCHANGED <<table, calls, reviewed, retired, raced>>
  PROVE  IInv'
<1>1. /\ caller' \in [Callers -> CallerType]
      /\ caller'[p].pc = "idle"
      /\ OthersKeep(p)
  BY EndsEffect DEF IInv, Idle
<1>2. TypeOK'
  BY <1>1 DEF IInv, TypeOK, OthersKeep
<1>3. StepInv'
  BY <1>1 DEF IInv, StepInv, OthersKeep
<1>4. GateInv'
  BY <1>1 DEF IInv, GateInv, OthersKeep
<1>5. RaceInv'
  BY <1>1 DEF IInv, RaceInv, OthersKeep
<1>6. ReadyInv'
  BY <1>1 DEF IInv, ReadyInv, ReadyFor, Row, OthersKeep
<1>7. StatusInv'
  BY DEF IInv, StatusInv, Reviewed
<1>8. QED
  BY <1>2, <1>3, <1>4, <1>5, <1>6, <1>7 DEF IInv

\* The one caller of a name finds the row it has just nominated; for a name
\* that others work on too, nothing is claimed.
LEMMA NominateKeeps ==
  ASSUME IInv, NEW p \in Callers, Nominate(p)
  PROVE  IInv'
<1> DEFINE n == caller[p].name
           r == [manifest |-> caller[p].manifest, status |-> "nominate"]
<1>1. /\ caller[p].pc = "nominate"
      /\ n \in Names
      /\ caller[p].manifest \in Manifests
      /\ RunGates(caller[p].manifest)
  BY DEF IInv, StepInv, GateInv, Nominate
<1>2. /\ caller' \in [Callers -> CallerType]
      /\ caller'[p].pc = "get" /\ caller'[p].target = "review"
      /\ caller'[p].name = n
      /\ OthersKeep(p)
  BY ThenSetEffect DEF IInv, Nominate, Statuses
<1>3. r \in Rows /\ r # Absent
  BY <1>1, AbsentAssumption DEF Rows, Statuses
<1>4. /\ table' \in [Names -> RowType]
      /\ table'[n] = r
      /\ \A o \in Names : o # n => table'[o] = table[o]
      /\ UNCHANGED <<calls, reviewed, retired, raced>>
  BY <1>1, <1>3 DEF IInv, TypeOK, RowType, Nominate
<1>5. TypeOK'
  BY <1>2, <1>4 DEF IInv, TypeOK, OthersKeep
<1>6. StepInv'
  BY <1>1, <1>2 DEF IInv, StepInv, OthersKeep
<1>7. GateInv'
  <2>1. \A o \in Names : table'[o] # Absent => RunGates(table'[o].manifest)
    BY <1>1, <1>4 DEF IInv, GateInv
  <2>2. QED
    BY <1>2, <2>1 DEF IInv, GateInv, OthersKeep
<1>8. RaceInv'
  BY <1>1, <1>2, <1>4 DEF IInv, RaceInv, OthersKeep
<1>9. ReadyInv'
  <2> SUFFICES ASSUME NEW q \in Callers, caller'[q].pc \in {"get", "put"}, caller'[q].name \notin raced
               PROVE  /\ ReadyFor(table'[caller'[q].name], caller'[q].target)
                      /\ caller'[q].pc = "put" => caller'[q].row = table'[caller'[q].name]
    BY <1>4 DEF ReadyInv, Row
  <2>1. CASE q = p
    BY <2>1, <1>1, <1>2, <1>3, <1>4 DEF ReadyFor
  <2>2. CASE q # p
    <3>1. caller[q].name # n
      BY <2>2, <1>1, <1>2 DEF IInv, RaceInv, OthersKeep
    <3>2. table'[caller'[q].name] = table[caller[q].name]
      BY <2>2, <3>1, <1>2, <1>4 DEF IInv, StepInv, OthersKeep
    <3>3. QED
      BY <2>2, <3>2, <1>2 DEF IInv, ReadyInv, Row, OthersKeep
  <2>3. QED
    BY <2>1, <2>2
<1>10. StatusInv'
  BY <1>1, <1>4 DEF IInv, StatusInv, Reviewed
<1>11. QED
  BY <1>5, <1>6, <1>7, <1>8, <1>9, <1>10 DEF IInv

\* What may be published was in REVIEW or is published already.
LEMMA PublishableStatuses ==
  ASSUME NEW s \in Statuses, "active" \in AllowedTransitions(s)
  PROVE  s \in {"register", "active"}
BY DEF Statuses, AllowedTransitions

\* publish goes on with a row that is ready to be ACTIVE, or raises.
LEMMA CheckKeeps ==
  ASSUME IInv, NEW p \in Callers, Check(p)
  PROVE  IInv'
<1>1. CASE Ends(p)
  BY <1>1, EndsKeeps DEF Check
<1>2. CASE /\ Row(p) # Absent /\ "active" \in AllowedTransitions(Row(p).status)
           /\ ThenSet(p, "active")
  <2> DEFINE n == caller[p].name
  <2>1. caller[p].pc = "check" /\ n \in Names /\ UNCHANGED <<table, calls, reviewed, retired, raced>>
    BY DEF IInv, StepInv, Check
  <2>2. /\ caller' \in [Callers -> CallerType]
        /\ caller'[p].pc = "get" /\ caller'[p].target = "active"
        /\ caller'[p].name = n
        /\ OthersKeep(p)
    BY <1>2, ThenSetEffect DEF IInv, Statuses
  <2>3. Row(p) # Absent /\ Row(p).status \in {"register", "active"}
    BY <1>2, <2>1, PublishableStatuses DEF IInv, TypeOK, RowType, Rows, Row
  <2>4. TypeOK'
    BY <2>1, <2>2 DEF IInv, TypeOK, OthersKeep
  <2>5. StepInv'
    BY <2>1, <2>2 DEF IInv, StepInv, OthersKeep
  <2>6. GateInv'
    BY <2>1, <2>2 DEF IInv, GateInv, OthersKeep
  <2>7. RaceInv'
    BY <2>1, <2>2 DEF IInv, RaceInv, OthersKeep
  <2>8. ReadyInv'
    BY <2>1, <2>2, <2>3 DEF IInv, ReadyInv, ReadyFor, Row, OthersKeep
  <2>9. StatusInv'
    BY <2>1 DEF IInv, StatusInv, Reviewed
  <2>10. QED
    BY <2>4, <2>5, <2>6, <2>7, <2>8, <2>9 DEF IInv
<1>3. QED
  BY <1>1, <1>2 DEF Check

\* What a caller has read is the row, or it raises.
LEMMA GetKeeps ==
  ASSUME IInv, NEW p \in Callers, Get(p)
  PROVE  IInv'
<1>1. CASE Row(p) = Absent
  BY <1>1, EndsKeeps DEF Get
<1>2. CASE Row(p) # Absent
  <2>1. /\ caller[p].pc = "get" /\ caller[p].name \in Names
        /\ UNCHANGED <<table, calls, reviewed, retired, raced>>
    BY DEF IInv, StepInv, Get
  <2>2. caller[p] \in CallerType /\ Row(p) \in RowType
    BY <2>1 DEF IInv, TypeOK, Row
  <2>3. caller'[p] = [caller[p] EXCEPT !.pc = "put", !.row = Row(p)]
    BY <1>2 DEF IInv, TypeOK, Get
  <2>4. /\ caller'[p] \in CallerType
        /\ caller'[p].pc = "put" /\ caller'[p].row = Row(p)
        /\ caller'[p].name = caller[p].name /\ caller'[p].target = caller[p].target
    BY <2>2, <2>3 DEF CallerType
  <2>5. OthersKeep(p)
    BY <1>2 DEF IInv, TypeOK, Get, OthersKeep
  <2>6. caller' \in [Callers -> CallerType]
    BY <1>2, <2>3, <2>4 DEF IInv, TypeOK, Get
  <2>7. TypeOK'
    BY <1>2, <2>1, <2>4, <2>5, <2>6 DEF IInv, TypeOK, OthersKeep
  <2>8. StepInv'
    BY <2>1, <2>4, <2>5 DEF IInv, StepInv, OthersKeep
  <2>9. GateInv'
    BY <1>2, <2>1, <2>4, <2>5 DEF IInv, GateInv, Row, OthersKeep
  <2>10. RaceInv'
    BY <2>1, <2>4, <2>5 DEF IInv, RaceInv, OthersKeep
  <2>11. ReadyInv'
    BY <2>1, <2>4, <2>5 DEF IInv, ReadyInv, ReadyFor, Row, OthersKeep
  <2>12. StatusInv'
    BY <2>1 DEF IInv, StatusInv, Reviewed
  <2>13. QED
    BY <2>7, <2>8, <2>9, <2>10, <2>11, <2>12 DEF IInv
<1>3. QED
  BY <1>1, <1>2

\* What a write finds and leaves: the row that was read, with its new status.
LEMMA PutEffect ==
  ASSUME IInv, NEW p \in Callers, Put(p)
  PROVE  LET n == caller[p].name
             s == caller[p].target
             m == caller[p].row.manifest
         IN  /\ caller[p].pc = "put"
             /\ n \in Names /\ m \in Manifests /\ RunGates(m)
             /\ s \in {"review", "register", "active", "deprecated", "retired"}
             /\ caller[p].row \in Rows
             /\ n \notin raced => /\ caller[p].row = table[n] /\ table[n] # Absent
                                  /\ ReadyFor(table[n], s)
             /\ table' \in [Names -> RowType]
             /\ table'[n] = [manifest |-> m, status |-> s]
             /\ table'[n] # Absent
             /\ \A o \in Names : o # n => table'[o] = table[o]
             /\ reviewed' = IF s = "review" THEN reviewed \cup {<<n, m>>} ELSE reviewed
             /\ retired' \subseteq Names
             /\ UNCHANGED <<calls, raced>>
<1> DEFINE n == caller[p].name
           s == caller[p].target
           m == caller[p].row.manifest
           r == [manifest |-> m, status |-> s]
<1>1. /\ caller[p].pc = "put"
      /\ n \in Names
      /\ s \in {"review", "register", "active", "deprecated", "retired"}
      /\ RunGates(m)
      /\ caller[p].row # Absent
      /\ caller[p] \in CallerType
  BY DEF IInv, TypeOK, StepInv, GateInv, Put
<1>2. caller[p].row \in Rows /\ m \in Manifests
  BY <1>1 DEF CallerType, RowType, Rows
<1>3. r \in Rows /\ r # Absent
  BY <1>1, <1>2, AbsentAssumption DEF Rows, Statuses
<1>4. n \notin raced => caller[p].row = table[n] /\ ReadyFor(table[n], s)
  BY <1>1 DEF IInv, ReadyInv, Row
<1>5. table' = [table EXCEPT ![n] = r]
  BY DEF Put
<1>6. /\ table' \in [Names -> RowType]
      /\ table'[n] = r
      /\ \A o \in Names : o # n => table'[o] = table[o]
  BY <1>1, <1>3, <1>5 DEF IInv, TypeOK, RowType
<1>7. /\ reviewed' = IF s = "review" THEN reviewed \cup {<<n, m>>} ELSE reviewed
      /\ retired' \subseteq Names
      /\ UNCHANGED <<calls, raced>>
  BY <1>1 DEF IInv, TypeOK, Put
<1>8. QED
  BY <1>1, <1>2, <1>3, <1>4, <1>6, <1>7

\* A write leaves the manifest alone, and readies the row for the caller's next.
LEMMA PutKeeps ==
  ASSUME IInv, NEW p \in Callers, Put(p)
  PROVE  IInv'
<1> DEFINE n == caller[p].name
           s == caller[p].target
           m == caller[p].row.manifest
<1>1. /\ caller[p].pc = "put"
      /\ n \in Names /\ m \in Manifests /\ RunGates(m)
      /\ s \in {"review", "register", "active", "deprecated", "retired"}
      /\ n \notin raced => /\ caller[p].row = table[n] /\ table[n] # Absent
                           /\ ReadyFor(table[n], s)
      /\ table' \in [Names -> RowType]
      /\ table'[n] = [manifest |-> m, status |-> s]
      /\ table'[n] # Absent
      /\ \A o \in Names : o # n => table'[o] = table[o]
      /\ reviewed' = IF s = "review" THEN reviewed \cup {<<n, m>>} ELSE reviewed
      /\ retired' \subseteq Names
      /\ UNCHANGED <<calls, raced>>
  BY PutEffect
\* After REVIEW comes REGISTER; every other write ends the call.
<1>2. /\ caller' \in [Callers -> CallerType]
      /\ OthersKeep(p)
      /\ \/ caller'[p].pc = "idle"
         \/ /\ caller'[p].pc = "get" /\ caller'[p].target = "register"
            /\ caller'[p].name = n /\ s = "review"
  <2>1. CASE s = "review"
    <3>1. ThenSet(p, "register")
      BY <2>1 DEF Put
    <3>2. QED
      BY <2>1, <3>1, ThenSetEffect DEF IInv, Statuses
  <2>2. CASE s # "review"
    <3>1. Ends(p)
      BY <2>2 DEF Put
    <3>2. QED
      BY <3>1, EndsEffect DEF IInv, Idle
  <2>3. QED
    BY <2>1, <2>2
<1> HIDE DEF n, s, m
<1>3. TypeOK'
  BY <1>1, <1>2 DEF IInv, TypeOK, OthersKeep
<1>4. StepInv'
  BY <1>1, <1>2 DEF IInv, StepInv, OthersKeep
<1>5. GateInv'
  <2>1. \A o \in Names : table'[o] # Absent => RunGates(table'[o].manifest)
    BY <1>1 DEF IInv, GateInv
  <2>2. QED
    BY <1>2, <2>1 DEF IInv, GateInv, OthersKeep
<1>6. RaceInv'
  BY <1>1, <1>2 DEF IInv, RaceInv, OthersKeep, n
<1>7. ReadyInv'
  <2> SUFFICES ASSUME NEW q \in Callers, caller'[q].pc \in {"get", "put"}, caller'[q].name \notin raced
               PROVE  /\ ReadyFor(table'[caller'[q].name], caller'[q].target)
                      /\ caller'[q].pc = "put" => caller'[q].row = table'[caller'[q].name]
    BY <1>1 DEF ReadyInv, Row
  <2>1. CASE q = p
    BY <2>1, <1>1, <1>2 DEF ReadyFor
  <2>2. CASE q # p
    <3>1. caller[q].name # n
      BY <2>2, <1>1, <1>2 DEF IInv, RaceInv, OthersKeep, n
    <3>2. table'[caller'[q].name] = table[caller[q].name]
      BY <2>2, <3>1, <1>1, <1>2 DEF IInv, StepInv, OthersKeep
    <3>3. QED
      BY <2>2, <3>2, <1>2 DEF IInv, ReadyInv, Row, OthersKeep
  <2>3. QED
    BY <2>1, <2>2
<1>8. StatusInv'
  <2> SUFFICES ASSUME NEW o \in Names \ raced, table'[o] # Absent,
                      table'[o].status \in {"review", "register", "active"}
               PROVE  <<o, table'[o].manifest>> \in reviewed'
    BY <1>1 DEF StatusInv, Reviewed
  <2>1. CASE o # n
    BY <2>1, <1>1 DEF IInv, StatusInv, Reviewed
  <2>2. CASE o = n /\ s = "review"
    BY <2>2, <1>1
  <2>3. CASE o = n /\ s # "review"
    <3>1. /\ table[n] # Absent /\ table[n].status \in {"review", "register", "active"}
          /\ table'[n].manifest = table[n].manifest
      BY <2>3, <1>1 DEF ReadyFor, n, m
    <3>2. <<n, table[n].manifest>> \in reviewed
      BY <2>3, <3>1 DEF IInv, StatusInv, Reviewed
    <3>3. QED
      BY <2>3, <3>1, <3>2, <1>1
  <2>4. QED
    BY <2>1, <2>2, <2>3
<1>9. QED
  BY <1>3, <1>4, <1>5, <1>6, <1>7, <1>8 DEF IInv

\* Every step keeps the invariant.
LEMMA Inductive == IInv /\ [Next]_vars => IInv'
<1> SUFFICES ASSUME IInv, [Next]_vars PROVE IInv'
  OBVIOUS
<1>1. CASE UNCHANGED vars
  BY <1>1 DEF vars, IInv, TypeOK, StepInv, GateInv, RaceInv, ReadyInv, StatusInv, Row, Reviewed
<1>2. ASSUME NEW p \in Callers, NEW n \in Names, NEW m \in Manifests, Submit(p, n, m)
      PROVE  IInv'
  BY <1>2, SubmitKeeps
<1>3. ASSUME NEW p \in Callers, NEW n \in Names, Publish(p, n)
      PROVE  IInv'
  BY <1>3, PublishKeeps
<1>4. ASSUME NEW p \in Callers, NEW n \in Names, NEW s \in {"deprecated", "retired"},
             SetStatus(p, n, s)
      PROVE  IInv'
  BY <1>4, SetStatusKeeps
<1>5. ASSUME NEW p \in Callers, Nominate(p)
      PROVE  IInv'
  BY <1>5, NominateKeeps
<1>6. ASSUME NEW p \in Callers, Check(p)
      PROVE  IInv'
  BY <1>6, CheckKeeps
<1>7. ASSUME NEW p \in Callers, Get(p)
      PROVE  IInv'
  BY <1>7, GetKeeps
<1>8. ASSUME NEW p \in Callers, Put(p)
      PROVE  IInv'
  BY <1>8, PutKeeps
<1>9. ASSUME NEW p \in Callers, Fail(p)
      PROVE  IInv'
  BY <1>9, EndsKeeps DEF Fail
<1>10. QED
  BY <1>1, <1>2, <1>3, <1>4, <1>5, <1>6, <1>7, <1>8, <1>9 DEF Next

(***************************************************************************)
(* The theorems.                                                           *)
(***************************************************************************)

\* The invariant holds throughout every behavior.
THEOREM Invariance == Spec => []IInv
<1>1. QED
  BY Initially, Inductive, PTL DEF Spec

\* The table, the callers and the histories keep their types.
THEOREM TypeCorrect == Spec => []TypeOK
<1>1. IInv => TypeOK
  BY DEF IInv
<1>2. QED
  BY <1>1, Invariance, PTL

\* Whatever calls interleave and wherever they fail, what list_active resolves
\* has passed the gates of submit.
THEOREM GatesHold == Spec => []ServedPassedGates
<1>1. IInv => ServedPassedGates
  BY DEF IInv, GateInv, ServedPassedGates, Active, RunGates, HighImpact
<1>2. QED
  BY <1>1, Invariance, PTL

\* A name no two calls have worked on at a time is ACTIVE with a manifest that
\* was in REVIEW only, though calls fail between any two transactions.
THEOREM ReviewComesFirst == Spec => []ReviewedUnlessRaced
<1>1. IInv => ReviewedUnlessRaced
  BY DEF IInv, StatusInv, ReviewedUnlessRaced, Active
<1>2. QED
  BY <1>1, Invariance, PTL

\* Unless calls for it overlap, a capability becomes ACTIVE out of REGISTER
\* alone, though publish checks in one transaction and writes in others and
\* calls fail in between.
THEOREM OnlyRegisterActivates == Spec => ActivatedFromRegister
<1>1. IInv /\ [Next]_vars => [ActivatesRegistered]_vars
  <2> SUFFICES ASSUME IInv, Next,
                      NEW n \in Names, Active(n)', ~Active(n), n \notin raced
               PROVE  table[n] # Absent /\ table[n].status = "register"
    BY DEF ActivatesRegistered
  <2>1. table' # table
    BY DEF Active
  <2>2. PICK p \in Callers : Nominate(p) \/ Put(p)
    BY <2>1 DEF Next, Submit, Publish, SetStatus, Begin, Check, Get, Fail
  <2>3. CASE Nominate(p)
    <3>1. table' = [table EXCEPT ![caller[p].name] =
                      [manifest |-> caller[p].manifest, status |-> "nominate"]]
      BY <2>3 DEF Nominate
    <3>2. table'[n] = table[n] \/ table'[n].status = "nominate"
      BY <3>1 DEF IInv, TypeOK
    <3>3. QED
      BY <3>2 DEF Active
  <2>4. CASE Put(p)
    <3>1. caller[p].name = n
      BY <2>4, PutEffect DEF Active
    <3>2. /\ table[n] # Absent
          /\ ReadyFor(table[n], caller[p].target)
          /\ table'[n] = [manifest |-> caller[p].row.manifest, status |-> caller[p].target]
      BY <2>4, <3>1, PutEffect
    <3>3. caller[p].target = "active"
      BY <3>2 DEF Active
    <3>4. QED
      BY <3>2, <3>3 DEF ReadyFor, Active
  <2>5. QED
    BY <2>2, <2>3, <2>4
<1>2. QED
  BY <1>1, Invariance, PTL DEF Spec, ActivatedFromRegister
=============================================================================
