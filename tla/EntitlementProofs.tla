-------------------------- MODULE EntitlementProofs --------------------------
(***************************************************************************)
(* Proofs about Entitlement, for any tools, registrations, generations and *)
(* any number of syncs.                                                    *)
(*                                                                         *)
(* OPA agrees with the memory after a sync that met nothing else, because  *)
(* all along what such a sync has pushed already agrees; and it stays so   *)
(* because every sync under way then pushes the generation in memory.      *)
(***************************************************************************)
EXTENDS Entitlement, TLAPS

Agrees(p) == p \in DOMAIN opa /\ opa[p] = loaded[p]

SyncType == [of : Generations \cup {<<>>}, todo : SUBSET Profiles, alone : BOOLEAN]

\* What is known of every variable; a sync pushes what it holds.
EntitlementTypeOK ==
    /\ DOMAIN registered \subseteq Clients
    /\ loaded \in Generations
    /\ syncs \in [Syncs -> SyncType]
    /\ \A s \in Syncs : syncs[s].todo \subseteq DOMAIN syncs[s].of
    /\ settled \in BOOLEAN

\* A sync that has met no load, no restart and no other sync: what it has pushed
\* so far agrees with the memory, and it is the only one.
AloneInv ==
    \A s \in Syncs : Running(s) /\ syncs[s].alone =>
        /\ syncs[s].of = loaded
        /\ \A p \in DOMAIN loaded \ syncs[s].todo : Agrees(p)
        /\ \A u \in Syncs : Running(u) => u = s

\* Once settled, everything agrees, and no sync under way can change it.
SettledInv ==
    settled => /\ \A p \in DOMAIN loaded : Agrees(p)
               /\ \A s \in Syncs : Running(s) => syncs[s].of = loaded

EntitlementInv ==
    EntitlementTypeOK /\ AloneInv /\ SettledInv /\ RevokedStaysRevoked

(***************************************************************************)
(* What the operations work on.                                            *)
(***************************************************************************)

\* The profiles of a generation are profiles, the clients of registrations clients.
LEMMA Domains ==
  /\ \A g \in Generations : DOMAIN g \subseteq Profiles
  /\ \A r \in Registrations : DOMAIN r \subseteq Clients
BY DEF Profiles, Clients

\* An idle sync is a sync with nothing to do.
LEMMA IdleEffect == Idle \in SyncType /\ Idle.todo = {} /\ Idle.alone = FALSE
BY DEF Idle, SyncType

(***************************************************************************)
(* The invariant is inductive, one operation at a time.                    *)
(***************************************************************************)

\* The lifespan begins settled, with no sync under way.
LEMMA EntitlementInitially == InitEntitlement => EntitlementInv
<1> SUFFICES ASSUME InitEntitlement PROVE EntitlementInv
  OBVIOUS
<1>1. EntitlementTypeOK
  BY IdleEffect, Domains DEF InitEntitlement, EntitlementTypeOK
<1>2. AloneInv /\ SettledInv
  BY IdleEffect DEF InitEntitlement, AloneInv, SettledInv, Running, Agrees
<1>3. RevokedStaysRevoked
  BY DEF InitEntitlement, RevokedStaysRevoked
<1>4. QED
  BY <1>1, <1>2, <1>3 DEF EntitlementInv

\* A load of registrations ends the revocations of those it registers.
LEMMA LoadRegistrationsKeeps ==
  ASSUME EntitlementInv, NEW r \in Registrations, LoadRegistrations(r)
  PROVE  EntitlementInv'
<1>1. EntitlementTypeOK'
  BY Domains DEF EntitlementInv, LoadRegistrations, EntitlementTypeOK
<1>2. AloneInv' /\ SettledInv'
  BY DEF EntitlementInv, LoadRegistrations, AloneInv, SettledInv, Running, Agrees
<1>3. RevokedStaysRevoked'
  BY DEF EntitlementInv, LoadRegistrations, RevokedStaysRevoked
<1>4. QED
  BY <1>1, <1>2, <1>3 DEF EntitlementInv

\* After a load of other profiles no sync is alone, and nothing is settled.
LEMMA LoadProfilesKeeps ==
  ASSUME EntitlementInv, NEW g \in Generations, LoadProfiles(g)
  PROVE  EntitlementInv'
<1> USE DEF EntitlementInv
<1>1. \A s \in Syncs : /\ syncs'[s].of = syncs[s].of
                       /\ syncs'[s].todo = syncs[s].todo
                       /\ syncs'[s].alone = (syncs[s].alone /\ g = loaded)
                       /\ syncs'[s] \in SyncType
  BY DEF LoadProfiles, EntitlementTypeOK, SyncType
<1>2. EntitlementTypeOK'
  BY <1>1 DEF LoadProfiles, EntitlementTypeOK
<1>3. AloneInv'
  <2> SUFFICES ASSUME NEW s \in Syncs, Running(s)', syncs'[s].alone
               PROVE  /\ syncs'[s].of = loaded'
                      /\ \A p \in DOMAIN loaded' \ syncs'[s].todo : Agrees(p)'
                      /\ \A u \in Syncs : Running(u)' => u = s
    BY DEF AloneInv
  <2>1. g = loaded /\ syncs[s].alone /\ Running(s)
    BY <1>1 DEF Running
  <2>2. UNCHANGED <<loaded, opa>>
    BY <2>1 DEF LoadProfiles
  <2>3. QED
    BY <1>1, <2>1, <2>2 DEF AloneInv, Running, Agrees
<1>4. SettledInv'
  BY <1>1 DEF LoadProfiles, SettledInv, Running, Agrees
<1>5. RevokedStaysRevoked'
  BY DEF LoadProfiles, RevokedStaysRevoked
<1>6. QED
  BY <1>2, <1>3, <1>4, <1>5

\* A sync that begins holds what is in memory; it is alone if no other runs.
LEMMA SyncStartKeeps ==
  ASSUME EntitlementInv, NEW s \in Syncs, SyncStart(s)
  PROVE  EntitlementInv'
<1> USE DEF EntitlementInv
<1>1. /\ syncs'[s] = [of |-> loaded, todo |-> DOMAIN loaded, alone |-> \A u \in Syncs : ~Running(u)]
      /\ UNCHANGED <<loaded, opa, registered, revoked, cache>>
  BY DEF SyncStart, ToPush
<1>2. \A t \in Syncs \ {s} : /\ syncs'[t].of = syncs[t].of
                             /\ syncs'[t].todo = syncs[t].todo
                             /\ syncs'[t].alone = FALSE
                             /\ syncs'[t] \in SyncType
  BY DEF SyncStart, EntitlementTypeOK, SyncType
<1>3. syncs'[s] \in SyncType /\ syncs'[s].todo = DOMAIN syncs'[s].of
  BY <1>1, Domains DEF EntitlementTypeOK, SyncType
<1>4. EntitlementTypeOK'
  <2>1. syncs' \in [Syncs -> SyncType]
    BY <1>2, <1>3 DEF SyncStart
  <2>2. settled' \in BOOLEAN
    BY DEF SyncStart, EntitlementTypeOK
  <2>3. QED
    BY <1>1, <1>2, <1>3, <2>1, <2>2 DEF EntitlementTypeOK
<1>5. AloneInv'
  BY <1>1, <1>2 DEF AloneInv, Running
<1>6. SettledInv'
  <2> SUFFICES ASSUME settled'
               PROVE  /\ \A p \in DOMAIN loaded : Agrees(p)
                      /\ \A t \in Syncs : Running(t)' => syncs'[t].of = loaded
    BY <1>1 DEF SettledInv, Agrees
  <2>1. CASE settled
    BY <1>1, <1>2, <2>1 DEF SettledInv, Running
  <2>2. CASE DOMAIN loaded = {} /\ \A u \in Syncs : ~Running(u)
    BY <1>1, <1>2, <2>2 DEF Running
  <2>3. QED
    BY <2>1, <2>2 DEF SyncStart, ToPush
<1>7. RevokedStaysRevoked'
  BY <1>1 DEF RevokedStaysRevoked
<1>8. QED
  BY <1>4, <1>5, <1>6, <1>7

\* What a push of profile p by sync s leaves.
LEMMA PushEffect ==
  ASSUME EntitlementInv, NEW s \in Syncs, NEW p \in syncs[s].todo,
         opa' = With(opa, p, syncs[s].of[p]), loaded' = loaded
  PROVE  /\ \A q : Agrees(q) /\ (q = p => syncs[s].of = loaded) => Agrees(q)'
         /\ syncs[s].of = loaded => Agrees(p)'
<1>1. /\ DOMAIN opa' = DOMAIN opa \cup {p}
      /\ opa'[p] = syncs[s].of[p]
      /\ \A q \in DOMAIN opa \ {p} : opa'[q] = opa[q]
  BY DEF With
<1>2. QED
  BY <1>1 DEF Agrees

\* A push of the generation in memory keeps what is settled; the last push of a
\* sync that was alone settles it.
LEMMA PushKeeps ==
  ASSUME EntitlementInv, NEW s \in Syncs, Push(s)
  PROVE  EntitlementInv'
<1> USE DEF EntitlementInv
<1> PICK p \in syncs[s].todo :
        /\ opa' = With(opa, p, syncs[s].of[p])
        /\ syncs' = [syncs EXCEPT ![s] = IF syncs[s].todo \ {p} = {} THEN Idle
                                         ELSE [@ EXCEPT !.todo = syncs[s].todo \ {p}]]
        /\ settled' = (settled \/ (syncs[s].todo \ {p} = {} /\ syncs[s].alone))
        /\ UNCHANGED <<registered, loaded, cache, revoked>>
  BY DEF Push
<1>1. Running(s)
  BY DEF Running
<1>2. /\ syncs'[s].todo = syncs[s].todo \ {p}
      /\ syncs'[s].todo # {} => syncs'[s].of = syncs[s].of /\ syncs'[s].alone = syncs[s].alone
      /\ syncs'[s].todo \subseteq DOMAIN syncs'[s].of
      /\ syncs'[s] \in SyncType
  BY IdleEffect DEF EntitlementTypeOK, SyncType
<1>3. \A t \in Syncs \ {s} : syncs'[t] = syncs[t]
  BY DEF EntitlementTypeOK
<1>4. EntitlementTypeOK'
  <2>1. syncs' \in [Syncs -> SyncType]
    BY <1>2, <1>3 DEF EntitlementTypeOK
  <2>2. QED
    BY <1>2, <1>3, <2>1 DEF EntitlementTypeOK
<1>5. AloneInv'
  <2> SUFFICES ASSUME NEW t \in Syncs, Running(t)', syncs'[t].alone
               PROVE  /\ syncs'[t].of = loaded
                      /\ \A q \in DOMAIN loaded \ syncs'[t].todo : Agrees(q)'
                      /\ \A u \in Syncs : Running(u)' => u = t
    BY DEF AloneInv
  <2>1. t = s
    BY <1>1, <1>3 DEF AloneInv, Running
  <2>2. syncs[s].alone /\ syncs'[s].of = syncs[s].of
    BY <1>2, <2>1 DEF Running
  <2>3. syncs[s].of = loaded /\ \A u \in Syncs : Running(u) => u = s
    BY <1>1, <2>2 DEF AloneInv
  <2>4. \A q \in DOMAIN loaded \ syncs'[s].todo : Agrees(q)'
    BY <1>1, <1>2, <2>2, <2>3, PushEffect DEF AloneInv
  <2>5. QED
    BY <1>3, <2>1, <2>2, <2>3, <2>4 DEF Running
<1>6. SettledInv'
  <2> SUFFICES ASSUME settled'
               PROVE  /\ \A q \in DOMAIN loaded : Agrees(q)'
                      /\ \A t \in Syncs : Running(t)' => syncs'[t].of = loaded
    BY DEF SettledInv
  <2>1. CASE settled
    BY <1>1, <1>2, <1>3, <2>1, PushEffect DEF SettledInv, Running
  <2>2. CASE syncs[s].todo \ {p} = {} /\ syncs[s].alone
    <3>1. /\ syncs[s].of = loaded
          /\ \A q \in DOMAIN loaded \ {p} : Agrees(q)
          /\ \A u \in Syncs : Running(u) => u = s
      BY <1>1, <2>2 DEF AloneInv
    <3>2. \A q \in DOMAIN loaded : Agrees(q)'
      BY <3>1, PushEffect
    <3>3. QED
      BY <1>2, <1>3, <2>2, <3>1, <3>2 DEF Running
  <2>3. QED
    BY <2>1, <2>2
<1>7. RevokedStaysRevoked'
  BY DEF RevokedStaysRevoked
<1>8. QED
  BY <1>4, <1>5, <1>6, <1>7

\* A push that fails ends its sync, and may have been applied.
LEMMA PushFailsKeeps ==
  ASSUME EntitlementInv, NEW s \in Syncs, PushFails(s)
  PROVE  EntitlementInv'
<1> USE DEF EntitlementInv
<1> PICK p \in syncs[s].todo :
        /\ opa' \in {opa, With(opa, p, syncs[s].of[p])}
        /\ syncs' = [syncs EXCEPT ![s] = Idle]
        /\ UNCHANGED <<registered, loaded, cache, settled, revoked>>
  BY DEF PushFails
<1>1. Running(s) /\ ~Running(s)'
  BY IdleEffect DEF Running, EntitlementTypeOK
<1>2. \A t \in Syncs \ {s} : syncs'[t] = syncs[t]
  BY DEF EntitlementTypeOK
<1>3. EntitlementTypeOK'
  BY IdleEffect DEF EntitlementTypeOK
<1>4. AloneInv'
  BY <1>1, <1>2 DEF AloneInv, Running
<1>5. SettledInv'
  <2> SUFFICES ASSUME settled
               PROVE  /\ \A q \in DOMAIN loaded : Agrees(q)'
                      /\ \A t \in Syncs : Running(t)' => syncs'[t].of = loaded
    BY DEF SettledInv
  <2>1. \A q \in DOMAIN loaded : Agrees(q)'
    <3>1. CASE opa' = opa
      BY <3>1 DEF SettledInv, Agrees
    <3>2. CASE opa' = With(opa, p, syncs[s].of[p])
      BY <1>1, <3>2, PushEffect DEF SettledInv
    <3>3. QED
      BY <3>1, <3>2
  <2>2. QED
    BY <1>1, <1>2, <2>1 DEF SettledInv, Running
<1>6. RevokedStaysRevoked'
  BY DEF RevokedStaysRevoked
<1>7. QED
  BY <1>3, <1>4, <1>5, <1>6

\* OPA loses what it had: nothing is settled, no sync is alone.
LEMMA OpaRestartsKeeps ==
  ASSUME EntitlementInv, OpaRestarts
  PROVE  EntitlementInv'
<1> USE DEF EntitlementInv
<1>1. \A s \in Syncs : /\ syncs'[s].of = syncs[s].of
                       /\ syncs'[s].todo = syncs[s].todo
                       /\ syncs'[s].alone = FALSE
                       /\ syncs'[s] \in SyncType
  BY DEF OpaRestarts, EntitlementTypeOK, SyncType
<1>2. EntitlementTypeOK'
  BY <1>1 DEF OpaRestarts, EntitlementTypeOK
<1>3. AloneInv' /\ SettledInv'
  BY <1>1 DEF OpaRestarts, AloneInv, SettledInv
<1>4. RevokedStaysRevoked'
  BY DEF OpaRestarts, RevokedStaysRevoked
<1>5. QED
  BY <1>2, <1>3, <1>4

\* What resolve and the revocations leave alone.
LEMMA MemoryKeeps ==
  ASSUME EntitlementInv, UNCHANGED <<loaded, opa, syncs, settled>>,
         DOMAIN registered' \subseteq DOMAIN registered, RevokedStaysRevoked'
  PROVE  EntitlementInv'
<1>1. EntitlementTypeOK'
  BY DEF EntitlementInv, EntitlementTypeOK
<1>2. AloneInv' /\ SettledInv'
  BY DEF EntitlementInv, AloneInv, SettledInv, Running, Agrees
<1>3. QED
  BY <1>1, <1>2 DEF EntitlementInv

\* Only a registered client is resolved, so the cache has no revoked one.
LEMMA ResolveKeeps ==
  ASSUME EntitlementInv, NEW c, Resolve(c)
  PROVE  EntitlementInv'
<1>1. RevokedStaysRevoked'
  BY DEF With, EntitlementInv, Resolve, Resolves, RevokedStaysRevoked
<1>2. QED
  BY <1>1, MemoryKeeps DEF Resolve

\* A revocation takes the client out of both.
LEMMA RevokeClientKeeps ==
  ASSUME EntitlementInv, NEW c, RevokeClient(c)
  PROVE  EntitlementInv'
<1>1. RevokedStaysRevoked'
  BY DEF Without, EntitlementInv, RevokeClient, RevokedStaysRevoked
<1>2. QED
  BY <1>1, MemoryKeeps DEF Without, RevokeClient

\* The revocation of a profile takes clients out of the cache only.
LEMMA RevokeProfileKeeps ==
  ASSUME EntitlementInv, NEW p, RevokeProfile(p)
  PROVE  EntitlementInv'
<1>1. RevokedStaysRevoked'
  BY DEF Without, EntitlementInv, RevokeProfile, RevokedStaysRevoked
<1>2. QED
  BY <1>1, MemoryKeeps DEF RevokeProfile

\* Every step of the manager, of OPA and of the syncs keeps the invariant.
LEMMA EntitlementInductive == EntitlementInv /\ [EntitlementNext]_entitlementVars => EntitlementInv'
<1> SUFFICES ASSUME EntitlementInv, [EntitlementNext]_entitlementVars PROVE EntitlementInv'
  OBVIOUS
<1>1. CASE UNCHANGED entitlementVars
  BY <1>1, MemoryKeeps DEF entitlementVars, EntitlementInv, RevokedStaysRevoked
<1>2. CASE EntitlementNext
  BY <1>2, LoadRegistrationsKeeps, LoadProfilesKeeps, SyncStartKeeps, PushKeeps, PushFailsKeeps,
     OpaRestartsKeeps, ResolveKeeps, RevokeClientKeeps, RevokeProfileKeeps DEF EntitlementNext
<1>3. QED
  BY <1>1, <1>2

(***************************************************************************)
(* The theorems.                                                           *)
(***************************************************************************)

\* The invariant holds for ever.
THEOREM EntitlementInvariance == EntitlementSpec => []EntitlementInv
<1>1. QED
  BY EntitlementInitially, EntitlementInductive, PTL DEF EntitlementSpec

\* What serves is what was pushed: once sync_profiles_to_pdp has run alone since
\* the last load, OPA decides by the profiles in memory, whatever syncs start,
\* overlap or fail after it.
THEOREM SyncSettles == EntitlementSpec => []SettledAgrees
<1>1. EntitlementInv => SettledAgrees
  BY DEF EntitlementInv, SettledInv, SettledAgrees, Agrees
<1>2. QED
  BY <1>1, EntitlementInvariance, PTL

\* No grace: a client that revoke_client has revoked is resolved for nobody until
\* it is registered again.
THEOREM RevocationLasts == EntitlementSpec => []RevokedStaysRevoked
<1>1. EntitlementInv => RevokedStaysRevoked
  BY DEF EntitlementInv
<1>2. QED
  BY <1>1, EntitlementInvariance, PTL

(***************************************************************************)
(* The contents of the variables, for the type invariants of what uses the *)
(* manager.                                                                *)
(***************************************************************************)

Assignments ==
    Registrations \cup UNION {{Without(r, C) : C \in SUBSET Clients} : r \in Registrations}

Pushable(content) == DOMAIN content \subseteq Profiles /\ \A p \in DOMAIN content : content[p] \in Contents

\* What is registered was loaded, less the clients revoked since; OPA holds contents
\* of profiles, and only clients are resolved.
EntitlementTyped ==
    /\ registered \in Assignments
    /\ Pushable(opa)
    /\ DOMAIN cache \subseteq Clients

\* Revoking one more client is revoking one set of them.
LEMMA WithoutOneMore ==
  ASSUME NEW r \in Assignments, NEW client \in Clients
  PROVE  Without(r, {client}) \in Assignments
<1>1. ASSUME NEW g \in Registrations, NEW C \in SUBSET Clients, r = Without(g, C)
      PROVE  Without(r, {client}) = Without(g, C \cup {client})
  BY <1>1 DEF Without
<1>2. ASSUME NEW g \in Registrations, NEW C \in SUBSET Clients
      PROVE  Without(g, C) \in Assignments
  BY DEF Assignments
<1>3. CASE r \in Registrations
  BY <1>2, <1>3
<1>4. CASE r \notin Registrations
  <2>1. PICK g \in Registrations, C \in SUBSET Clients : r = Without(g, C)
    BY <1>4 DEF Assignments
  <2>2. QED
    BY <1>1, <1>2, <2>1
<1>5. QED
  BY <1>3, <1>4

\* A profile of a generation that a sync holds is pushed with its content.
LEMMA PushedContent ==
  ASSUME EntitlementInv, Pushable(opa), NEW s \in Syncs, NEW p \in syncs[s].todo
  PROVE  Pushable(With(opa, p, syncs[s].of[p]))
<1>1. syncs[s] \in SyncType /\ p \in DOMAIN syncs[s].of
  BY DEF EntitlementInv, EntitlementTypeOK
<1>2. syncs[s].of \in Generations
  BY <1>1 DEF SyncType
<1>3. syncs[s].of[p] \in Contents /\ p \in Profiles
  BY <1>1, <1>2, GenerationsAssumption, Domains
<1>4. QED
  BY <1>3 DEF Pushable, With

\* Each operation of the manager, of OPA and of the syncs keeps the contents.
LEMMA ContentsKept ==
  ASSUME EntitlementInv, EntitlementTyped, [EntitlementNext]_entitlementVars
  PROVE  EntitlementTyped'
<1> USE DEF EntitlementTyped
<1>1. ASSUME NEW r \in Registrations, LoadRegistrations(r) PROVE EntitlementTyped'
  BY <1>1 DEF LoadRegistrations, Assignments, Pushable
<1>2. ASSUME NEW g \in Generations, LoadProfiles(g) PROVE EntitlementTyped'
  BY <1>2 DEF LoadProfiles, Pushable
<1>3. ASSUME NEW s \in Syncs, SyncStart(s) PROVE EntitlementTyped'
  BY <1>3 DEF SyncStart, Pushable
<1>4. ASSUME NEW s \in Syncs, Push(s) \/ PushFails(s) PROVE EntitlementTyped'
  <2>1. PICK p \in syncs[s].todo : opa' \in {opa, With(opa, p, syncs[s].of[p])}
    BY <1>4 DEF Push, PushFails
  <2>2. Pushable(opa')
    BY <2>1, PushedContent
  <2>3. UNCHANGED <<registered, cache>>
    BY <1>4 DEF Push, PushFails
  <2>4. QED
    BY <2>2, <2>3 DEF Pushable
<1>5. CASE OpaRestarts
  BY <1>5 DEF OpaRestarts, Pushable
<1>6. ASSUME NEW c \in Clients, Resolve(c) PROVE EntitlementTyped'
  BY <1>6 DEF Resolve, With, Pushable
<1>7. ASSUME NEW c \in Clients, RevokeClient(c) PROVE EntitlementTyped'
  <2>1. registered' \in Assignments
    BY <1>7, WithoutOneMore DEF RevokeClient
  <2>2. DOMAIN cache' \subseteq Clients /\ UNCHANGED opa
    BY <1>7 DEF RevokeClient, Without
  <2>3. QED
    BY <2>1, <2>2 DEF Pushable
<1>8. ASSUME NEW p \in Profiles, RevokeProfile(p) PROVE EntitlementTyped'
  BY <1>8 DEF RevokeProfile, Without, Pushable
<1>9. CASE UNCHANGED entitlementVars
  BY <1>9 DEF entitlementVars, Pushable
<1>10. QED
  BY <1>1, <1>2, <1>3, <1>4, <1>5, <1>6, <1>7, <1>8, <1>9 DEF EntitlementNext

\* The manager, OPA and the cache only ever hold what was loaded.
THEOREM ContentsCorrect == EntitlementSpec => []EntitlementTyped
<1>1. InitEntitlement => EntitlementTyped
  <2> SUFFICES ASSUME InitEntitlement PROVE EntitlementTyped
    OBVIOUS
  <2>1. Pushable(opa)
    BY GenerationsAssumption, Domains DEF InitEntitlement, Pushable
  <2>2. registered \in Assignments /\ DOMAIN cache \subseteq Clients
    BY DEF InitEntitlement, Assignments
  <2>3. QED
    BY <2>1, <2>2 DEF EntitlementTyped
<1>2. EntitlementInv /\ EntitlementTyped /\ [EntitlementNext]_entitlementVars => EntitlementTyped'
  BY ContentsKept
<1>3. QED
  BY <1>1, <1>2, EntitlementInvariance, PTL DEF EntitlementSpec
=============================================================================
