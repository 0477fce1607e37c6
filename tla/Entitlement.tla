----------------------------- MODULE Entitlement -----------------------------
(***************************************************************************)
(* EntitlementManager (entitlement/manager.py) and what OPA holds of it.   *)
(* load_profiles replaces the profiles in memory, sync_profiles_to_pdp     *)
(* pushes them one HTTP request at a time, and several syncs may be under  *)
(* way.  A profile's content is the set of tools it allows: two contents   *)
(* have the same entitlement_version only if they are the same.            *)
(***************************************************************************)

CONSTANTS
    Tools,
    Registrations,  \* the client -> profile assignments that may be loaded
    Generations,    \* the profile -> content assignments that may be loaded
    Syncs           \* the callers of sync_profiles_to_pdp

VARIABLES
    registered,     \* client -> profile
    loaded,         \* profile -> content, in the manager's memory
    opa,            \* profile -> content, in OPA
    cache,          \* client -> the ResolvedEntitlement that resolve put there
    syncs,          \* the syncs under way
    settled,        \* history: since the last load a sync has run alone and in full
    revoked         \* history: the clients revoked and not registered again

entitlementVars == <<registered, loaded, opa, cache, syncs, settled, revoked>>

Clients == UNION {DOMAIN r : r \in Registrations}
Profiles == UNION {DOMAIN g : g \in Generations}
Contents == SUBSET Tools

ASSUME GenerationsAssumption ==
    \A g \in Generations : g \in [DOMAIN g -> Contents]
ASSUME RegistrationsAssumption == \A r \in Registrations : DOMAIN r \subseteq Clients

Without(f, S) == [x \in DOMAIN f \ S |-> f[x]]
With(f, x, v) == [y \in DOMAIN f \cup {x} |-> IF y = x THEN v ELSE f[y]]

\* A sync holds on to the profiles that were in memory when it began.  alone is
\* history: no load and no other sync have met it.
Idle == [of |-> <<>>, todo |-> {}, alone |-> FALSE]
Running(s) == syncs[s].todo # {}

\* The state in which the lifespan begins to serve: one generation, pushed.
InitEntitlement ==
    /\ registered \in Registrations
    /\ loaded \in Generations
    /\ opa = loaded
    /\ cache = <<>>
    /\ syncs = [s \in Syncs |-> Idle]
    /\ settled = TRUE
    /\ revoked = {}

-----------------------------------------------------------------------------
LoadRegistrations(r) ==
    /\ registered' = r
    /\ revoked' = revoked \ DOMAIN r
    /\ UNCHANGED <<loaded, opa, cache, syncs, settled>>

LoadProfiles(g) ==
    /\ loaded' = g
    /\ settled' = (settled /\ g = loaded)
    /\ syncs' = [s \in Syncs |-> [syncs[s] EXCEPT !.alone = @ /\ g = loaded]]
    /\ UNCHANGED <<registered, opa, cache, revoked>>

\* A mutant: what OPA has is not pushed again.
ToPushUnknown(g) == DOMAIN g \ DOMAIN opa

ToPush(g) == DOMAIN g

\* One that has nothing to push ends at once.
SyncStart(s) ==
    /\ ~Running(s)
    /\ syncs' = [t \in Syncs |->
          IF t = s THEN [of |-> loaded, todo |-> ToPush(loaded),
                         alone |-> \A u \in Syncs : ~Running(u)]
          ELSE [syncs[t] EXCEPT !.alone = FALSE]]
    /\ settled' = (settled \/ (ToPush(loaded) = {} /\ \A u \in Syncs : ~Running(u)))
    /\ UNCHANGED <<registered, loaded, opa, cache, revoked>>

\* push_client_profile of the next profile; the last one ends the sync.
Push(s) ==
    \E p \in syncs[s].todo :
        LET left == syncs[s].todo \ {p} IN
        /\ opa' = With(opa, p, syncs[s].of[p])
        /\ syncs' = [syncs EXCEPT ![s] = IF left = {} THEN Idle ELSE [@ EXCEPT !.todo = left]]
        /\ settled' = (settled \/ (left = {} /\ syncs[s].alone))
        /\ UNCHANGED <<registered, loaded, cache, revoked>>

\* The push raises, OPA having taken it or not; the rest is not pushed.  That OPA
\* takes a push later than its caller has given up on it is left out.
PushFails(s) ==
    \E p \in syncs[s].todo :
        /\ opa' \in {opa, With(opa, p, syncs[s].of[p])}
        /\ syncs' = [syncs EXCEPT ![s] = Idle]
        /\ UNCHANGED <<registered, loaded, cache, settled, revoked>>

OpaRestarts ==
    /\ opa' = <<>>
    /\ settled' = FALSE
    /\ syncs' = [s \in Syncs |-> [syncs[s] EXCEPT !.alone = FALSE]]
    /\ UNCHANGED <<registered, loaded, cache, revoked>>

-----------------------------------------------------------------------------
\* resolve: UnknownClientError, or the profile's name and content.
Resolves(c) == c \in DOMAIN registered /\ registered[c] \in DOMAIN loaded

\* A mutant: what was resolved before will do.
ResolvedOnce(c) ==
    IF c \in DOMAIN cache THEN cache[c]
    ELSE [profile |-> registered[c], allowed_tools |-> loaded[registered[c]]]

Resolved(c) == [profile |-> registered[c], allowed_tools |-> loaded[registered[c]]]

\* The part of a handler that calls resolve and goes on with what it returns.
Resolve(c) ==
    /\ Resolves(c)
    /\ cache' = With(cache, c, Resolved(c))
    /\ UNCHANGED <<registered, loaded, opa, syncs, settled, revoked>>

\* A mutant: the cache is left as it is.
RevokeRegistration(c) ==
    /\ registered' = Without(registered, {c})
    /\ revoked' = revoked \cup {c}
    /\ UNCHANGED <<loaded, opa, cache, syncs, settled>>

RevokeClient(c) ==
    /\ registered' = Without(registered, {c})
    /\ cache' = Without(cache, {c})
    /\ revoked' = revoked \cup {c}
    /\ UNCHANGED <<loaded, opa, syncs, settled>>

RevokeProfile(p) ==
    /\ cache' = Without(cache, {c \in DOMAIN cache : cache[c].profile = p})
    /\ UNCHANGED <<registered, loaded, opa, syncs, settled, revoked>>

-----------------------------------------------------------------------------
EntitlementNext ==
    \/ \E r \in Registrations : LoadRegistrations(r)
    \/ \E g \in Generations : LoadProfiles(g)
    \/ \E s \in Syncs : SyncStart(s) \/ Push(s) \/ PushFails(s)
    \/ OpaRestarts
    \/ \E c \in Clients : Resolve(c) \/ RevokeClient(c)
    \/ \E p \in Profiles : RevokeProfile(p)

EntitlementSpec == InitEntitlement /\ [][EntitlementNext]_entitlementVars

\* Once a sync has run alone since the last load, OPA decides by the profiles
\* in memory; overlapping syncs, failed pushes and reloads may not undo that.
SettledAgrees ==
    settled => \A p \in DOMAIN loaded : p \in DOMAIN opa /\ opa[p] = loaded[p]

\* A revoked client has no entitlement and none in the cache until it is
\* registered again, whatever was resolved for it before.
RevokedStaysRevoked == revoked \cap (DOMAIN registered \cup DOMAIN cache) = {}
=============================================================================
