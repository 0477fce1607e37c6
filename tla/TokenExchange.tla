---------------------------- MODULE TokenExchange ----------------------------
(***************************************************************************)
(* BackendCredentialProvider and TokenExchangeClient                       *)
(* (downstream/identity.py): the credential a caller presents to a         *)
(* backend.  An exchange is two requests to the identity provider, during  *)
(* which other callers run and time passes; its token is cached.           *)
(***************************************************************************)
EXTENDS Integers

CONSTANTS
    Callers,        \* the handlers that await credential_for
    Modes,          \* backend -> "exchange", "static", or "unset": no env var,
                    \* or no exchange client
    Unknown,        \* backends nothing is configured for
    Lifetimes,      \* the expires_in the provider may answer
    Margin          \* expiry_margin_seconds

VARIABLES
    clock,
    tokens,         \* backend -> the cache entry of TokenExchangeClient
    credential      \* caller -> how far its credential_for has come

exchangeVars == <<clock, tokens, credential>>

ASSUME TimesAssumption == Lifetimes \subseteq Nat /\ Margin \in Nat

Configured == DOMAIN Modes
Exchanging == {b \in Configured : Modes[b] = "exchange"}

\* pc: "idle", "subject" and "exchange" (a request is under way), "issued" (its
\* answer is), "got", "unavailable" or "raised".  asked is now, token the token,
\* until when it is valid and from whose exchange; reused: it came from the cache.
NoCredential ==
    [pc |-> "idle", backend |-> "", asked |-> 0, life |-> 0, until |-> 0, scope |-> "",
     reused |-> FALSE]

InitExchange ==
    /\ clock = 0
    /\ tokens = [b \in {} |-> 0]
    /\ credential = [c \in Callers |-> NoCredential]

Sets(c, r) ==
    /\ credential' = [credential EXCEPT ![c] = r]
    /\ UNCHANGED <<clock, tokens>>

\* A static credential, or none.  Callers tell UnknownBackendError and
\* BackendCredentialUnavailableError from everything else.
Static(c, b) ==
    /\ b \notin Exchanging
    /\ Sets(c, [NoCredential EXCEPT !.backend = b, !.pc =
          IF b \in Configured /\ Modes[b] = "static" THEN "got" ELSE "unavailable"])

Hit(c, b) ==
    /\ b \in Exchanging \cap DOMAIN tokens
    /\ tokens[b].expires_at > clock
    /\ Sets(c, [NoCredential EXCEPT !.backend = b, !.pc = "got", !.asked = clock,
                  !.until = tokens[b].until, !.scope = tokens[b].scope, !.reused = TRUE])

Miss(c, b) ==
    /\ b \in Exchanging
    /\ b \in DOMAIN tokens => tokens[b].expires_at <= clock
    /\ Sets(c, [NoCredential EXCEPT !.backend = b, !.pc = "subject", !.asked = clock])

CredentialFor(c, b) == Static(c, b) \/ Hit(c, b) \/ Miss(c, b)

SubjectToken(c) ==
    /\ credential[c].pc = "subject"
    /\ Sets(c, [credential[c] EXCEPT !.pc = "exchange"])

\* The provider issues the token; its answer is on the way.
Issue(c) ==
    /\ credential[c].pc = "exchange"
    /\ \E life \in Lifetimes :
         Sets(c, [credential[c] EXCEPT !.pc = "issued", !.life = life, !.until = clock + life,
                                       !.scope = credential[c].backend])

\* Mutants: the margin is forgotten; the clock is read after the requests.
ExpiresAtLast(asked, life) == asked + life
ExpiresFromNow(asked, life) == clock + (IF life > Margin THEN life - Margin ELSE 0)

ExpiresAt(asked, life) == asked + (IF life > Margin THEN life - Margin ELSE 0)

\* The answer is cached, over what another exchange may have put there.
Exchanged(c) ==
    LET r == credential[c] IN
    /\ r.pc = "issued"
    /\ tokens' = [b \in DOMAIN tokens \cup {r.backend} |->
          IF b = r.backend
          THEN [until |-> r.until, scope |-> r.scope, expires_at |-> ExpiresAt(r.asked, r.life)]
          ELSE tokens[b]]
    /\ credential' = [credential EXCEPT ![c].pc = "got"]
    /\ UNCHANGED clock

\* The requests of the exchange are under way.
InExchange(c) == credential[c].pc \in {"subject", "exchange", "issued"}

\* An error of httpx, or an answer nothing can be read from.
ExchangeFails(c) ==
    /\ InExchange(c)
    /\ \E outcome \in {"unavailable", "raised"} :
         Sets(c, [NoCredential EXCEPT !.backend = credential[c].backend, !.pc = outcome])

\* The handler that asked has returned.
Forgets(c) == Sets(c, NoCredential)

Awaits(c) == SubjectToken(c) \/ Issue(c) \/ Exchanged(c) \/ ExchangeFails(c)

Tick == clock' = clock + 1 /\ UNCHANGED <<tokens, credential>>

ExchangeNext ==
    \/ \E c \in Callers : Awaits(c)
    \/ \E c \in Callers : ~InExchange(c) /\ Forgets(c)
    \/ \E c \in Callers, b \in Configured \cup Unknown : ~InExchange(c) /\ CredentialFor(c, b)
    \/ Tick

ExchangeSpec == InitExchange /\ [][ExchangeNext]_exchangeVars

-----------------------------------------------------------------------------
\* A token that is handed out again was exchanged for this backend and is valid
\* for more than the margin from then on, however long the exchange took and
\* whichever of several exchanges was cached last.
ReusedIsFresh ==
    \A c \in Callers : credential[c].pc = "got" /\ credential[c].reused =>
        /\ credential[c].scope = credential[c].backend
        /\ credential[c].until > credential[c].asked + Margin
=============================================================================
