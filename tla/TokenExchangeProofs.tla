------------------------- MODULE TokenExchangeProofs -------------------------
(***************************************************************************)
(* Proofs about TokenExchange, for any callers, backends, lifetimes and    *)
(* margin.                                                                 *)
(*                                                                         *)
(* An entry's expiry is computed from the clock before the two requests,   *)
(* the token is valid from the clock during the second one: so an entry    *)
(* either has expired when it is written, or ends the margin before its    *)
(* token, whichever exchange wrote it.                                     *)
(***************************************************************************)
EXTENDS TokenExchange, TLAPS

Backends == Configured \cup Unknown \cup {""}

Steps == {"idle", "subject", "exchange", "issued", "got", "unavailable", "raised"}

CredentialType ==
    [pc : Steps,
     backend : Backends, asked : Nat, life : Nat, until : Nat, scope : Backends,
     reused : BOOLEAN]

EntryType == [until : Nat, scope : Backends, expires_at : Nat]

ExchangeTypeOK ==
    /\ clock \in Nat
    /\ DOMAIN tokens \subseteq Backends
    /\ \A b \in DOMAIN tokens : tokens[b] \in EntryType
    /\ credential \in [Callers -> CredentialType]

\* An entry that is still offered ends the margin before its token, and is for
\* its backend.
Sound(b, entry) ==
    /\ entry.scope = b
    /\ entry.expires_at > clock => entry.expires_at + Margin <= entry.until

CacheInv == \A b \in DOMAIN tokens : Sound(b, tokens[b])

\* An exchange under way was asked for in the past; its token, once issued, is
\* for its backend and lives at least from that moment on.
Prompt(r) ==
    /\ r.asked <= clock
    /\ r.pc \in {"subject", "exchange", "issued"} => ~r.reused
    /\ r.pc = "issued" => r.scope = r.backend /\ r.asked + r.life <= r.until

Fresh(r) ==
    r.pc = "got" /\ r.reused => r.scope = r.backend /\ r.until > r.asked + Margin

CallersInv == \A c \in Callers : Prompt(credential[c]) /\ Fresh(credential[c])

ExchangeInv == ExchangeTypeOK /\ CacheInv /\ CallersInv

(***************************************************************************)
(* The invariant is inductive.                                             *)
(***************************************************************************)

\* Nobody has asked for a credential.
LEMMA NoCredentialSound ==
  /\ NoCredential \in CredentialType
  /\ clock \in Nat => Prompt(NoCredential) /\ Fresh(NoCredential)
BY DEF NoCredential, CredentialType, Steps, Backends, Prompt, Fresh

\* Initially nothing is cached.
LEMMA ExchangeInitially == InitExchange => ExchangeInv
BY NoCredentialSound DEF InitExchange, ExchangeInv, ExchangeTypeOK, CacheInv, CallersInv

\* A step of one caller that leaves clock and cache alone is judged by its record.
LEMMA SetsKeeps ==
  ASSUME ExchangeInv, NEW c \in Callers, NEW r \in CredentialType, Sets(c, r),
         Prompt(r), Fresh(r)
  PROVE  ExchangeInv'
<1> USE DEF ExchangeInv
<1>1. UNCHANGED <<clock, tokens>> /\ credential' = [credential EXCEPT ![c] = r]
  BY DEF Sets
<1>2. ExchangeTypeOK'
  BY <1>1 DEF ExchangeTypeOK
<1>3. CacheInv'
  BY <1>1 DEF CacheInv, Sound
<1>4. CallersInv'
  BY <1>1 DEF CallersInv, ExchangeTypeOK, Prompt, Fresh
<1>5. QED
  BY <1>2, <1>3, <1>4

\* A cache hit is where a token is handed out again.
LEMMA CredentialForKeeps ==
  ASSUME ExchangeInv, NEW c \in Callers, NEW b \in Configured \cup Unknown, CredentialFor(c, b)
  PROVE  ExchangeInv'
<1>1. clock \in Nat /\ b \in Backends
  BY DEF ExchangeInv, ExchangeTypeOK, Backends
<1>2. CASE Static(c, b)
  <2> DEFINE r == [NoCredential EXCEPT !.backend = b, !.pc =
                      IF b \in Configured /\ Modes[b] = "static" THEN "got" ELSE "unavailable"]
  <2>1. r \in CredentialType /\ Prompt(r) /\ Fresh(r)
    BY <1>1, NoCredentialSound DEF NoCredential, CredentialType, Steps, Prompt, Fresh
  <2>2. Sets(c, r)
    BY <1>2 DEF Static
  <2> HIDE DEF r
  <2>3. QED
    BY <2>1, <2>2, SetsKeeps
<1>3. CASE Hit(c, b)
  <2> DEFINE r == [NoCredential EXCEPT !.backend = b, !.pc = "got", !.asked = clock,
                      !.until = tokens[b].until, !.scope = tokens[b].scope, !.reused = TRUE]
  <2>1. b \in DOMAIN tokens /\ tokens[b].expires_at > clock
    BY <1>3 DEF Hit
  <2>2. tokens[b] \in EntryType /\ Sound(b, tokens[b])
    BY <2>1 DEF ExchangeInv, ExchangeTypeOK, CacheInv
  <2>3. r \in CredentialType
    BY <1>1, <2>2, NoCredentialSound DEF CredentialType, Steps, EntryType
  <2>4. Prompt(r) /\ Fresh(r)
    BY <1>1, <2>1, <2>2, TimesAssumption DEF NoCredential, EntryType, Sound, Prompt, Fresh
  <2>5. Sets(c, r)
    BY <1>3 DEF Hit
  <2> HIDE DEF r
  <2>6. QED
    BY <2>3, <2>4, <2>5, SetsKeeps
<1>4. CASE Miss(c, b)
  <2> DEFINE r == [NoCredential EXCEPT !.backend = b, !.pc = "subject", !.asked = clock]
  <2>1. r \in CredentialType
    BY <1>1, NoCredentialSound DEF CredentialType, Steps
  <2>2. Prompt(r) /\ Fresh(r)
    BY <1>1 DEF NoCredential, Prompt, Fresh
  <2>3. Sets(c, r)
    BY <1>4 DEF Miss
  <2> HIDE DEF r
  <2>4. QED
    BY <2>1, <2>2, <2>3, SetsKeeps
<1>5. QED
  BY <1>2, <1>3, <1>4 DEF CredentialFor

\* The exchange is asked for with the subject token.
LEMMA SubjectTokenKeeps ==
  ASSUME ExchangeInv, NEW c \in Callers, SubjectToken(c)
  PROVE  ExchangeInv'
<1> DEFINE r == [credential[c] EXCEPT !.pc = "exchange"]
<1>1. credential[c] \in CredentialType /\ Prompt(credential[c]) /\ credential[c].pc = "subject"
  BY DEF ExchangeInv, ExchangeTypeOK, CallersInv, SubjectToken
<1>2. r \in CredentialType /\ Prompt(r) /\ Fresh(r)
  BY <1>1 DEF CredentialType, Steps, Prompt, Fresh
<1>3. Sets(c, r)
  BY DEF SubjectToken
<1> HIDE DEF r
<1>4. QED
  BY <1>2, <1>3, SetsKeeps

\* The token's life begins after the clock was read.
LEMMA IssueKeeps ==
  ASSUME ExchangeInv, NEW c \in Callers, Issue(c)
  PROVE  ExchangeInv'
<1>1. PICK life \in Lifetimes :
        Sets(c, [credential[c] EXCEPT !.pc = "issued", !.life = life, !.until = clock + life,
                                      !.scope = credential[c].backend])
  BY DEF Issue
<1> DEFINE r == [credential[c] EXCEPT !.pc = "issued", !.life = life, !.until = clock + life,
                                      !.scope = credential[c].backend]
<1>2. /\ credential[c] \in CredentialType /\ Prompt(credential[c])
      /\ credential[c].pc = "exchange" /\ clock \in Nat
  BY DEF ExchangeInv, ExchangeTypeOK, CallersInv, Issue
<1>3. life \in Nat
  BY TimesAssumption
<1>4. r \in CredentialType
  <2>1. clock + life \in Nat /\ "issued" \in Steps
    BY <1>2, <1>3 DEF Steps
  <2>2. QED
    BY <1>2, <1>3, <2>1 DEF CredentialType
<1>5. Prompt(r) /\ Fresh(r)
  BY <1>2, <1>3 DEF CredentialType, Prompt, Fresh
<1>6. Sets(c, r)
  BY <1>1
<1> HIDE DEF r
<1>7. QED
  BY <1>4, <1>5, <1>6, SetsKeeps

\* What is written is sound, whatever it overwrites.
LEMMA ExchangedKeeps ==
  ASSUME ExchangeInv, NEW c \in Callers, Exchanged(c)
  PROVE  ExchangeInv'
<1> DEFINE r == credential[c]
           entry == [until |-> r.until, scope |-> r.scope, expires_at |-> ExpiresAt(r.asked, r.life)]
<1>1. /\ r \in CredentialType /\ Prompt(r) /\ r.pc = "issued" /\ clock \in Nat
      /\ credential \in [Callers -> CredentialType]
  BY DEF ExchangeInv, ExchangeTypeOK, CallersInv, Exchanged
<1>2. /\ DOMAIN tokens' = DOMAIN tokens \cup {r.backend}
      /\ tokens'[r.backend] = entry
      /\ \A b \in DOMAIN tokens \ {r.backend} : tokens'[b] = tokens[b]
      /\ credential' = [credential EXCEPT ![c].pc = "got"]
      /\ clock' = clock
  BY DEF Exchanged
<1>3. entry \in EntryType /\ Sound(r.backend, entry)
  BY <1>1, TimesAssumption DEF CredentialType, EntryType, Prompt, Sound, ExpiresAt
<1>4. /\ credential'[c] = [r EXCEPT !.pc = "got"]
      /\ \A d \in Callers \ {c} : credential'[d] = credential[d]
  BY <1>1, <1>2
<1>5. credential'[c] \in CredentialType /\ Prompt(credential'[c]) /\ Fresh(credential'[c])
  BY <1>1, <1>4 DEF CredentialType, Steps, Prompt, Fresh
<1>6. r.backend \in Backends
  BY <1>1 DEF CredentialType
<1> HIDE DEF r, entry
<1>7. ExchangeTypeOK'
  <2>1. \A b \in DOMAIN tokens' : tokens'[b] \in EntryType
    BY <1>2, <1>3 DEF ExchangeInv, ExchangeTypeOK
  <2>2. credential' \in [Callers -> CredentialType]
    BY <1>1, <1>2, <1>5 DEF CredentialType
  <2>3. QED
    BY <1>2, <1>6, <2>1, <2>2 DEF ExchangeInv, ExchangeTypeOK
<1>8. CacheInv'
  BY <1>2, <1>3 DEF ExchangeInv, CacheInv, Sound
<1>9. CallersInv'
  BY <1>2, <1>4, <1>5 DEF ExchangeInv, CallersInv, Prompt, Fresh
<1>10. QED
  BY <1>7, <1>8, <1>9 DEF ExchangeInv

\* A failure leaves nothing behind.
LEMMA ExchangeFailsKeeps ==
  ASSUME ExchangeInv, NEW c \in Callers, ExchangeFails(c)
  PROVE  ExchangeInv'
<1>1. PICK outcome \in {"unavailable", "raised"} :
        Sets(c, [NoCredential EXCEPT !.backend = credential[c].backend, !.pc = outcome])
  BY DEF ExchangeFails
<1> DEFINE r == [NoCredential EXCEPT !.backend = credential[c].backend, !.pc = outcome]
<1>2. credential[c] \in CredentialType /\ clock \in Nat
  BY DEF ExchangeInv, ExchangeTypeOK
<1>3. r \in CredentialType
  <2>1. outcome \in Steps
    BY DEF Steps
  <2>2. QED
    BY <1>2, <2>1, NoCredentialSound DEF CredentialType
<1>4. Prompt(r) /\ Fresh(r)
  <2>1. r.pc = outcome /\ r.asked = 0
    BY DEF NoCredential
  <2>2. QED
    BY <1>2, <2>1 DEF Prompt, Fresh
<1>5. Sets(c, r)
  BY <1>1
<1> HIDE DEF r
<1>6. QED
  BY <1>3, <1>4, <1>5, SetsKeeps

\* Time only takes entries out of use.
LEMMA TickKeeps ==
  ASSUME ExchangeInv, Tick
  PROVE  ExchangeInv'
<1> USE DEF ExchangeInv
<1>1. clock \in Nat /\ clock' = clock + 1 /\ UNCHANGED <<tokens, credential>>
  BY DEF ExchangeTypeOK, Tick
<1>2. ExchangeTypeOK'
  BY <1>1 DEF ExchangeTypeOK
<1>3. CacheInv'
  BY <1>1 DEF ExchangeTypeOK, CacheInv, EntryType, Sound
<1>4. CallersInv'
  BY <1>1 DEF ExchangeTypeOK, CallersInv, CredentialType, Prompt, Fresh
<1>5. QED
  BY <1>2, <1>3, <1>4

\* Nothing changes.
LEMMA ExchangeStutters ==
  ASSUME ExchangeInv, UNCHANGED exchangeVars
  PROVE  ExchangeInv'
BY DEF exchangeVars, ExchangeInv, ExchangeTypeOK, CacheInv, CallersInv, Sound, Prompt, Fresh

\* A caller that asks no longer has nothing that could be stale.
LEMMA ForgetsKeeps ==
  ASSUME ExchangeInv, NEW c \in Callers, Forgets(c)
  PROVE  ExchangeInv'
BY SetsKeeps, NoCredentialSound DEF Forgets, ExchangeInv, ExchangeTypeOK

\* Every step keeps the invariant.
LEMMA ExchangeInductive == ExchangeInv /\ [ExchangeNext]_exchangeVars => ExchangeInv'
<1> SUFFICES ASSUME ExchangeInv, [ExchangeNext]_exchangeVars PROVE ExchangeInv'
  OBVIOUS
<1>1. QED
  BY CredentialForKeeps, SubjectTokenKeeps, IssueKeeps, ExchangedKeeps, ExchangeFailsKeeps,
     ForgetsKeeps, TickKeeps, ExchangeStutters DEF ExchangeNext, Awaits

(***************************************************************************)
(* The theorems.                                                           *)
(***************************************************************************)

\* The invariant holds for ever.
THEOREM ExchangeInvariance == ExchangeSpec => []ExchangeInv
BY ExchangeInitially, ExchangeInductive, PTL DEF ExchangeSpec

\* A token that the cache hands out again was exchanged for this backend and is
\* valid for more than the margin, however slow the identity provider was and
\* however many exchanges raced for the entry.
THEOREM ReusedStaysFresh == ExchangeSpec => []ReusedIsFresh
<1>1. ExchangeInv => ReusedIsFresh
  BY DEF ExchangeInv, CallersInv, Fresh, ReusedIsFresh
<1>2. QED
  BY <1>1, ExchangeInvariance, PTL

(***************************************************************************)
(* Whose tokens are cached, and who waits for one.                         *)
(***************************************************************************)

\* Only backends of mode "exchange" are exchanged for, and have an entry.
ExchangingInv ==
    /\ DOMAIN tokens \subseteq Exchanging
    /\ \A c \in Callers : InExchange(c) => credential[c].backend \in Exchanging

\* A caller's record goes where it is set; the others stay.
LEMMA SetsExchanging ==
  ASSUME ExchangeInv, ExchangingInv, NEW c \in Callers, NEW r, Sets(c, r),
         r.pc \in {"subject", "exchange", "issued"} => r.backend \in Exchanging
  PROVE  ExchangingInv'
BY DEF ExchangeInv, ExchangeTypeOK, ExchangingInv, Sets, InExchange

\* Every step exchanges for such a backend, or goes on doing so.
LEMMA ExchangingKept ==
  ASSUME ExchangeInv, ExchangingInv, [ExchangeNext]_exchangeVars
  PROVE  ExchangingInv'
<1>1. ASSUME NEW c \in Callers, NEW b \in Configured \cup Unknown, CredentialFor(c, b)
      PROVE  ExchangingInv'
  <2>1. CASE Static(c, b)
    <3> DEFINE r == [NoCredential EXCEPT !.backend = b, !.pc =
                        IF b \in Configured /\ Modes[b] = "static" THEN "got" ELSE "unavailable"]
    <3>1. Sets(c, r) /\ r.pc \in {"got", "unavailable"}
      BY <2>1 DEF Static, NoCredential
    <3> HIDE DEF r
    <3>2. QED
      BY <3>1, SetsExchanging
  <2>2. CASE Hit(c, b)
    <3> DEFINE r == [NoCredential EXCEPT !.backend = b, !.pc = "got", !.asked = clock,
                        !.until = tokens[b].until, !.scope = tokens[b].scope, !.reused = TRUE]
    <3>1. Sets(c, r) /\ r.pc = "got"
      BY <2>2 DEF Hit, NoCredential
    <3> HIDE DEF r
    <3>2. QED
      BY <3>1, SetsExchanging
  <2>3. CASE Miss(c, b)
    <3> DEFINE r == [NoCredential EXCEPT !.backend = b, !.pc = "subject", !.asked = clock]
    <3>1. Sets(c, r) /\ r.backend = b /\ b \in Exchanging
      BY <2>3 DEF Miss, NoCredential
    <3> HIDE DEF r
    <3>2. QED
      BY <3>1, SetsExchanging
  <2>4. QED
    BY <1>1, <2>1, <2>2, <2>3 DEF CredentialFor
<1>2. ASSUME NEW c \in Callers, SubjectToken(c) PROVE ExchangingInv'
  <2> DEFINE r == [credential[c] EXCEPT !.pc = "exchange"]
  <2>1. credential[c] \in CredentialType /\ credential[c].backend \in Exchanging /\ Sets(c, r)
    BY <1>2 DEF SubjectToken, InExchange, ExchangingInv, ExchangeInv, ExchangeTypeOK
  <2>2. r.backend = credential[c].backend
    BY <2>1 DEF CredentialType
  <2> HIDE DEF r
  <2>3. QED
    BY <2>1, <2>2, SetsExchanging
<1>3. ASSUME NEW c \in Callers, Issue(c) PROVE ExchangingInv'
  <2>1. PICK life \in Lifetimes :
          Sets(c, [credential[c] EXCEPT !.pc = "issued", !.life = life, !.until = clock + life,
                                        !.scope = credential[c].backend])
    BY <1>3 DEF Issue
  <2> DEFINE r == [credential[c] EXCEPT !.pc = "issued", !.life = life, !.until = clock + life,
                                        !.scope = credential[c].backend]
  <2>2. credential[c] \in CredentialType /\ credential[c].backend \in Exchanging /\ Sets(c, r)
    BY <1>3, <2>1 DEF Issue, InExchange, ExchangingInv, ExchangeInv, ExchangeTypeOK
  <2>3. r.backend = credential[c].backend
    BY <2>2 DEF CredentialType
  <2> HIDE DEF r
  <2>4. QED
    BY <2>2, <2>3, SetsExchanging
<1>4. ASSUME NEW c \in Callers, Exchanged(c) PROVE ExchangingInv'
  <2>1. credential[c].backend \in Exchanging
    BY <1>4 DEF Exchanged, InExchange, ExchangingInv
  <2>2. DOMAIN tokens' = DOMAIN tokens \cup {credential[c].backend}
    BY <1>4 DEF Exchanged
  <2>3. /\ credential'[c].pc = "got"
        /\ \A d \in Callers \ {c} : credential'[d] = credential[d]
    BY <1>4 DEF Exchanged, ExchangeInv, ExchangeTypeOK, CredentialType
  <2>4. QED
    BY <2>1, <2>2, <2>3 DEF ExchangingInv, InExchange
<1>5. ASSUME NEW c \in Callers, ExchangeFails(c) PROVE ExchangingInv'
  <2>1. PICK outcome \in {"unavailable", "raised"} :
          Sets(c, [NoCredential EXCEPT !.backend = credential[c].backend, !.pc = outcome])
    BY <1>5 DEF ExchangeFails
  <2> DEFINE r == [NoCredential EXCEPT !.backend = credential[c].backend, !.pc = outcome]
  <2>2. Sets(c, r) /\ r.pc = outcome
    BY <2>1 DEF NoCredential
  <2> HIDE DEF r
  <2>3. QED
    BY <2>2, SetsExchanging
<1>6. ASSUME NEW c \in Callers, Forgets(c) PROVE ExchangingInv'
  BY <1>6, SetsExchanging DEF Forgets, NoCredential
<1>7. CASE Tick \/ UNCHANGED exchangeVars
  BY <1>7 DEF Tick, exchangeVars, ExchangingInv, InExchange
<1>8. QED
  BY <1>1, <1>2, <1>3, <1>4, <1>5, <1>6, <1>7 DEF ExchangeNext, Awaits

\* No token is cached, or asked for, but for a backend configured to exchange.
THEOREM OnlyConfiguredExchange == ExchangeSpec => []ExchangingInv
<1>1. ASSUME InitExchange PROVE ExchangingInv
  <2>1. DOMAIN tokens = {} /\ \A c \in Callers : credential[c] = NoCredential
    BY <1>1 DEF InitExchange
  <2>2. NoCredential.pc = "idle"
    BY DEF NoCredential
  <2>3. QED
    BY <2>1, <2>2 DEF ExchangingInv, InExchange
<1>2. ExchangeInv /\ ExchangingInv /\ [ExchangeNext]_exchangeVars => ExchangingInv'
  BY ExchangingKept
<1>3. QED
  BY <1>1, <1>2, ExchangeInvariance, PTL DEF ExchangeSpec
=============================================================================
