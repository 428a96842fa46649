-------------------------- MODULE TokenVerification -------------------------
(***************************************************************************)
(* jwt-decode: verifying a token against a key document that is fetched    *)
(* per issuer, cached under an invalidation generation and fetched once    *)
(* more for an unknown key identifier, while callers invalidate issuers    *)
(* and the issuer rotates its keys.                                        *)
(***************************************************************************)
EXTENDS Integers, Sequences, FiniteSets

CONSTANTS
  Issuers, Verifiers, Invalidators,
  Entrances,           \* the public calls: the source's kind, and whether the claims are deserialized
  TokensSeen,          \* the compact tokens presented
  PolicyBuilders,      \* the builders of verification policies
  KeyDocuments,        \* what the URL may serve at a time; a JWK set is a set of keys
  StaticKeys,          \* the JWK set of a static source
  LocalKey,            \* the key of a local symmetric source
  AllowedAlgs, SymmetricAllowed,      \* AllowedAlgorithms
  StaleOnFetchError,                  \* JwksCachePolicy
  MaxGenerations, MaxCooldowns,       \* MAX_INVALIDATION_GENERATIONS, MAX_UNKNOWN_KID_REFRESH_COOLDOWNS
  Cooldown, MaxSeconds, DefaultLeeway,  \* UNKNOWN_KID_REFRESH_COOLDOWN, the largest i64, DEFAULT_LEEWAY
  DpopLeeway, MaxKeys,                \* MAX_ACCESS_TOKEN_EXPIRY_LEEWAY_SECONDS, MAX_JWKS_KEYS
  MaxTokenTime, MaxVerifications, MaxInvalidations, MaxLoads

ASSUME TokensAssumption ==
  /\ {MaxGenerations, MaxCooldowns, MaxKeys, MaxVerifications, MaxInvalidations, MaxLoads} \subseteq Nat \ {0}
  /\ {Cooldown, MaxSeconds, DefaultLeeway, DpopLeeway, MaxTokenTime} \subseteq Nat
  /\ \A b \in PolicyBuilders : b.issuer \in Issuers \cup {""}

VARIABLES  \* what the URL serves
          generations,    \* InvalidationGenerations
          jwksCache,      \* per cache key: the entry of the fetching cache
          jwksLoads,      \* the fetches started, in order
          verifying,      \* the verification of each caller
          invalidating,   \* the invalidation of each caller
          cooldowns,      \* unknown_kid_refreshes
          tokenNow, verified, covered

tokenVars ==
  <<generations, jwksCache, jwksLoads, verifying, invalidating, cooldowns, tokenNow, verified, covered>>

NoNumber == -1
CacheKeyset == Issuers \X (0 .. MaxInvalidations)
NoEntry == [has |-> FALSE, keys |-> {}, at |-> 0]

----------------------------------------------------------------------------
(* Algorithms and keys *)

Symmetric == {"HS256", "HS384", "HS512"}
FamilyAlgs ==
  [rsa |-> {"RS256", "RS384", "RS512", "PS256", "PS384", "PS512"}, P256 |-> {"ES256"}, P384 |-> {"ES384"},
   Ed25519 |-> {"EdDSA"}, oct |-> Symmetric]
Algorithms == UNION {FamilyAlgs[f] : f \in DOMAIN FamilyAlgs}

\* AllowedAlgorithms: not empty, and one family, the declared one.
AlgorithmsValid(algs, symmetric) == algs # {} /\ algs \subseteq (IF symmetric THEN Symmetric ELSE Algorithms \ Symmetric)
AlgorithmAllowed(alg) == AlgorithmsValid(AllowedAlgs, SymmetricAllowed) /\ alg \in Algorithms \cap AllowedAlgs

\* The least number of key bytes for an HMAC algorithm.
HmacBytes(alg) == CASE alg = "HS256" -> 32 [] alg = "HS384" -> 48 [] OTHER -> 64

\* KeyPolicy: use, operations, declared algorithm, family, and the size of the material.
KeyUseValid(jwk) == jwk.use \in {"none", "sig"} /\ jwk.ops \in {"none", "verify"}
KeySizeValid(jwk, alg) ==
  CASE jwk.family = "rsa" -> jwk.size \in 256 .. 1024
    [] jwk.family = "oct" -> jwk.size \in HmacBytes(alg) .. 64
    [] jwk.family = "P256" -> jwk.size = 32
    [] jwk.family = "P384" -> jwk.size = 48
    [] OTHER -> jwk.size = 32 /\ jwk.strong
KeyValid(jwk, alg, symmetric) ==
  /\ KeyUseValid(jwk)
  /\ jwk.alg \in {"none", alg}
  /\ jwk.family \in DOMAIN FamilyAlgs /\ alg \in FamilyAlgs[jwk.family]
  /\ jwk.family = "oct" => symmetric
  /\ KeySizeValid(jwk, alg)

\* JwksDocument::from_json_str and prevalidate.
Prevalidated(keys) == Cardinality(keys) \in 1 .. MaxKeys /\ \A jwk \in keys : jwk.kid # "empty"
DocumentValid(doc) == doc.readable /\ Prevalidated(doc.keys)

KeysNamed(keys, kid) == {jwk \in keys : jwk.kid = kid}

\* decoding_key_for: the one key of that name, if it may verify.  The decoding keys a document
\* keeps by name are a function of the document, so the memory of them is not state of its own.
DecodingKeyFor(keys, kid, alg, symmetric) ==
  {jwk \in KeysNamed(keys, kid) : Cardinality(KeysNamed(keys, kid)) = 1 /\ KeyValid(jwk, alg, symmetric)}

\* LocalSymmetricKey::new and validate_for_algorithm.
LocalKeyFor(kid, alg) ==
  {jwk \in {LocalKey} : jwk.kid = kid /\ jwk.kid # "empty" /\ jwk.size >= HmacBytes("HS256") /\ jwk.size >= HmacBytes(alg)
                        /\ SymmetricAllowed}

----------------------------------------------------------------------------
(* Policies *)

\* generic_jwt, access_token, id_token, refresh_token: generic_jwt checks no token type and no header type.
NewBuilder(kind) ==
  [kind |-> kind, issuer |-> "", audience |-> "unconfigured", audiences |-> {}, client |-> "", nonce |-> "",
   typeClaim |-> IF kind = "generic" THEN "" ELSE "token_type", typeValue |-> IF kind = "generic" THEN "" ELSE kind,
   maxAge |-> NoNumber, leeway |-> DefaultLeeway, moreTypes |-> {}, requireIat |-> TRUE]

\* validate_duration_ranges: the leeway of an access token is limited.
RangesValid(b) ==
  /\ (b.kind # "generic" /\ b.typeClaim = "token_type" /\ b.typeValue \in {"access", "access_token"}) => b.leeway <= DpopLeeway
  /\ b.leeway <= MaxSeconds /\ b.maxAge <= MaxSeconds
\* token_type_policy, required_issuer, required_audiences.
RequiredPresent(b) ==
  /\ (b.kind # "generic") => b.typeClaim # "" /\ b.typeValue # ""
  /\ b.issuer # ""
  /\ b.audience # "unconfigured" /\ (b.audience = "any") => (b.audiences # {} /\ "" \notin b.audiences)
PolicyBuilds(b) == RangesValid(b) /\ RequiredPresent(b)
\* default_header_types and allow_missing_access_token_typ, allow_application_access_token_typ.
HeaderTypes(b) == {"at+jwt"} \cup b.moreTypes

\* reject_header.
HeaderAccepted(t, b) ==
  /\ ~t.material
  /\ (b.kind = "access") => t.typ \in HeaderTypes(b)
  /\ (b.kind = "id") => t.typ # "at+jwt"
  /\ t.kid # ""

\* registered_claims (typed) and registered_claim_refs (claims only): what each can read.
ClaimsReadable(t, typed) ==
  /\ t.iss # "" /\ t.exp # NoNumber /\ t.aud.kind \in {"absent", "list"} \cup (IF typed THEN {"null"} ELSE {})
  /\ typed => t.plainStrings

\* validate_issuer_and_audience, and its copy for claims that are only referred to.
AudienceGood(t) == t.aud.kind = "list" /\ t.aud.names # <<>> /\ \A i \in DOMAIN t.aud.names : t.aud.names[i] # ""
AudienceCount(t) == IF t.aud.kind = "list" THEN Len(t.aud.names) ELSE 0
IssuerAndAudience(t, b) ==
  /\ t.iss = b.issuer
  /\ IF b.audience = "unchecked"
     THEN t.aud.kind = "list" => AudienceGood(t)
     ELSE AudienceGood(t) /\ \E i \in DOMAIN t.aud.names : t.aud.names[i] \in b.audiences

\* validate_max_age.
YoungEnough(t, b, now) == b.maxAge = NoNumber \/ t.iat + b.maxAge + b.leeway \in now .. MaxSeconds

\* validate_time, and its copy; an overflowing sum counts as past the limit.
TimesValid(t, b, now) ==
  /\ t.exp + b.leeway \in (now + 1) .. MaxSeconds
  /\ (t.nbf # NoNumber) => t.nbf - b.leeway <= now
  /\ IF t.iat = NoNumber THEN ~b.requireIat /\ b.maxAge = NoNumber
     ELSE t.iat - b.leeway <= now /\ YoungEnough(t, b, now)

\* validate_id_client and validate_access_client.
PresentEquals(claim, expected) == claim \in {"", expected}
ClientValid(t, b) ==
  \/ b.client = ""
  \/ /\ PresentEquals(t.azp, b.client) /\ PresentEquals(t.client, b.client)
     /\ IF AudienceCount(t) > 1 THEN t.azp = b.client
        ELSE IF b.kind = "id" THEN t.client = b.client ELSE t.azp # "" \/ t.client # ""

TokenTypeValid(t, b) == (b.kind # "generic") => t.type = b.typeValue
NonceValid(t, b) == (b.nonce # "") => t.nonce = b.nonce

ClaimsAccepted(t, b, typed, now) ==
  /\ t.payload = "good" /\ ClaimsReadable(t, typed)
  /\ IssuerAndAudience(t, b) /\ TimesValid(t, b, now) /\ TokenTypeValid(t, b) /\ NonceValid(t, b) /\ ClientValid(t, b)

\* What is checked before a key is looked for; verify reads the payload's members too.
Admissible(t, b, typed) ==
  /\ t.header = "good" /\ (typed => t.payload = "good")
  /\ AlgorithmAllowed(t.alg) /\ HeaderAccepted(t, b)

\* verify_signature, and the claims after it.
Accepted(t, b, typed, keys, now) == (\E jwk \in keys : jwk.id = t.signer) /\ ClaimsAccepted(t, b, typed, now)

----------------------------------------------------------------------------
(* Sources that answer at once: a static JWK set and a local key. *)

\* static_document_for_issuer: a remote source has none.
StaticDocumentFor(kind) == IF kind = "static" /\ DocumentValid(StaticKeys) THEN StaticKeys.keys ELSE {}
\* decoding_key_for_static, and decoding_key_for on these sources.
SourceKeys(kind, t) ==
  IF t.alg \in Symmetric /\ kind = "local" THEN LocalKeyFor(t.kid, t.alg)
  ELSE DecodingKeyFor(StaticDocumentFor(kind), t.kid, t.alg, SymmetricAllowed)

----------------------------------------------------------------------------
(* The remote source.  The fetching cache is modelled in FetchCache; here  *)
(* it is a map with one load for a key, from which a removal detaches.     *)

IdleVerification ==
  [st |-> "idle", token |-> CHOOSE t \in TokensSeen : TRUE, policy |-> CHOOSE b \in PolicyBuilders : TRUE, typed |-> TRUE,
   key |-> <<CHOOSE i \in Issuers : TRUE, 0>>, again |-> FALSE, stale |-> FALSE, load |-> 0, keys |-> {}, at |-> 0,
   floor |-> 0, result |-> "none"]
IdleInvalidation == [st |-> "idle", key |-> <<CHOOSE i \in Issuers : TRUE, 0>>, gen |-> 0]

TokensInit ==
  /\ generations = [known |-> {}, of |-> [i \in Issuers |-> 0], default |-> 0, next |-> 0]
  /\ jwksCache = [k \in CacheKeyset |-> NoEntry] /\ jwksLoads = <<>>
  /\ verifying = [v \in Verifiers |-> IdleVerification] /\ invalidating = [w \in Invalidators |-> IdleInvalidation]
  /\ cooldowns = [i \in Issuers |-> NoNumber]
  /\ tokenNow = 0 /\ verified = 0 /\ covered = [i \in Issuers |-> 0]

\* cache_key.
GenerationOf(g, i) == IF i \in g.known THEN g.of[i] ELSE g.default
CacheKey(i) == <<i, GenerationOf(generations, i)>>

LiveFetches(k) == {n \in DOMAIN jwksLoads : jwksLoads[n].key = k /\ jwksLoads[n].live /\ ~jwksLoads[n].done}
NewLoad(k) == [key |-> k, at |-> generations.next, live |-> TRUE, done |-> FALSE]
\* remove: the entry goes, and the load under way no longer fills it.
DetachLoads(k) == [n \in DOMAIN jwksLoads |-> IF n \in LiveFetches(k) THEN [jwksLoads[n] EXCEPT !.live = FALSE] ELSE jwksLoads[n]]
ForgetKey(k) == jwksCache' = [jwksCache EXCEPT ![k] = NoEntry] /\ jwksLoads' = DetachLoads(k)

Finished(r, ok) ==
  [IdleVerification EXCEPT !.st = "done", !.result = IF ok THEN "accepted" ELSE "refused", !.at = r.at, !.floor = r.floor]

\* verify*, up to the first await: a static or local source answers at once.
StartVerification(v) ==
  /\ verifying[v].st \in {"idle", "done"} /\ verified < MaxVerifications
  /\ verified' = verified + 1
  /\ \E t \in TokensSeen, b \in {x \in PolicyBuilders : PolicyBuilds(x)}, call \in Entrances :
       LET typed == call.typed
           r == [IdleVerification EXCEPT !.token = t, !.policy = b, !.typed = typed]
       IN verifying' = [verifying EXCEPT ![v] =
            IF ~Admissible(t, b, typed) THEN Finished(r, FALSE)
            ELSE IF call.kind # "remote" THEN Finished(r, Accepted(t, b, typed, SourceKeys(call.kind, t), tokenNow))
            ELSE [r EXCEPT !.st = "lookup", !.key = CacheKey(b.issuer), !.stale = StaleOnFetchError,
                           !.floor = covered[b.issuer]]]
  /\ UNCHANGED <<generations, jwksCache, jwksLoads, invalidating, cooldowns, tokenNow, covered>>

\* get_or_fetch: the entry unless it has expired, the load under way, or a new one.
LookUp(v, expired) ==
  LET r == verifying[v]
      hit == jwksCache[r.key].has /\ ~expired
      loads == LiveFetches(r.key)
      n == IF loads = {} THEN Len(jwksLoads) + 1 ELSE CHOOSE x \in loads : TRUE
  IN /\ r.st = "lookup"
     /\ hit \/ n <= MaxLoads
     /\ verifying' = [verifying EXCEPT ![v] =
          IF hit THEN [r EXCEPT !.st = "have", !.keys = jwksCache[r.key].keys, !.at = jwksCache[r.key].at]
          ELSE [r EXCEPT !.st = "wait", !.load = n]]
     /\ jwksLoads' = IF hit \/ loads # {} THEN jwksLoads ELSE Append(jwksLoads, NewLoad(r.key))
     /\ UNCHANGED <<generations, jwksCache, invalidating, cooldowns, tokenNow, verified, covered>>

\* with_refresh_ttl: an entry that grows old is fetched again in the background.
RefreshEntry(k) ==
  /\ jwksCache[k].has /\ LiveFetches(k) = {} /\ Len(jwksLoads) < MaxLoads
  /\ jwksLoads' = Append(jwksLoads, NewLoad(k))
  /\ UNCHANGED <<generations, jwksCache, verifying, invalidating, cooldowns, tokenNow, verified, covered>>

\* fetch_remote_jwks answered with what the URL serves by now, or failed (an unreadable document);
\* everyone who waits for this load has its document, or its error, or the old entry if it was kept.
FinishFetch(n, doc, kept) ==
  LET l == jwksLoads[n]
      good == DocumentValid(doc)
      entry == [has |-> TRUE, keys |-> doc.keys, at |-> l.at]
  IN /\ ~l.done
     /\ jwksLoads' = [jwksLoads EXCEPT ![n] = [NewLoad(l.key) EXCEPT !.at = 0, !.done = TRUE]]
     /\ jwksCache' = IF good /\ l.live THEN [jwksCache EXCEPT ![l.key] = entry] ELSE jwksCache
     /\ verifying' = [v \in Verifiers |->
          LET r == verifying[v]
              old == jwksCache[l.key]
          IN IF r.st # "wait" \/ r.load # n THEN r
             ELSE IF good THEN [r EXCEPT !.st = "have", !.keys = entry.keys, !.at = l.at, !.load = 0]
             ELSE IF r.stale /\ kept /\ old.has THEN [r EXCEPT !.st = "have", !.keys = old.keys, !.at = old.at, !.load = 0]
             ELSE Finished(r, FALSE)]
     /\ UNCHANGED <<generations, invalidating, cooldowns, tokenNow, verified, covered>>

\* allow_unknown_kid_refresh, under its lock.
MayRefresh(i) == cooldowns[i] <= tokenNow
CooldownsAfter(i) ==
  LET held == {x \in Issuers : cooldowns[x] # NoNumber}
      kept == IF Cardinality(held) >= MaxCooldowns THEN {} ELSE held
  IN [x \in Issuers |-> IF x = i THEN tokenNow + Cooldown ELSE IF x \in kept THEN cooldowns[x] ELSE NoNumber]

\* jwks_decoding_key with a document in hand: an unknown name asks once more.
Decide(v) ==
  LET r == verifying[v]
      i == r.policy.issuer
      unknown == KeysNamed(r.keys, r.token.kid) = {}
  IN /\ r.st = "have"
     /\ IF unknown /\ ~r.again
        THEN /\ cooldowns' = IF MayRefresh(i) THEN CooldownsAfter(i) ELSE cooldowns
             /\ verifying' = [verifying EXCEPT ![v] =
                  [r EXCEPT !.st = IF MayRefresh(i) THEN "remove" ELSE "lookup", !.again = TRUE, !.key = CacheKey(i),
                            !.stale = StaleOnFetchError /\ ~MayRefresh(i)]]
        ELSE /\ verifying' = [verifying EXCEPT ![v] = Finished(r,
                  Accepted(r.token, r.policy, r.typed, DecodingKeyFor(r.keys, r.token.kid, r.token.alg, FALSE), tokenNow))]
             /\ UNCHANGED cooldowns
     /\ UNCHANGED <<generations, jwksCache, jwksLoads, invalidating, tokenNow, verified, covered>>

\* refresh_document_for_issuer removes what it had under the key it read.
RemoveForRefresh(v) ==
  /\ verifying[v].st = "remove"
  /\ ForgetKey(verifying[v].key)
  /\ verifying' = [verifying EXCEPT ![v].st = "lookup"]
  /\ UNCHANGED <<generations, invalidating, cooldowns, tokenNow, verified, covered>>

----------------------------------------------------------------------------
(* invalidate_issuer: three locks, taken one after the other. *)

ReadPreviousKey(w) ==
  /\ invalidating[w].st = "idle" /\ generations.next < MaxInvalidations
  /\ \E i \in Issuers : invalidating' = [invalidating EXCEPT ![w] = [st |-> "bump", key |-> CacheKey(i), gen |-> 0]]
  /\ UNCHANGED <<generations, jwksCache, jwksLoads, verifying, cooldowns, tokenNow, verified, covered>>

\* A full table is cleared, and every issuer it forgets starts at the new generation.
NextGenerations_KeepsDefault(g, i) ==
  LET full == Cardinality(g.known) >= MaxGenerations /\ i \notin g.known
  IN [known |-> (IF full THEN {} ELSE g.known) \cup {i}, of |-> [x \in Issuers |-> IF x = i THEN g.next + 1 ELSE IF full THEN 0 ELSE g.of[x]], default |-> g.default,
      next |-> g.next + 1]

NextGenerations(g, i) ==
  LET full == Cardinality(g.known) >= MaxGenerations /\ i \notin g.known
  IN [known |-> (IF full THEN {} ELSE g.known) \cup {i}, of |-> [x \in Issuers |-> IF x = i THEN g.next + 1 ELSE IF full THEN 0 ELSE g.of[x]],
      default |-> IF full THEN g.next + 1 ELSE g.default, next |-> g.next + 1]

BumpGeneration(w) ==
  /\ invalidating[w].st = "bump" /\ generations.next < MaxInvalidations
  /\ generations' = NextGenerations(generations, invalidating[w].key[1])
  /\ invalidating' = [invalidating EXCEPT ![w].st = "remove", ![w].gen = generations'.next]
  /\ UNCHANGED <<jwksCache, jwksLoads, verifying, cooldowns, tokenNow, verified, covered>>

FinishInvalidation(w) ==
  LET i == invalidating[w].key[1]
  IN /\ invalidating[w].st = "remove"
     /\ ForgetKey(invalidating[w].key)
     /\ cooldowns' = [cooldowns EXCEPT ![i] = NoNumber]
     /\ invalidating' = [invalidating EXCEPT ![w] = IdleInvalidation]
     /\ covered' = [covered EXCEPT ![i] = IF @ > invalidating[w].gen THEN @ ELSE invalidating[w].gen]
     /\ UNCHANGED <<generations, verifying, tokenNow, verified>>

----------------------------------------------------------------------------
(* Surroundings *)

TokenTick ==
  /\ tokenNow < MaxTokenTime /\ tokenNow' = tokenNow + 1
  /\ UNCHANGED <<generations, jwksCache, jwksLoads, verifying, invalidating, cooldowns, verified, covered>>

TokensNext ==
  \/ \E v \in Verifiers : StartVerification(v) \/ LookUp(v, TRUE) \/ LookUp(v, FALSE) \/ Decide(v) \/ RemoveForRefresh(v)
  \/ \E w \in Invalidators : ReadPreviousKey(w) \/ BumpGeneration(w) \/ FinishInvalidation(w)
  \/ \E n \in DOMAIN jwksLoads, doc \in KeyDocuments, kept \in BOOLEAN : FinishFetch(n, doc, kept)
  \/ \E k \in CacheKeyset : RefreshEntry(k)
  \/ TokenTick

----------------------------------------------------------------------------
\* Once invalidate_issuer has returned, a verification that starts afterwards accepts a token only by
\* a document whose fetch began after the invalidation: neither a slow lookup that still holds an
\* older cache key, nor a load in flight, nor a generation table that was cleared when full brings an
\* older document back (jwks/source.rs: cache_key, invalidate_issuer).
InvalidationHolds ==
  \A v \in Verifiers : verifying[v].result = "accepted" => verifying[v].at >= verifying[v].floor
=============================================================================
