-------------------------- MODULE ProofPresentation -------------------------
(***************************************************************************)
(* oauth-dpop and jose-core: a client signs a proof for the target of a    *)
(* request and the resource server, at a later time, validates the proof   *)
(* against the target it resolved itself, the access token and its clock.  *)
(***************************************************************************)
EXTENDS Integers, Sequences

CONSTANTS
  Bases, RequestUris,          \* public bases, and the URIs of requests
  ProofKeys, AccessTokens,     \* keys and access tokens; a token is bound to a key, or to none
  Confirmations,               \* per access token: its confirmation claim
  Methods,                     \* as records: the name, its bytes and whether http::Method parses it
  TokenForms,                  \* per access token: its bytes and whether they are ASCII
  ProofStamps,                 \* spellings of iat: mantissa and exponent
  ProofAge, ProofSkew,         \* MAX_PROOF_AGE_SECONDS, MAX_FUTURE_SKEW_SECONDS
  LastSecond,                  \* MAX_NUMERIC_DATE_SECONDS
  CurveOrder,                  \* P256_ORDER
  ProofLimits,                 \* bytes: document, string, uri, key, jti, method, token; counts: depth, members, keyMembers
  MaxProofTime

ASSUME ProofAssumption ==
  /\ {ProofAge, ProofSkew, LastSecond, CurveOrder, MaxProofTime} \subseteq Nat
  /\ \A l \in DOMAIN ProofLimits : ProofLimits[l] \in Nat

VARIABLES presentation,  \* the request and the proof on their way
          proofNow       \* the server's clock

proofVars == <<presentation, proofNow>>

----------------------------------------------------------------------------
(* Targets.  A path is the sequence of what stands between its slashes.    *)

\* The bytes of a URI as it is spelled: https://host, a port unless it is left out, the path and a query.
SegmentBytes(segment) ==
  CASE segment = "" -> 0 [] segment \in {"a", "b", "."} -> 1 [] segment = ".." -> 2 [] segment = "%2e." -> 4 [] OTHER -> 3
UriBytes(u) ==
  LET f[i \in 0 .. Len(u.path)] == IF i = 0 THEN 0 ELSE f[i - 1] + SegmentBytes(u.path[i]) + (IF i = 1 THEN 0 ELSE 1)
  IN 11 + (IF u.port = 0 THEN 0 ELSE 5) + f[Len(u.path)] + (IF u.query THEN 2 ELSE 0)

BadTarget == [ok |-> FALSE, host |-> "", port |-> 0, path |-> <<>>]

\* normalize_percent: escapes of unreserved characters are undone, the others are spelled in upper
\* case, so that no slash appears or disappears.
Unescaped(segment) ==
  CASE segment = "%2e" -> "." [] segment = "%2e." -> ".." [] segment = "%61" -> "a" [] segment = "%2f" -> "%2F"
    [] OTHER -> segment
EscapesValid(path) == \A i \in DOMAIN path : path[i] # "%zz"

\* One segment of normalize_path.
AddSegment(acc, segment, last) ==
  CASE segment = "." -> IF last THEN Append(acc, "") ELSE acc
    [] segment = ".." -> LET up == IF Len(acc) > 1 THEN SubSeq(acc, 1, Len(acc) - 1) ELSE acc
                         IN IF last THEN Append(up, "") ELSE up
    [] OTHER -> Append(acc, segment)
Segments(path) ==
  LET f[i \in 0 .. Len(path)] == IF i = 0 THEN <<>> ELSE AddSegment(f[i - 1], path[i], i = Len(path))
  IN f[Len(path)]
Rooted(path) == IF path \in {<<>>, <<"">>} THEN <<"", "">> ELSE path
NormalizePath_DecodesLate(path) ==
  LET s == Segments(path) IN Rooted([i \in DOMAIN s |-> Unescaped(s[i])])

NormalizePath(path) == Rooted(Segments([i \in DOMAIN path |-> Unescaped(path[i])]))

\* normalize_authority and parse_port: lower case, and no default port.
Lower(name) == IF name = "API" THEN "api" ELSE name
AuthorityValid(u) == u.host \notin {"", "bad host"} /\ ~u.user /\ u.port \in 0 .. 65535

\* DpopTargetUri::try_from: the spelling is bounded; the query and the fragment are dropped.
ParseTarget(u) ==
  IF UriBytes(u) <= ProofLimits.uri /\ u.clean /\ u.https /\ AuthorityValid(u) /\ EscapesValid(u.path)
  THEN [ok |-> TRUE, host |-> Lower(u.host), port |-> IF u.port = 443 THEN 0 ELSE u.port, path |-> NormalizePath(u.path)]
  ELSE BadTarget
ParseBase(u) == IF u.query THEN BadTarget ELSE ParseTarget(u)

\* as_str, read again as a URI.
Spelled(target) ==
  [https |-> TRUE, absolute |-> TRUE, clean |-> TRUE, user |-> FALSE, host |-> target.host, port |-> target.port,
   path |-> target.path, query |-> FALSE]

WithoutSlash(path) == IF path # <<>> /\ path[Len(path)] = "" THEN SubSeq(path, 1, Len(path) - 1) ELSE path
JoinPath(base, path) ==
  IF path = <<>> \/ path[1] # "" THEN BadTarget
  ELSE ParseTarget([Spelled(base) EXCEPT !.path = WithoutSlash(base.path) \o Tail(path)])

\* resolve_request_uri.
Beneath(target, base) ==
  LET prefix == WithoutSlash(base.path)
  IN Len(target.path) >= Len(prefix) /\ SubSeq(target.path, 1, Len(prefix)) = prefix
ResolveRequest(base, u) ==
  IF ~base.ok THEN BadTarget
  ELSE IF ~u.absolute THEN JoinPath(base, u.path)
  ELSE LET t == ParseTarget(u)
       IN IF t.ok /\ t.host = base.host /\ t.port = base.port /\ Beneath(t, base) THEN t ELSE BadTarget

----------------------------------------------------------------------------
(* Proofs *)

\* NumericDate: the value of a decimal number, as whole seconds and whether anything is left.
NumericDate(n) ==
  LET whole == IF n.exponent >= 0 THEN n.mantissa * 10 ^ n.exponent ELSE n.mantissa \div 10 ^ (-n.exponent)
      rest == n.exponent < 0 /\ n.mantissa % 10 ^ (-n.exponent) # 0
  IN [ok |-> n.mantissa >= 0 /\ (whole < LastSecond \/ (whole = LastSecond /\ ~rest)), seconds |-> whole, fraction |-> rest]

IsBetween(d, low, high) == d.seconds >= low /\ (d.seconds < high \/ (d.seconds = high /\ ~d.fraction))

\* BoundedJson: the document, its depth, members and strings are bounded, members are distinct; a root htu
\* has a limit of its own, as large as that of the document it stands in.  The limits on the encoded parts
\* (LosslessJws::parse) admit every document within these.
JsonBounded(j) ==
  /\ j.bytes <= ProofLimits.document /\ j.depth <= ProofLimits.depth /\ j.members <= ProofLimits.members
  /\ j.longest <= ProofLimits.string /\ j.htu <= ProofLimits.uri /\ ~j.repeated

\* normalize_low_s: s, or its mirror n - s when it is in the upper half.
LowS(s) == IF s <= CurveOrder \div 2 THEN s ELSE CurveOrder - s

\* EmbeddedEs256Key: the shape of the key, and what may be said of its use.
EmbeddedKeyValid(jwk) == jwk.bytes <= ProofLimits.key /\ jwk.members <= ProofLimits.keyMembers 
                         /\ jwk.curve = "P-256" /\ ~jwk.private /\ jwk.alg \in {"none", "ES256"}
                         /\ jwk.use \in {"none", "sig"} /\ jwk.ops \in {"none", "verify"}

\* validate_header.
ProofHeaderValid(p) == p.typ \in {"dpop+jwt", "application/dpop+jwt"} /\ p.alg = "ES256" /\ p.critical \in {"none", "b64"}

\* DpopValidationInput::validate with a clock that decides on freshness.
ProofValid(p, method, target, now) ==
  /\ JsonBounded(p.header) /\ JsonBounded(p.payload) /\ ProofHeaderValid(p) /\ EmbeddedKeyValid(p.jwk)
  /\ LowS(p.s) = p.jwk.s                                    \* the signature of this key
  /\ method.parses /\ p.jti \in 1 .. ProofLimits.jti           \* the bytes of the jti
  /\ p.htm.bytes \in 1 .. ProofLimits.method /\ p.htm = method
  /\ LET t == ParseTarget(p.htu) IN t.ok /\ t = target
  /\ LET d == NumericDate(p.iat) IN d.ok /\ IsBetween(d, now - ProofAge, now + ProofSkew)
  /\ p.nonce # "empty"

\* AccessTokenConfirmation::parse.
ConfirmationOf(claim) ==
  CASE claim.kind = "absent" -> [kind |-> "absent", jkt |-> ""]
    [] claim.kind = "jkt" /\ ~claim.others -> [kind |-> "dpop", jkt |-> claim.jkt]
    [] claim.kind = "other" -> [kind |-> "unsupported", jkt |-> ""]
    [] OTHER -> [kind |-> "invalid", jkt |-> ""]

\* ResourceProofValidationInput::validate and PresenterValidationInput::validate.
ProofOfToken(p, access, jkt, method, target, now) ==
  /\ TokenForms[access].bytes \in 1 .. ProofLimits.token /\ TokenForms[access].ascii
  /\ ProofValid(p, method, target, now) /\ p.jwk.id = jkt /\ p.ath = access
PresenterValid(q, now) ==
  LET c == ConfirmationOf(Confirmations[q.token])
  IN \/ c.kind = "absent" /\ q.scheme = "Bearer" /\ ~q.proven
     \/ c.kind = "dpop" /\ q.scheme = "DPoP" /\ q.proven /\ ProofOfToken(q.proof, q.token, c.jkt, q.method, q.target, now)

----------------------------------------------------------------------------
(* A presentation: the target is resolved, the client signs, the server    *)
(* validates.  The client spells the target as the server's library does.  *)

\* Samples of what a client's library writes: the documents of a proof, OtherBytes for all but the htu.
OtherBytes == 4
NoMethod == [name |-> "", bytes |-> 0, parses |-> FALSE]
DocumentOf(uri) == [bytes |-> OtherBytes + uri, depth |-> 2, members |-> 6, longest |-> 1, htu |-> uri, repeated |-> FALSE]
ProofBy(key, mirrored, method, access, target, stamp) ==
  [header |-> DocumentOf(0), payload |-> DocumentOf(UriBytes(Spelled(target))), typ |-> "dpop+jwt", alg |-> "ES256",
   critical |-> "none", nonce |-> "none", jti |-> 1, s |-> IF mirrored THEN CurveOrder - 2 ELSE 2, htm |-> method,
   htu |-> Spelled(target), iat |-> stamp, ath |-> access,
   jwk |-> [id |-> key, bytes |-> 2, members |-> 4, curve |-> "P-256", private |-> FALSE, alg |-> "none", use |-> "none",
            ops |-> "none", s |-> 2]]
NoPresentation ==
  [st |-> "idle", token |-> CHOOSE t \in AccessTokens : TRUE, scheme |-> "", method |-> NoMethod, target |-> BadTarget, proven |-> FALSE,
   proof |-> ProofBy("", FALSE, NoMethod, "", BadTarget, [mantissa |-> 0, exponent |-> 0]), honest |-> FALSE, result |-> FALSE, at |-> 0]

ProofInit == presentation = NoPresentation /\ proofNow \in 0 .. MaxProofTime

ResolveTarget(b, u, access, method) ==
  LET t == ResolveRequest(ParseBase(b), u)
  IN /\ presentation.st = "idle" /\ t.ok
     /\ presentation' = [NoPresentation EXCEPT !.st = "resolved", !.token = access, !.method = method, !.target = t]
     /\ UNCHANGED proofNow

SignProof(key, mirrored, method, access, stamp) ==
  LET r == presentation
  IN /\ r.st = "resolved"
     /\ presentation' =
          [r EXCEPT !.st = "signed", !.scheme = "DPoP", !.proven = TRUE, !.proof = ProofBy(key, mirrored, method, access, r.target, stamp),
                    !.honest = Confirmations[r.token].kind = "jkt" /\ key = Confirmations[r.token].jkt
                               /\ method = r.method /\ access = r.token]
     /\ UNCHANGED proofNow

\* A request with the token alone.
SendBare(scheme) ==
  /\ presentation.st = "resolved" /\ presentation' = [presentation EXCEPT !.st = "signed", !.scheme = scheme]
  /\ UNCHANGED proofNow

Present ==
  /\ presentation.st = "signed"
  /\ presentation' = [presentation EXCEPT !.st = "answered", !.result = PresenterValid(presentation, proofNow), !.at = proofNow]
  /\ UNCHANGED proofNow

\* The clock starts anywhere and moves between the signing of a proof and its validation.
ProofTick == presentation.st = "signed" /\ proofNow < MaxProofTime /\ proofNow' = proofNow + 1 /\ UNCHANGED presentation

ProofNext ==
  \/ presentation.st = "idle" /\ \E b \in Bases, u \in RequestUris, t \in AccessTokens, m \in Methods : ResolveTarget(b, u, t, m)
  \/ \E k \in ProofKeys, x \in BOOLEAN, m \in Methods, t \in AccessTokens, n \in ProofStamps : SignProof(k, x, m, t, n)
  \/ \E s \in {"DPoP", "Bearer"} : SendBare(s)
  \/ Present \/ ProofTick

----------------------------------------------------------------------------
\* What fits: an access token and a method the server takes at all, and a target that leaves room for the
\* rest of the document.  A target may be as long as the whole document (8192 bytes each), so that no proof
\* for the longest ones is ever read.
ProofFits(q) ==
  /\ TokenForms[q.token].bytes <= ProofLimits.token /\ q.method.bytes <= ProofLimits.method
  /\ OtherBytes + UriBytes(Spelled(q.target)) <= ProofLimits.document

\* A request bound to a key is accepted exactly when its proof is this key's, for this method, this token
\* and the target the server itself resolved from the client's spelling, was stamped within the window
\* around the server's clock as real numbers, and token, method and target fit: a target that is spelled,
\* sent and parsed again is the same target, however the request spelled it (target_uri.rs: normalize_path;
\* numeric_date.rs: is_between; bounded_json.rs: parse).
HonestProofAccepted ==
  LET q == presentation
      e == IF q.proof.iat.exponent < 0 THEN -q.proof.iat.exponent ELSE 0
      stamp == IF q.proof.iat.exponent > 0 THEN q.proof.iat.mantissa * 10 ^ q.proof.iat.exponent ELSE q.proof.iat.mantissa
  IN (q.st = "answered" /\ Confirmations[q.token].kind # "absent") =>
       (q.result <=> /\ q.honest /\ ~Confirmations[q.token].others /\ ProofFits(q)
                     /\ stamp \in ((q.at - ProofAge) * 10 ^ e) .. ((q.at + ProofSkew) * 10 ^ e))
=============================================================================
