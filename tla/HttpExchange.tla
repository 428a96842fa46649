---------------------------- MODULE HttpExchange ----------------------------
(***************************************************************************)
(* http-request: one request through the retrying client and, for tenants, *)
(* through the destination checks and the redirect loop.  The name service *)
(* may answer differently every time it is asked, and a request that fails *)
(* may or may not have reached its destination.                            *)
(***************************************************************************)
EXTENDS Integers, Sequences, FiniteSets

CONSTANTS
  MaxRetries, RetryNonIdempotent, BaseDelay, MaxDelay,   \* RetryConfig
  AllowedDomains,      \* allowlist: [apex, subdomains]
  MaxRedirects, MaxAddresses, AllowLoopback, BodyLimit,  \* TenantHttpRequestConfig
  Hosts, Addresses, Chunks                               \* hosts, addresses and chunk sizes of the environment

ASSUME HttpAssumption ==
  /\ {MaxRetries, MaxRedirects, MaxAddresses, BodyLimit, BaseDelay, MaxDelay} \subseteq Nat
  /\ AllowedDomains # {} /\ {RetryNonIdempotent, AllowLoopback} \subseteq BOOLEAN /\ Chunks \subseteq Nat

VARIABLES exchange,  \* the request, the hop and attempt it is at, and its result
          wire       \* where bytes of it have arrived

httpVars == <<exchange, wire>>

TenantConfig ==
  [domains |-> AllowedDomains, redirects |-> MaxRedirects, addresses |-> MaxAddresses, loopback |-> AllowLoopback,
   response |-> BodyLimit]
RetryConfig ==
  [retries |-> MaxRetries, nonIdempotent |-> RetryNonIdempotent, base |-> BaseDelay, max |-> MaxDelay]

\* A URL is plain when it has an allowed scheme and port, no user information
\* and no fragment.
Url == [host : Hosts, plain : BOOLEAN]

\* What the two request builders produce.
PlainRequests ==
  [tenant : {FALSE}, method : {"GET", "POST"}, body : {"small", "stream"}, hostHeader : {FALSE}, url : Url]
TenantRequests ==
  [tenant : {TRUE}, method : {"GET", "POST"}, body : {"small", "large", "stream"}, hostHeader : BOOLEAN, url : Url]

\* What callers do with a response: read it, read it without a limit, get_json
\* and the like, get_json_with_cache.
Helpers == {"stream", "download", "json", "cached"}
\* oauth_revoke_public_client only looks at the status.
OAuthHelpers == {"json", "revoke"}
HelpersOf(r) ==
  {h \in Helpers \cup OAuthHelpers :
     /\ h \in {"cached", "revoke"} => ~r.tenant
     /\ h = "cached" => r.method = "GET"
     /\ h = "revoke" => r.method = "POST"}

Statuses == {"ok", "refused", "unavailable", "found", "moved"}
RetryStatuses == {"unavailable"}            \* 408, 423, 425, 429, 500, 502, 503, 504
RetryErrors == {"timeout", "connect", "request"}
TransportErrors == RetryErrors \cup {"body", "unknown"}

Min2(a, b) == IF a < b THEN a ELSE b

NoUrl == "none"
IdleExchange ==
  [pc |-> "idle", req |-> NoUrl, url |-> NoUrl, attempt |-> 0, redirects |-> 0, last |-> "none",
   slept |-> 0, observed |-> <<>>, helper |-> "none", size |-> 0, result |-> "none"]

HttpInit == exchange = IdleExchange /\ wire = <<>>

----------------------------------------------------------------------------
\* ::ffff:a.b.c.d, ISATAP and NAT64 forms are judged as the address they carry.
Unwrapped(a) == IF a.form = "embedded" THEN [a EXCEPT !.form = "v4"] ELSE a
IsBlockedIp(a) ==
  LET u == Unwrapped(a) IN u.range # "public" /\ ~(TenantConfig.loopback /\ u.range = "loopback")

\* Only the first addresses are looked at, and only they are handed on.
ResolveCapped(answer) ==
  LET kept == SubSeq(answer, 1, Min2(TenantConfig.addresses, Len(answer)))
  IN IF kept = <<>> \/ \E i \in DOMAIN kept : IsBlockedIp(kept[i]) THEN {} ELSE {kept[i] : i \in DOMAIN kept}

MatchAllowlisted(h) ==
  \E d \in TenantConfig.domains : d.apex = h.apex /\ (~h.sub \/ d.subdomains)

\* A literal address passes only as a loopback that is allowed.
LiteralAllowed(h) == h.literal => TenantConfig.loopback /\ h.range = "loopback"

Answers == UNION {[1 .. n -> Addresses] : n \in 0 .. 2}
LiteralAddress(h) == [range |-> h.range, form |-> "v4"]

\* validate_url and resolve_and_validate; a timeout of the lookup counts as an empty answer.
ValidateUrl(u, answer) ==
  /\ LiteralAllowed(u.host) /\ MatchAllowlisted(u.host)
  /\ u.plain
  /\ ResolveCapped(IF u.host.literal THEN <<LiteralAddress(u.host)>> ELSE answer) # {}

ConnectAddresses_Plain(r, u, answer) ==
  IF u.host.literal THEN {LiteralAddress(u.host)} ELSE {answer[i] : i \in DOMAIN answer}

\* The connector asks again: a tenant's client has the checking resolver.
ConnectAddresses(r, u, answer) ==
  IF u.host.literal THEN {LiteralAddress(u.host)}
  ELSE IF r.tenant THEN ResolveCapped(answer) ELSE {answer[i] : i \in DOMAIN answer}

----------------------------------------------------------------------------
Idempotent(r) == r.method = "GET"
CanClone(r) == r.body # "stream"

\* RequestAttempts::new: one attempt unless the request can be repeated.
RetriesOf(r) == IF CanClone(r) /\ (RetryConfig.nonIdempotent \/ Idempotent(r)) THEN RetryConfig.retries ELSE 0

\* jittered_backoff; the shift is far below the width for every attempt here.
BackoffDelay(attempt, jitter) == Min2(RetryConfig.base * 2 ^ attempt + jitter, RetryConfig.max)

\* A Retry-After of at most max_delay replaces the backoff.
RetryDelays(e) ==
  {BackoffDelay(e.attempt, j) : j \in 0 .. RetryConfig.base}
    \cup IF e.last \in RetryStatuses THEN {Min2(t, RetryConfig.max) : t \in {0, RetryConfig.max + 1}} ELSE {}

----------------------------------------------------------------------------
Fail(e, kind) == exchange' = [e EXCEPT !.pc = "done", !.result = kind]

\* A streamed body has no length that could be trusted.
BodySizeKnownSmall(r) == r.body = "small"

\* TenantHttpClient::execute up to its loop, HttpClient::execute as a whole.
Execute(r) ==
  /\ exchange.pc = "idle" /\ UNCHANGED wire
  /\ LET e == [exchange EXCEPT !.req = r, !.url = r.url]
     IN IF ~r.tenant THEN exchange' = [e EXCEPT !.pc = "send"]
        ELSE IF r.hostHeader THEN Fail(e, "ssrf")
        ELSE IF ~BodySizeKnownSmall(r) THEN Fail(e, "size")
        ELSE exchange' = [e EXCEPT !.pc = "validate"]

Validate ==
  /\ exchange.pc = "validate" /\ UNCHANGED wire
  /\ \E answer \in Answers :
       IF ValidateUrl(exchange.url, answer) THEN exchange' = [exchange EXCEPT !.pc = "send", !.attempt = 0]
       ELSE Fail(exchange, "ssrf")

\* One attempt: no address or no connection, or bytes that arrived, with any outcome;
\* a timeout or a request error may also strike before the first byte.
SendAttempt ==
  /\ exchange.pc = "send"
  /\ \/ exchange' = [exchange EXCEPT !.pc = "finish", !.last = "connect"] /\ UNCHANGED wire
     \/ \E kind \in {"timeout", "request"} :
          exchange' = [exchange EXCEPT !.pc = "finish", !.last = kind] /\ UNCHANGED wire
     \/ \E answer \in Answers : \E a \in ConnectAddresses(exchange.req, exchange.url, answer) :
          /\ wire' = Append(wire, [address |-> a, host |-> exchange.url.host, hop |-> exchange.redirects])
          /\ \E outcome \in Statuses \cup (TransportErrors \ {"connect"}) :
               exchange' = [exchange EXCEPT !.pc = "finish", !.last = outcome]

\* HttpRequestAttempt::new: what the observer is told of an attempt.
ObservedAttempt(last, retrying) ==
  IF retrying THEN "retry" ELSE IF last \in Statuses THEN "success" ELSE "error"

\* finish: every attempt is observed once; then another one or the caller.
FinishAttempt ==
  /\ exchange.pc = "finish" /\ UNCHANGED wire
  /\ LET retrying == exchange.attempt < RetriesOf(exchange.req) /\ exchange.last \in RetryStatuses \cup RetryErrors
         e == [exchange EXCEPT !.observed = Append(@, ObservedAttempt(exchange.last, retrying))]
     IN IF retrying
        THEN \E d \in RetryDelays(e) :
               exchange' = [e EXCEPT !.pc = "send", !.attempt = @ + 1, !.slept = @ + d]
        ELSE IF e.last \in Statuses
             THEN exchange' = [e EXCEPT !.pc = IF e.req.tenant THEN "redirect" ELSE "body"]
             ELSE Fail(e, e.last)

\* 307 and 308 to the same origin only, and not too often; the Location may be
\* missing, or no URL.
FollowRedirect ==
  /\ exchange.pc = "redirect" /\ UNCHANGED wire
  /\ IF exchange.last \notin {"found", "moved"} THEN exchange' = [exchange EXCEPT !.pc = "body"]
     ELSE IF exchange.redirects >= TenantConfig.redirects \/ exchange.last = "found" THEN Fail(exchange, "redirect")
     ELSE \/ Fail(exchange, "redirect") \/ Fail(exchange, "invalidUrl")
          \/ \E u \in Url :
            IF u.host # exchange.url.host THEN Fail(exchange, "redirect")
            ELSE exchange' = [exchange EXCEPT !.pc = "validate", !.url = u, !.redirects = @ + 1]

----------------------------------------------------------------------------
\* Every response has a limit until its caller takes it away; a tenant's has the
\* tenant's, and the body read for an error has one in any case.
LimitedBody(e) == e.helper # "download" \/ e.last # "ok"

TakeResponse ==
  /\ exchange.pc = "body" /\ UNCHANGED wire
  /\ \E h \in HelpersOf(exchange.req) : exchange' = [exchange EXCEPT !.pc = "read", !.helper = h]

\* bytes_stream: an error ends the stream.
ReadChunk ==
  /\ exchange.pc = "read" /\ exchange.size <= TenantConfig.response /\ UNCHANGED wire
  /\ exchange.helper = "revoke" => exchange.last # "ok"
  /\ \E n \in Chunks :
       IF LimitedBody(exchange) /\ exchange.size + n > TenantConfig.response THEN Fail(exchange, "tooLarge")
       ELSE exchange' = [exchange EXCEPT !.size = @ + n]

\* error_for_status_with_body, then the cache lifetime, then the JSON; a timeout
\* keeps its kind.
EndBody ==
  /\ exchange.pc = "read" /\ UNCHANGED wire
  /\ \/ \E kind \in {"responseBody", "timeout"} : Fail(exchange, kind)
     \/ exchange.helper \in {"stream", "download"} /\ Fail(exchange, "response")
     \/ exchange.helper \notin {"stream", "download"} /\ exchange.last # "ok" /\ Fail(exchange, "status")
     \/ /\ exchange.helper \notin {"stream", "download"} /\ exchange.last = "ok"
        /\ \/ exchange.helper = "cached" /\ Fail(exchange, "cacheTtl")
           \/ exchange.helper # "revoke" /\ Fail(exchange, "decode")
           \/ Fail(exchange, "response")

HttpNext ==
  \/ \E r \in PlainRequests \cup TenantRequests : Execute(r)
  \/ Validate \/ SendAttempt \/ FinishAttempt \/ FollowRedirect \/ TakeResponse \/ ReadChunk \/ EndBody

----------------------------------------------------------------------------
\* A tenant's request only ever reaches addresses that are allowed, on the
\* host it was meant for, although the name is resolved once for the check and
\* again for the connection and redirects choose new URLs.
OnlyCheckedAddresses ==
  exchange.pc # "idle" /\ exchange.req.tenant =>
    \A i \in DOMAIN wire :
      ~IsBlockedIp(wire[i].address) /\ wire[i].host = exchange.req.url.host /\ MatchAllowlisted(wire[i].host)

\* A request that must not be repeated arrives at most once per hop; the time
\* slept stays within the policy; and what the observer was told of the attempts
\* tells how often the request may have arrived.
RepeatsWithinPolicy ==
  /\ \A i, j \in DOMAIN wire :
       i # j /\ ~(RetryNonIdempotent \/ Idempotent(exchange.req)) => wire[i].hop # wire[j].hop
  /\ Len(wire) <= (MaxRetries + 1) * (MaxRedirects + 1)
  /\ exchange.slept <= MaxRetries * (MaxRedirects + 1) * MaxDelay
  /\ exchange.pc # "finish" => Len(exchange.observed) >= Len(wire)
  /\ exchange.pc = "done" =>
       Cardinality({i \in DOMAIN exchange.observed : exchange.observed[i] # "retry"}) <= exchange.redirects + 1

\* A request never leaves its policy: neither in where it goes nor in how often (execute, connect, retry_delay).
ExchangeWithinPolicy == OnlyCheckedAddresses /\ RepeatsWithinPolicy
=============================================================================
