------------------------------ MODULE HttpJobs ------------------------------
(***************************************************************************)
(* bg-jobs-http: an executor that sends one HTTP request per attempt of a  *)
(* job under a registered policy, and turns the answer, or the answers of  *)
(* a batch, into job outcomes.  The authorizer and the peer are external:  *)
(* they may answer with any headers, late, or not at all.                  *)
(***************************************************************************)
EXTENDS Integers, Sequences, FiniteSets

CONSTANTS
  PolicyInputs,     \* what HttpPolicyBuilder may be given
  JobRequests,      \* what HttpRequest::try_new may be given
  InlineBytes, HeaderLimit,
  BatchItems,       \* attempts that one batch answers
  MaxAttempts, MaxHttpTime

ASSUME HttpJobsAssumption ==
  {InlineBytes, HeaderLimit, MaxAttempts, MaxHttpTime} \subseteq Nat \ {0} /\ IsFiniteSet(BatchItems)

VARIABLES httpTime,
          executor,   \* the bound policies, by identifier
          httpCall,   \* the call of HttpExecutor::execute that is under way
          sentOut,       \* requests that were handed to the transport
          decided,    \* job outcomes, with the policy and the time they were formed at
          batch       \* the last batch: its items, its response and its results

httpJobVars == <<httpTime, executor, httpCall, sentOut, decided, batch>>

NoHeader == <<>>
HeaderNames == {"idempotency", "attempt", "authorization", "host", "cookie", "plain"}
CallerForbidden == {"authorization", "host", "cookie"}
AuthorizedForbidden == {"cookie"}
SingleHeaders == {"authorization", "host"}
NoDelay == -1
Least(a, b) == IF a < b THEN a ELSE b
NoExchange == [pc |-> "idle", attempt |-> 1]

----------------------------------------------------------------------------
(* Requests and policies *)

SafeUrl(url) == url.https /\ url.bare
HeaderCount(h) == LET count[n \in SUBSET HeaderNames] ==
                        IF n = {} THEN 0 ELSE LET x == CHOOSE y \in n : TRUE IN Len(h[x]) + count[n \ {x}]
                  IN count[HeaderNames]
WithinHeaderLimits(h) == HeaderCount(h) <= HeaderLimit

CallerHeadersValid(h) == (\A n \in CallerForbidden : h[n] = NoHeader) /\ WithinHeaderLimits(h)
RequestValid(r) == r.bytes <= InlineBytes /\ SafeUrl(r.url) /\ CallerHeadersValid(r.headers)

HostMatches(value, url) == value = <<url.host, url.port>>
Duplicated(h, n) == Len(h[n]) > 1

\* What an authorizer may return: the identity headers as they were, no header the
\* transport owns, single values, and a Host that is the URL's.
AuthorizedHeadersValid(h, url, original) ==
  /\ \A n \in {"idempotency", "attempt"} : ~Duplicated(h, n) /\ h[n] = original[n]
  /\ \A n \in AuthorizedForbidden : h[n] = NoHeader
  /\ \A n \in SingleHeaders : ~Duplicated(h, n)
  /\ h["host"] # NoHeader => HostMatches(h["host"][1], url)
  /\ WithinHeaderLimits(h)

EndpointMatches(e, url) ==
  /\ url.port = e.port
  /\ url.host = e.host /\ (url.sub => e.subdomains)
Approves(policy, url) == SafeUrl(url) /\ \E e \in policy.endpoints : EndpointMatches(e, url)

EndpointValid(e) == e.host # "" /\ ~e.literal /\ e.port # 0
PolicyValid(b) ==
  /\ b.endpoints # {} /\ \A e \in b.endpoints : EndpointValid(e)
  /\ b.requestBytes \in 1 .. InlineBytes /\ b.responseBytes \in 1 .. InlineBytes
  /\ b.connect > 0 /\ b.timeout > 0 /\ b.retryMax > 0 /\ b.fallback > 0
  /\ b.headersDiffer

BuildPolicy(b) == [b EXCEPT !.fallback = Least(b.fallback, b.retryMax), !.connect = Least(b.connect, b.timeout)]

\* bind_policies: a transport of the caller must promise what the restricted
\* client does by itself.
TransportPromises == {"redirects", "destinations", "deadlines"}
Bind(inputs, promises) ==
  IF /\ inputs # <<>> /\ promises = TransportPromises
     /\ \A i \in DOMAIN inputs : PolicyValid(inputs[i])
     /\ \A i, j \in DOMAIN inputs : inputs[i].id = inputs[j].id => i = j
  THEN {BuildPolicy(inputs[i]) : i \in DOMAIN inputs}
  ELSE {}

----------------------------------------------------------------------------
(* Classification *)

\* parse_retry_after, bounded by the policy; a date in the past is no delay.
RetryAfter(hint, policy) ==
  CASE hint.form = "missing" -> NoDelay
    [] hint.form = "malformed" -> Least(policy.fallback, policy.retryMax)
    [] hint.form \in {"delta", "date"} -> Least(hint.delay, policy.retryMax)
NoHint == [form |-> "missing", delay |-> 0]
RetryHints == {NoHint, [NoHint EXCEPT !.form = "malformed"]} \cup [form : {"delta", "date"}, delay : {0, 3}]

Classified(class, delay) == [class |-> class, delay |-> delay]
RetryableStatus(status) == status \in {408, 425, 429} \/ status \in 500 .. 599
ClassifyStatus(status, hint, policy) ==
  Classified(CASE status \in 200 .. 299 -> "complete" [] RetryableStatus(status) -> "retry" [] OTHER -> "dead",
             RetryAfter(hint, policy))
ErrorKinds == {"timeout", "connect", "body", "tooLarge", "other"}
ClassifyTransport(kind, policy) ==
  IF kind \in {"timeout", "connect", "body"} THEN Classified("retry", policy.fallback) ELSE Classified("dead", NoDelay)
\* A failure while the body is read keeps the kind's verdict: a body that is too
\* large is final, one that broke off is not.
ClassifyBodyError(kind, policy) == ClassifyTransport(kind, policy)

\* classify_response: a declared length over the limit is final before the body is read.
ClassifyResponse(r, policy) ==
  IF r.length > policy.responseBytes THEN Classified("dead", NoDelay) ELSE ClassifyStatus(r.status, r.hint, policy)

\* to_job_outcome
OutcomeOf(c, policy) ==
  [class |-> c.class, at |-> httpTime, policy |-> policy,
   notBefore |-> IF c.class = "retry" /\ c.delay # NoDelay THEN httpTime + c.delay ELSE NoDelay]

----------------------------------------------------------------------------
(* The executor *)

HttpJobsInit ==
  /\ httpTime = 0 /\ executor = {} /\ httpCall = NoExchange /\ sentOut = {} /\ decided = {}
  /\ batch = [items |-> <<>>, wide |-> FALSE, responses |-> <<>>, results |-> <<>>]

BuildExecutor ==
  /\ executor = {}
  /\ \E p, q \in PolicyInputs, promises \in {TransportPromises, {"redirects"}}, one \in BOOLEAN :
       executor' = Bind(IF one THEN <<p>> ELSE <<p, q>>, promises)
  /\ executor' # {}
  /\ UNCHANGED <<httpTime, httpCall, sentOut, decided, batch>>

\* execute up to the authorizer's answer: the policy, the request, the deadline of
\* the attempt or of the policy, whichever is first, and the identity headers,
\* which the caller may not bring.
IdentityFree(h) == h["idempotency"] = NoHeader /\ h["attempt"] = NoHeader
WithIdentity(h, attempt) == [h EXCEPT !["idempotency"] = <<"execution">>, !["attempt"] = <<attempt>>]
ExecuteJob ==
  /\ httpCall.pc = "idle" /\ httpCall.attempt <= MaxAttempts
  /\ \E policy \in executor, r \in JobRequests, limit \in {NoDelay} \cup 1 .. MaxHttpTime :
       LET own == httpTime + policy.timeout
           deadline == IF limit = NoDelay THEN own ELSE Least(limit, own)
       IN /\ RequestValid(r) /\ r.bytes <= policy.requestBytes /\ Approves(policy, r.url)
          /\ deadline > httpTime /\ IdentityFree(r.headers)
          /\ httpCall' = [pc |-> "authorizing", attempt |-> httpCall.attempt, policy |-> policy, deadline |-> deadline,
                          request |-> [r EXCEPT !.headers = WithIdentity(@, httpCall.attempt)]]
  /\ UNCHANGED <<httpTime, executor, sentOut, decided, batch>>

\* An attempt that ends without an outcome is left to the job engine, like one
\* that is to be retried.
EndAttempt == httpCall' = [NoExchange EXCEPT !.attempt = httpCall.attempt + 1]

\* What authorizers do to the headers they are given.
Authorizations(h, url) ==
  {h, [h EXCEPT !["authorization"] = <<"signed">>, !["host"] = <<(<<url.host, url.port>>)>>],
   [h EXCEPT !["host"] = <<(<<"elsewhere", url.port>>)>>], [h EXCEPT !["authorization"] = <<"a", "b">>],
   [h EXCEPT !["idempotency"] = <<"fresh">>], [h EXCEPT !["idempotency"] = NoHeader],
   [h EXCEPT !["attempt"] = @ \o @], [h EXCEPT !["cookie"] = <<"c">>]}

\* The answer, re-validated, goes out at once if time is left.  The restricted
\* client drops the Host header that was signed, a custom one sends it.
AuthorizerAnswers ==
  /\ httpCall.pc = "authorizing" /\ UNCHANGED <<httpTime, executor, decided, batch>>
  /\ \E h \in Authorizations(httpCall.request.headers, httpCall.request.url) :
       IF AuthorizedHeadersValid(h, httpCall.request.url, httpCall.request.headers) /\ httpTime < httpCall.deadline
       THEN /\ httpCall' = [httpCall EXCEPT !.pc = "sent"]
            /\ \E signedHost \in {h["host"], NoHeader} :
                 sentOut' = sentOut \cup {[url |-> httpCall.request.url, headers |-> [h EXCEPT !["host"] = signedHost],
                                     attempt |-> httpCall.attempt, policy |-> httpCall.policy]}
       ELSE EndAttempt /\ UNCHANGED sentOut
AuthorizerFails == httpCall.pc = "authorizing" /\ EndAttempt /\ UNCHANGED <<httpTime, executor, sentOut, decided, batch>>

Conclude(c) == decided' = decided \cup {OutcomeOf(c, httpCall.policy)} /\ EndAttempt /\ UNCHANGED <<httpTime, executor, sentOut, batch>>

\* No response: the send failed, or its time is up.
SendFails == httpCall.pc = "sent" /\ \E kind \in ErrorKinds : Conclude(ClassifyTransport(kind, httpCall.policy))

Responses == [status : {204, 301, 429, 503}, hint : RetryHints, length : {0, InlineBytes + 1}]

\* A response: with no time left the attempt ends in an error although the request
\* was delivered; otherwise the body is read to its end.
ResponseArrives ==
  /\ httpCall.pc = "sent" /\ UNCHANGED <<httpTime, executor, sentOut, decided, batch>>
  /\ IF httpTime >= httpCall.deadline THEN EndAttempt
     ELSE \E r \in Responses : httpCall' = [pc |-> "reading", attempt |-> httpCall.attempt, policy |-> httpCall.policy,
                                            deadline |-> httpCall.deadline, response |-> r]
BodyEnds ==
  /\ httpCall.pc = "reading"
  /\ LET c == ClassifyResponse(httpCall.response, httpCall.policy)
     IN \/ Conclude(c)
        \/ httpCall.response.length <= httpCall.policy.responseBytes
           /\ \E kind \in ErrorKinds : Conclude(ClassifyBodyError(kind, httpCall.policy))

----------------------------------------------------------------------------
(* Batches *)

BatchResponses == [attempt : BatchItems \cup {"stranger"}, status : {204, 503}]

ItemResult_Last(item, responses, policy) ==
  LET mine == SelectSeq(responses, LAMBDA r : r.attempt = item)
  IN IF mine = <<>> THEN Classified("retry", NoDelay) ELSE ClassifyStatus(mine[Len(mine)].status, NoHint, policy)

\* classify_items: an item without its one answer is retried, whatever the others are.
ItemResult(item, responses, policy) ==
  LET mine == SelectSeq(responses, LAMBDA r : r.attempt = item)
  IN IF Len(mine) = 1 THEN ClassifyStatus(mine[1].status, NoHint, policy) ELSE Classified("retry", NoDelay)

\* classify_responses: an item twice, or an answer to no item, refuses the batch.
ClassifyBatch(items, responses, policy) ==
  IF /\ \A i, j \in DOMAIN items : items[i] = items[j] => i = j
     /\ \A k \in DOMAIN responses : \E i \in DOMAIN items : items[i] = responses[k].attempt
  THEN [i \in DOMAIN items |-> ItemResult(items[i], responses, policy)] ELSE <<>>
ClassifyWide(items, status, hint, policy) == [i \in DOMAIN items |-> ClassifyStatus(status, hint, policy)]

SeqsUpTo(S, n) == UNION {[1 .. k -> S] : k \in 0 .. n}
BatchAnswers ==
  /\ batch.results = <<>> /\ UNCHANGED <<httpTime, executor, httpCall, sentOut, decided>>
  /\ \E policy \in executor, items \in SeqsUpTo(BatchItems, 2) :
       \/ \E responses \in SeqsUpTo(BatchResponses, 3) :
            batch' = [items |-> items, wide |-> FALSE, responses |-> responses, results |-> ClassifyBatch(items, responses, policy)]
       \/ \E status \in {204, 503} :
            batch' = [items |-> items, wide |-> TRUE, responses |-> <<[attempt |-> "all", status |-> status]>>,
                      results |-> ClassifyWide(items, status, NoHint, policy)]
  /\ batch'.results # <<>>

HttpTick ==
  /\ httpTime < MaxHttpTime /\ httpTime' = httpTime + 1
  /\ UNCHANGED <<executor, httpCall, sentOut, decided, batch>>

HttpJobsNext ==
  \/ BuildExecutor \/ ExecuteJob \/ AuthorizerAnswers \/ AuthorizerFails \/ SendFails \/ ResponseArrives \/ BodyEnds
  \/ HttpTick
BatchNext == BuildExecutor \/ BatchAnswers

----------------------------------------------------------------------------
(***************************************************************************)
(* Whatever an authorizer returns and whenever it does, each request that  *)
(* leaves for the peer carries the execution's identity and its attempt's  *)
(* exactly once and goes to an approved endpoint, so that the peer can     *)
(* recognise a retry of what it has already done; and no answer, error or  *)
(* timeout delays a retry past the policy's maximum.                       *)
(***************************************************************************)
AttemptsIdentified ==
  /\ \A w \in sentOut : /\ w.headers["idempotency"] = <<"execution">> /\ w.headers["attempt"] = <<w.attempt>>
                     /\ Approves(w.policy, w.url)
  /\ \A d \in decided : d.notBefore <= d.at + d.policy.retryMax

(***************************************************************************)
(* No batch answer invents a success: an item completes only if one answer *)
(* of the batch, and only one, is its own (or the whole batch's) and is a  *)
(* success, and every item of an accepted batch has a result: a repeated,  *)
(* missing or contradictory answer of the peer leaves the item to a retry. *)
(***************************************************************************)
BatchExact ==
  \A i \in DOMAIN batch.results :
    /\ DOMAIN batch.results = DOMAIN batch.items
    /\ batch.results[i].class = "complete" =>
         LET mine == {k \in DOMAIN batch.responses : batch.wide \/ batch.responses[k].attempt = batch.items[i]}
         IN Cardinality(mine) = 1 /\ \A k \in mine : batch.responses[k].status \in 200 .. 299

\* Every attempt that leaves is identified and every answer is given to the attempt it belongs to (execute, execute_batch).
HttpJobsExact == AttemptsIdentified /\ BatchExact
=============================================================================
