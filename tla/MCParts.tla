------------------------------ MODULE MCParts -------------------------------
(***************************************************************************)
(* One run for the components that stand alone: a behaviour picks a part   *)
(* and takes the steps of that part only.  The parts share no state, so    *)
(* this explores each of them exactly as a run of its own would.           *)
(***************************************************************************)
EXTENDS DiskJournal, RemoteState, ReplayQueue, FetchCache, RefreshTickets, CredentialChain,
        WriterLifecycle, LambdaInvocations, SpotNotices, JobSchedules, HttpExchange, Authorization, PolicyBundle,
        JobHosting, HttpJobs, RequestCosts, MetricGauges, TokenVerification, ProofPresentation, AccessConfiguration,
        TokenIssuance, TLC

VARIABLE part

partVars ==
  <<part, diskVars, remoteVars, queueVars, cacheVars, ticketVars, credVars, lifecycleVars, lambdaVars, spotVars,
    scheduleVars, httpVars, authzVars, bundleVars, hostVars, httpJobVars, costVars, gaugeVars, tokenVars, proofVars,
    configVars, issueVars, mappingPattern, stored>>

InOrder == <<"r1", "r2">>
SomeAttempts == <<"t1", "t2">>

----------------------------------------------------------------------------
\* Schedules: misfire policies (skip, fire once, catch up by two) and budgets.
Policies == {0, -1, 2}
SomeBudgets ==
  {[occurrences |-> 1, operations |-> 9], [occurrences |-> 3, operations |-> 8], [occurrences |-> 1, operations |-> 3]}

\* HTTP: an allowed domain, its subdomain, a literal address, and addresses of each range and form.
Domains == {[apex |-> "a", subdomains |-> FALSE]}
HostOf(a, s, l, r) == [apex |-> a, sub |-> s, literal |-> l, range |-> r]
SomeHosts ==
  {HostOf("a", FALSE, FALSE, "public"), HostOf("a", TRUE, FALSE, "public"), HostOf("10", FALSE, TRUE, "private")}
SomeAddresses ==
  {[range |-> "public", form |-> "v4"], [range |-> "private", form |-> "embedded"], [range |-> "loopback", form |-> "v6"]}

\* Remote state: every operation of one client, and a claim of another.
SomeRemoteOps == ({"claim", "renew", "settle", "inspect"} \X {"r1"}) \cup {<<"claim", "r2">>}

\* Tickets: work of both demands, cheap and dear, that expires early or late.
WorkOf(b, d, at) == [bytes |-> b, demand |-> d, deadline |-> at]
SomeWork == {WorkOf(1, "cold", 2), WorkOf(2, "cold", 1), WorkOf(1, "background", 2), WorkOf(2, "background", 2)}

\* Authorization: a user and a role that asks for itself, two assignments, three places, inclusions that meet.
AssignmentOf(r, p, k, i, x) ==
  [role |-> r, principal |-> p, scope |-> [kind |-> k, type |-> "doc", id |-> i], expires |-> x]
SomeAssignments == {AssignmentOf("editor", "user", "org", "o1", Unset), AssignmentOf("viewer", Unset, "resource", "doc1", 3)}
SomeSubjects ==
  {[type |-> "user", id |-> "user", org |-> Unset, group |-> "g1"], [type |-> "role", id |-> "viewer", org |-> Unset, group |-> Unset]}
PlaceIn(org, owner, public, group, shared) ==
  [org |-> org, owner |-> owner, public |-> public, group |-> group, shared |-> shared, orgParents |-> {"o1"}, groupParents |-> shared]
SomePlaces ==
  {PlaceIn("o1", "other", FALSE, "g1", {}), PlaceIn("o2", "user", FALSE, Unset, {"user", "g1"}), PlaceIn(Unset, "other", TRUE, "g2", {"g1"})}
SomeConfiguration ==
  [permissions |-> [docEdit |-> [actions |-> {"edit", "read"}, notActions |-> {}, types |-> {"doc"}],
                    docView |-> [actions |-> {"read"}, notActions |-> {"share"}, types |-> {"doc", "organization"}]],
   roles |-> [editor |-> [permissions |-> {[permission |-> "docEdit", scopes |-> {"org", "group", "shared"}]},
                          actions |-> {[action |-> "share", scopes |-> {"own", "org", "orgRelationship", "groupRelationship"}]},
                          notActions |-> {}],
              viewer |-> [permissions |-> {[permission |-> "docView", scopes |-> {"resource", "tenant"}]},
                          actions |-> {}, notActions |-> {[action |-> "edit", scopes |-> {"tenant"}]}]],
   declared |-> {"read", "edit", "share"},
   scopeMappings |-> [all |-> [permissions |-> {}, includes |-> {"look"}],
                      look |-> [permissions |-> {"docView"}, includes |-> {"all"}]],
   stepUp |-> [edit |-> [acr |-> 2, authAge |-> 1, mfaAge |-> Unset, amr |-> {"otp"}, apiKeys |-> FALSE],
               share |-> [acr |-> 4, authAge |-> Unset, mfaAge |-> 1, amr |-> {}, apiKeys |-> TRUE]]]
SomeSessions ==
  {Unset, [acr |-> 4, amr |-> {"otp"}, authTime |-> 1, mfaTime |-> 3],
   [acr |-> 3, amr |-> {"otp"}, authTime |-> 2, mfaTime |-> Unset]}
TokenOf(owner, bound, kind, scopes, expires) ==
  [owner |-> owner, bound |-> bound, org |-> Unset, kind |-> kind, scopes |-> scopes, resolved |-> Unset,
   permissions |-> {}, orgPermissions |-> {}, selected |-> Unset, expires |-> expires]
SomeTokens ==
  {Unset, [TokenOf("user", TRUE, "full", {}, Unset) EXCEPT !.org = "o1"], TokenOf("svc", FALSE, "strings", {"all"}, 3),
   [TokenOf("svc", FALSE, "strings", {"all"}, Unset) EXCEPT !.resolved = {"docEdit"}],
   [TokenOf("user", TRUE, "fine", {}, Unset) EXCEPT
      !.permissions = {"doc", "organization"} \X {"docEdit", "docView"}, !.orgPermissions = {<<"o1", "docView">>}, !.selected = {"doc1"}]}
SomeJwtContexts ==
  {Unset, [complete |-> FALSE, roles |-> {[role |-> "editor", scope |-> [kind |-> "tenant", type |-> "doc", id |-> ""]]}]}
\* Every session with every token, and the roles of the issuer on their own.
SomeRequests ==
  [subject : SomeSubjects, session : SomeSessions, token : SomeTokens, jwt : {Unset}]
    \cup [subject : SomeSubjects, session : {Unset}, token : {Unset}, jwt : SomeJwtContexts]

\* Bundles: configurations that differ in their policies, types, names or
\* remarks; one compiles into more than a run time reads.
PolicyOf(t, s, r) == [type |-> t, shape |-> s, role |-> r]
TypeNamed(i, e, c) == [id |-> i, entity |-> e, context |-> c, actions |-> {"read", "edit"}]
PlainContext == [none |-> "String"]
BaseModel ==
  [types |-> <<TypeNamed("doc", "Doc", PlainContext)>>, statics |-> 2, note |-> "a",
   policies |-> <<PolicyOf("doc", "s1", "r1"), PolicyOf("doc", "s2", "r1"), PolicyOf("doc", "s1", "r2"),
                  PolicyOf("doc", "s3", "r1")>>]
SomeModels ==
  {BaseModel,
   [BaseModel EXCEPT !.policies = <<PolicyOf("doc", "s2", "r2"), PolicyOf("doc", "s3", "r1")>>,
                     !.types = Append(@, TypeNamed("pad", "Pad", PlainContext))],
   [BaseModel EXCEPT !.types = <<TypeNamed("doc", "Role", PlainContext)>>],
   [BaseModel EXCEPT !.types = <<TypeNamed("doc", "Doc", [is_public |-> "String"])>>],
   [BaseModel EXCEPT !.policies = @ \o <<PolicyOf("doc", "s1", "r3"), PolicyOf("doc", "s1", "r4")>>],
   [BaseModel EXCEPT !.types = @ \o <<TypeNamed("pad", "Pad", PlainContext), TypeNamed("job", "Job", PlainContext)>>],
   [BaseModel EXCEPT !.note = "b"]}

\* HTTP jobs: a policy whose fallback is too long, one that is refused, and requests.
PolicyInput(i, lit) ==
  [id |-> i, endpoints |-> {[host |-> "a", port |-> 443, subdomains |-> FALSE, literal |-> lit]}, requestBytes |-> 2,
   responseBytes |-> 2, connect |-> 3, timeout |-> 2, retryMax |-> 1, fallback |-> 2, headersDiffer |-> TRUE]
SomePolicyInputs == {PolicyInput("p", FALSE), PolicyInput("q", TRUE)}
NoHeaders == [n \in HeaderNames |-> NoHeader]
RequestOn(h, sub, headers) ==
  [bytes |-> 1, url |-> [https |-> TRUE, bare |-> TRUE, host |-> h, sub |-> sub, port |-> 443], headers |-> headers]
SomeJobRequests ==
  {RequestOn("a", TRUE, NoHeaders), RequestOn("b", FALSE, NoHeaders),
   RequestOn("a", FALSE, [NoHeaders EXCEPT !["plain"] = <<"x">>]),
   RequestOn("a", FALSE, [NoHeaders EXCEPT !["attempt"] = <<"x">>])}

\* Request costs: an identifier for every request.
SharedId == [r \in CostRequests |-> "id"]

\* Tokens: keys old and new, a failed fetch, and a token by each key.
Jwk(kid, family, size) ==
  [kid |-> kid, id |-> kid, use |-> "sig", ops |-> "none", alg |-> "none", family |-> family, size |-> size, strong |-> TRUE]
SomeDocuments ==
  {[readable |-> TRUE, keys |-> {Jwk("k1", "P256", 32)}], [readable |-> TRUE, keys |-> {Jwk("k2", "rsa", 256)}],
   [readable |-> FALSE, keys |-> {}]}
StaticDocument == [readable |-> TRUE, keys |-> {Jwk("k1", "P256", 32), Jwk("k1", "P384", 48), Jwk("k2", "rsa", 256)}]
LocalSecret == Jwk("k1", "oct", 48)
TokenBy(issuer, kid, alg) ==
  [header |-> "good", payload |-> "good", alg |-> alg, kid |-> kid, typ |-> "at+jwt", material |-> FALSE, signer |-> kid,
   iss |-> issuer, aud |-> [kind |-> "list", names |-> <<"api">>], exp |-> 2, nbf |-> NoNumber, iat |-> 0, plainStrings |-> TRUE,
   type |-> "access", azp |-> "app", client |-> "", nonce |-> ""]
SomeTokensSeen == {TokenBy("i1", "k1", "ES256")}
BuilderFor(issuer) ==
  [NewBuilder("access") EXCEPT !.issuer = issuer, !.audience = "any", !.audiences = {"api"}, !.client = "app", !.maxAge = 2]
SomeEntrances ==
  {[kind |-> "remote", typed |-> TRUE], [kind |-> "static", typed |-> FALSE], [kind |-> "local", typed |-> TRUE]}
SomeBuilders == {BuilderFor("i1"), [BuilderFor("i1") EXCEPT !.leeway = 3]}

\* Proofs: URIs with dot segments, plain and escaped, in both forms; stamps in whole seconds and in tenths.
UriOf(absolute, name, port, path) ==
  [https |-> TRUE, absolute |-> absolute, clean |-> TRUE, user |-> FALSE, host |-> name, port |-> port, path |-> path,
   query |-> FALSE]
SomeBases == {UriOf(TRUE, "API", 443, <<"", "a">>), UriOf(TRUE, "api", 8443, <<"", "">>)}
SomePaths == {<<"">> \o p : p \in UNION {[1 .. n -> {"b", "", "..", "%2e", "%2e.", "%2f"}] : n \in 1 .. 2}}
SomeUris == {UriOf(x, "api", 443, p) : x \in BOOLEAN, p \in SomePaths}
SomeConfirmations ==
  [t1 |-> [kind |-> "jkt", jkt |-> "x1", others |-> FALSE], t2 |-> [kind |-> "absent", jkt |-> "", others |-> FALSE],
   t3 |-> [kind |-> "jkt", jkt |-> "x1", others |-> FALSE]]
SomeForms == [t \in AccessTokens |-> [bytes |-> IF t = "t3" THEN 9 ELSE 8, ascii |-> TRUE]]
SomeMethods == {[name |-> "GET", bytes |-> 3, parses |-> TRUE], [name |-> "PROPPATCH", bytes |-> 9, parses |-> TRUE]}
SomeProofLimits ==
  [document |-> 22, depth |-> 8, members |-> 32, string |-> 4, uri |-> 22, key |-> 4, keyMembers |-> 16, jti |-> 1, method |-> 8,
   token |-> 8]
SomeStamps == {[mantissa |-> 1, exponent |-> 0], [mantissa |-> 15, exponent |-> -1], [mantissa |-> 30, exponent |-> -1]}

\* Configurations: texts with wildcards, capitals and a name no exact reference may use; entries to add and to drop.
TextOf(key, stars, at, stem, chars, starts, ends, parts) ==
  [key |-> key, stars |-> stars, place |-> at, stem |-> stem, chars |-> chars, starts |-> starts, ends |-> ends,
   size |-> 3, parts |-> parts]
PlainText(key, starts, ends) == TextOf(key, 0, "", "", TRUE, starts, ends, 1)
SomeSpellings ==
  [doc |-> PlainText("doc", {"d"}, {}), DOC |-> PlainText("doc", {"d"}, {}), pad |-> PlainText("pad", {}, {"d"}),
   read |-> PlainText("read", {"re"}, {"d"}), Read |-> PlainText("read", {"re"}, {"d"}), edit |-> PlainText("edit", {}, {}),
   rename |-> PlainText("rename", {"re"}, {}), odd |-> TextOf("odd", 0, "", "", FALSE, {}, {"d"}, 1),
   any |-> TextOf("any", 1, "alone", "", TRUE, {}, {}, 1), startsRe |-> TextOf("startsRe", 1, "back", "re", TRUE, {}, {}, 1),
   endsD |-> TextOf("endsD", 1, "front", "d", TRUE, {}, {}, 1), inside |-> TextOf("inside", 1, "middle", "", TRUE, {}, {}, 1),
   p1 |-> TextOf("p1", 0, "", "", TRUE, {}, {}, 2), p2 |-> TextOf("p2", 0, "", "", TRUE, {}, {}, 2),
   editor |-> PlainText("editor", {}, {}), unit |-> PlainText("unit", {}, {})]
SomeLimits ==
  [typeName |-> 4, actionName |-> 4, permissionId |-> 4, identifier |-> 4, amount |-> 9, ttl |-> 3, shortest |-> 1, longest |-> 3,
   types |-> 3, typeActions |-> 3, name |-> 4, permissions |-> 2, id |-> 4, permissionRefs |-> 2, roles |-> 2,
   rolePermissions |-> 2, roleRefs |-> 3, scopes |-> 1, url |-> 9, providers |-> 1, audiences |-> 1, algorithms |-> 2,
   cacheTtl |-> 3, mappings |-> 2, mappingPermissions |-> 1, mappingIncludes |-> 1, rules |-> 2]
RefOf(t, a) == [type |-> t, action |-> a]
RoleRefOf(t, a, scope, limit) == [type |-> t, action |-> a, scopes |-> {scope}, limit |-> limit]
OrgScope == [kind |-> "org", type |-> Unset]
DocScope == [kind |-> "resource", type |-> "DOC"]
PermissionOf(i, refs, nots) == [id |-> i, name |-> i, actions |-> refs, notActions |-> nots, repeats |-> 0]
RoleOf(actions, nots, mode, maximum) ==
  [id |-> "editor", name |-> "editor", permissions |-> {[permission |-> "p1", scopes |-> {DocScope}]}, actions |-> actions,
   notActions |-> nots, repeats |-> 1, policy |-> [mode |-> mode, maximum |-> maximum]]
QuotaOf(low) ==
  [key |-> "unit", unit |-> "unit", amount |-> 2, ttl |-> 1, low |-> low, critical |-> 90, source |-> "capacity", mode |-> "hard"]
SomeUrl == [https |-> TRUE, host |-> TRUE, blank |-> FALSE, size |-> 9]
ProviderOf(algs) ==
  [issuer |-> SomeUrl, jwks |-> SomeUrl, subject |-> "unit", org |-> Unset, audiences |-> {"api"}, algorithms |-> algs, ttl |-> 3]
MappingOf(scope, includes) == [scope |-> scope, permissions |-> {"p1"}, includes |-> includes]
RuleOf(i, acr, age) == [id |-> i, acr |-> acr, authAge |-> age, mfaAge |-> Unset]
SomeDraft ==
  [types |-> {[id |-> "doc", name |-> "doc", actions |-> {"read", "edit"}]},
   permissions |-> {PermissionOf("p1", {RefOf("DOC", "startsRe")}, {})},
   roles |-> {RoleOf({RoleRefOf("any", "endsD", OrgScope, QuotaOf(80))}, {}, "permanent", Unset)},
   providers |-> {}, mappings |-> {MappingOf("p1", {})}, rules |-> {RuleOf("strong", "recent_auth", 1)},
   defaultRule |-> {"strong"}, twice |-> {}, stepUp |-> {[type |-> "doc", default |-> Unset, actions |-> {[action |-> "edit", rule |-> "strong"]}]}]
SomeEntries ==
  [types |-> {[id |-> "pad", name |-> "pad", actions |-> {"Read", "odd"}], [id |-> "DOC", name |-> "pad", actions |-> {"read"}],
              [id |-> "doc", name |-> "doc", actions |-> {"read", "edit"}],
              [id |-> "doc", name |-> "doc", actions |-> {"read", "edit", "rename"}]},
   permissions |-> {PermissionOf("p2", {RefOf("any", "startsRe"), RefOf("doc", "edit")}, {RefOf("doc", "any")}),
                    PermissionOf("p2", {RefOf("doc", "inside")}, {})},
   roles |-> {RoleOf({RoleRefOf("any", "endsD", OrgScope, QuotaOf(80))}, {}, "permanent", Unset),
              RoleOf({RoleRefOf("any", "startsRe", DocScope, QuotaOf(95))}, {}, "temporary", 2),
              RoleOf({}, {RoleRefOf("doc", "any", DocScope, Unset)}, "temporary", 2)},
   providers |-> {ProviderOf({"RS256"}), ProviderOf({"none"})}, mappings |-> {MappingOf("p2", {"p1"})},
   rules |-> {RuleOf("strong", "recent_auth", 1)}, defaultRule |-> {"strong"}]

\* Token issuance: texts of one byte and one too long, mappings of every kind, sets and tokens.
AllTexts ==
  {"", "long", "a", "b", "x", "k", "v", "dept", "team", "roles", "list", "ra", "rb", "name", "azp", "me", "svc", "t1", "api", "web",
   "read", "level", "permissions", "user", "service", "otp", "jkt", "read a", " ", "s1", "s2", "jti1", "access_token"} \cup WireNames
SomeTextBytes == [t \in AllTexts |-> IF t = "" THEN 0 ELSE IF t = "long" THEN 5 ELSE IF t = "read a" THEN 3 ELSE 1]
SomeWords == [t \in AllTexts |-> IF t \in {"", " "} THEN <<>> ELSE IF t = "read a" THEN <<"read", "a">> ELSE <<t>>]
KeyPiece(k) == [kind |-> "key", key |-> k, clean |-> TRUE]
SomeRefused == {<<"[", "]">>}
RegexNamed(i, names) == [id |-> i, names |-> names, tokens |-> <<"(?:", "c", "+", ")">>]
MappingTo(path, to, keyRegex, regex, template) ==
  [source |-> path, target |-> to, output |-> "access_token", keyRegex |-> keyRegex, regex |-> regex, template |-> template]
CaptureOf(n) == [kind |-> "capture", name |-> n]
SomeMappings ==
  {MappingTo(<<KeyPiece("dept")>>, "team", Unset, RegexNamed("rx", {"x"}),
             [kind |-> "object", fields |-> [name |-> CaptureOf("x"), level |-> [kind |-> "literal", value |-> TextValue("a")]]]),
   MappingTo(<<KeyPiece("roles")>>, "roles", RegexNamed("rk", {"k"}), RegexNamed("rv", {"v"}),
             [kind |-> "array", items |-> <<CaptureOf("k"), CaptureOf("v"), [kind |-> "source"]>>]),
   MappingTo(<<KeyPiece("list"), [kind |-> "index", index |-> 0]>>, "azp", Unset, Unset, [kind |-> "source"])}
SomeRegexTable ==
  [rx |-> [a |-> [x |-> "a"], b |-> <<>>, long |-> NoCapture], rk |-> [ra |-> [k |-> "a"], rb |-> NoCapture],
   rv |-> [a |-> [v |-> "b"], b |-> <<>>, long |-> NoCapture]]
TreeOf(dept) ==
  ObjectValue([dept |-> TextValue(dept), list |-> ArrayValue(<<TextValue("web")>>),
               roles |-> ObjectValue([ra |-> TextValue(dept), rb |-> TextValue("long")])])
SomeKeys == <<"ra", "rb">>
SomeTrees == {TreeOf("a"), TreeOf("b"), ObjectValue([dept |-> ArrayValue(<<>>)])}
SetOf(protocols, perms, claims) == [enabled |-> TRUE, protocols |-> protocols, permissions |-> perms, claims |-> claims]
SomeSetContents ==
  {SetOf({"oauth", "saml"}, <<"read">>, [level |-> TextValue("a")]), SetOf({"oauth"}, <<>>, [azp |-> TextValue("web")]),
   [SetOf({"oauth"}, <<>>, [level |-> ObjectValue([a |-> TextValue("long")])]) EXCEPT !.enabled = FALSE]}
InputOf(who, kind, aud, scope, nbf, azp) ==
  [iss |-> "me", sub |-> who, tenant |-> "t1", principal |-> kind, exp |-> 3, iat |-> 1, aud |-> aud, scope |-> scope, nbf |-> nbf,
   jti |-> "jti1", client |-> "web", acr |-> azp, nonce |-> Unset, atHash |-> azp, cHash |-> Unset, authTime |-> 1, azp |-> azp, amr |-> <<"otp">>, cnf |-> IF azp = Unset THEN "x" ELSE Unset,
   session |-> IF azp = Unset THEN Unset ELSE [id |-> "a", formed |-> TRUE, profile |-> "b", revision |-> 1]]
SomeTokenInputs ==
  {InputOf("svc", "service", <<"api">>, <<"read", "a">>, Unset, Unset),
   InputOf("svc", "service", <<"api">>, <<"read", "a", "b">>, Unset, Unset),
   InputOf("svc", "service", [i \in 1 .. 26 |-> "api"], <<>>, Unset, Unset),
   InputOf("svc", "service", <<"api">>, <<"read a">>, Unset, Unset), InputOf("user", "user", <<"api", "web">>, <<>>, 3, "web"),
   InputOf("user", "user", <<"api">>, <<>>, 4, Unset)}
FineOf(of, selected, map) == [selection |-> of, selected |-> selected, resources |-> map, orgs |-> <<>>]
SomeSetLimits == [id |-> 3, permissions |-> 2, claims |-> 2, claimBytes |-> 24]
SomeScopeLimits == [strings |-> 2, values |-> 3, selected |-> 1, entries |-> 1, text |-> 5, key |-> 3]
SomeScopeParts ==
  [strings |-> {<<>>, <<"read">>, <<"read", "read">>, <<"read", "a", "b">>, <<"long">>}, orgs |-> {"t1", "", "long"},
   fine |-> {FineOf("all", <<>>, <<>>), FineOf("all", <<"a">>, <<>>), FineOf("selected", <<"a">>, [a |-> <<"read", "a", "long">>]),
             FineOf("selected", <<"a", "b">>, <<>>), FineOf("selected", <<"long">>, <<>>),
             FineOf("selected", <<>>, [a |-> <<>>])}]

----------------------------------------------------------------------------
PartNames ==
  {"disk", "remote", "queue", "cache", "tickets", "credentials", "lifecycle", "lambda", "spot", "schedules", "polling", "http",
   "authz", "bundle", "driver", "consumer", "httpjobs", "httpbatch", "costs", "gauges", "tokens", "proofs",
   "configuration", "issuance", "patterns", "restrictions"}

Init ==
  /\ part \in PartNames
  /\ DiskInit /\ RemoteInit /\ QueueInit /\ CacheInit /\ TicketsInit /\ CredInit
  /\ LifecycleInit /\ LambdaInit /\ SpotInit
  /\ ScheduleInit /\ HttpInit /\ AuthzInit /\ BundleInit /\ HostingInit /\ HttpJobsInit
  /\ CostInit /\ GaugesInit /\ TokensInit /\ ProofInit /\ ConfigInit /\ IssueInit /\ PatternInit /\ StoredInit
  /\ (part # "proofs") => proofNow = 0

\* The other parts, and the choice, stand still.
Only(p) ==
  /\ part = p /\ UNCHANGED part
  /\ (p # "disk") => UNCHANGED diskVars
  /\ (p # "remote") => UNCHANGED remoteVars
  /\ (p # "queue") => UNCHANGED queueVars
  /\ (p # "cache") => UNCHANGED cacheVars
  /\ (p # "tickets") => UNCHANGED ticketVars
  /\ (p # "credentials") => UNCHANGED credVars
  /\ (p # "lifecycle") => UNCHANGED lifecycleVars
  /\ (p # "lambda") => UNCHANGED lambdaVars
  /\ (p # "spot") => UNCHANGED spotVars
  /\ (p \notin {"schedules", "polling"}) => UNCHANGED scheduleVars
  /\ (p # "http") => UNCHANGED httpVars
  /\ (p # "authz") => UNCHANGED authzVars
  /\ (p # "bundle") => UNCHANGED bundleVars
  /\ (p \notin {"driver", "consumer"}) => UNCHANGED hostVars
  /\ (p \notin {"httpjobs", "httpbatch"}) => UNCHANGED httpJobVars
  /\ (p # "costs") => UNCHANGED costVars
  /\ (p # "gauges") => UNCHANGED gaugeVars
  /\ (p # "tokens") => UNCHANGED tokenVars
  /\ (p # "proofs") => UNCHANGED proofVars
  /\ (p # "configuration") => UNCHANGED configVars
  /\ (p # "issuance") => UNCHANGED issueVars
  /\ (p # "patterns") => UNCHANGED mappingPattern
  /\ (p # "restrictions") => UNCHANGED stored

Disk == Only("disk") /\ DiskNext
Remote == Only("remote") /\ RemoteNext
Queue == Only("queue") /\ QueueNext
Cache == Only("cache") /\ CacheNext
Tickets == Only("tickets") /\ TicketsNext
Credentials == Only("credentials") /\ CredNext
Lifecycle == Only("lifecycle") /\ LifecycleNext
Lambda == Only("lambda") /\ LambdaNext
Spot == Only("spot") /\ SpotNext
Schedules == Only("schedules") /\ ScheduleNext
Polling == Only("polling") /\ PollNext
Http == Only("http") /\ HttpNext
Authz == Only("authz") /\ AuthzNext
Bundle == Only("bundle") /\ BundleNext
Driver == Only("driver") /\ (DriverNext \/ HostTick)
Consumer == Only("consumer") /\ (ConsumerNext \/ HostTick)
HttpAttempts == Only("httpjobs") /\ HttpJobsNext
HttpBatches == Only("httpbatch") /\ BatchNext
Costs == Only("costs") /\ CostNext
Gauges == Only("gauges") /\ GaugesNext
TokenChecks == Only("tokens") /\ TokensNext
Proofs == Only("proofs") /\ ProofNext
Configuring == Only("configuration") /\ ConfigNext
Issuing == Only("issuance") /\ IssueNext
Patterns == Only("patterns") /\ PatternNext
Restrictions == Only("restrictions") /\ StoredNext

Next ==
  \/ Disk \/ Remote \/ Queue \/ Cache \/ Tickets \/ Credentials \/ Lifecycle \/ Lambda \/ Spot
  \/ Schedules \/ Polling \/ Http \/ Authz \/ Bundle \/ Driver \/ Consumer \/ HttpAttempts \/ HttpBatches
  \/ Costs \/ Gauges \/ TokenChecks \/ Proofs \/ Configuring \/ Issuing \/ Patterns \/ Restrictions

Spec == Init /\ [][Next]_partVars
=============================================================================
