---------------------------- MODULE TokenIssuance ---------------------------
(***************************************************************************)
(* authz-types: what an access token carries.  An administrator compiles   *)
(* claim mappings and revises permission sets; an issuer selects a set,    *)
(* renders claims and writes a token; a resource server reads it.  Two     *)
(* smaller parts: the scanner of mapping patterns, and the stored          *)
(* restriction of an API token.                                            *)
(***************************************************************************)
EXTENDS Integers, Sequences, FiniteSets, SequencesExt, FiniteSetsExt

CONSTANTS
  TextBytes,          \* the length of every text
  WordsOf,            \* the words of every text, between ASCII whitespace
  OddTexts,           \* texts that are blank or hold a control character
  MappingSpecs,       \* the mappings an administrator may configure
  RegexTable,         \* what the regex crate captures: pattern -> text -> named captures, or NoCapture
  NoCapture,
  KeyOrder,           \* the member names of claim trees, sorted
  SourceTrees,        \* verified claims of the upstream token
  SetContents,        \* what a permission set may hold
  SetIds, Protocols,
  TokenInputs,        \* the structural claims of tokens
  ClaimDepth, ClaimMembers, StringBytes, CustomLimit, CustomBytes, CustomTotal, MappingLimit, NodeLimit, PathBytes,
  SetLimits,          \* MAX_PERMISSION_SET_: id (bytes), permissions, claims, claimBytes
  PatternTokens, MaxPattern, PatternLimit, GroupDepth, QuantifierLimit,
  RegexRefused,       \* patterns the regex crate refuses though the scanner does not
  ScopeParts,         \* the parts of API-token restrictions
  ScopeLimits,        \* counts: strings, values, selected, entries; bytes: text, key
  NoneOf,
  MaxRevision

VARIABLES registry,    \* the compiled mappings
          sets,        \* permission sets, by identity
          assigned,    \* the assignment of the service principal
          selection,   \* the set a running issuance selected
          issuedToken  \* the last token issued: the claims, and the wire form

issueVars == <<registry, sets, assigned, selection, issuedToken>>

VARIABLE mappingPattern   \* a mapping pattern as it is written

VARIABLE stored    \* an API token's restriction: what was built, and its stored form

----------------------------------------------------------------------------
(* Claim values.                                                           *)

TextValue(text) == [kind |-> "text", text |-> text]
ArrayValue(items) == [kind |-> "array", items |-> items]
ObjectValue(members) == [kind |-> "object", members |-> members]

\* Texts joined with blanks: the bytes of the text they make.
JoinedBytes(texts) == FoldFunction(LAMBDA t, n : TextBytes[t] + n, 0, texts) + (IF texts = <<>> THEN 0 ELSE Len(texts) - 1)

RECURSIVE ClaimBounded(_, _)
\* validate_claim_value.
ClaimBounded(value, depth) ==
  /\ depth <= ClaimDepth
  /\ CASE value.kind = "text" -> TextBytes[value.text] <= StringBytes
       [] value.kind = "joined" -> JoinedBytes(value.texts) <= StringBytes
       [] value.kind = "array" -> /\ Len(value.items) <= ClaimMembers
                                  /\ \A i \in DOMAIN value.items : ClaimBounded(value.items[i], depth + 1)
       [] value.kind = "object" -> /\ Cardinality(DOMAIN value.members) <= ClaimMembers
                                   /\ \A n \in DOMAIN value.members :
                                        TextBytes[n] <= StringBytes /\ ClaimBounded(value.members[n], depth + 1)
       [] OTHER -> TRUE

RECURSIVE JsonBytes(_)
\* The length of canonical_json.
JsonBytes(value) ==
  CASE value.kind = "text" -> TextBytes[value.text] + 2
    [] value.kind = "array" -> 1 + Len(value.items) + FoldFunction(LAMBDA v, n : JsonBytes(v) + n, 0, value.items)
    [] value.kind = "object" ->
         1 + Cardinality(DOMAIN value.members)
           + MapThenSumSet(LAMBDA n : TextBytes[n] + 3 + JsonBytes(value.members[n]), DOMAIN value.members)
    [] OTHER -> 1

\* STRUCTURAL_CLAIM_NAMES.
StructuralNames_Fewer ==
  {"cnf", "iss", "sub", "aud", "exp", "iat", "nbf", "jti", "client_id", "scope", "tenant", "token_type", "principal_type",
   "auth_time", "acr", "amr", "nonce", "at_hash", "c_hash", "access_profile_session_reference"}

StructuralNames ==
  {"cnf", "iss", "sub", "aud", "exp", "iat", "nbf", "jti", "client_id", "scope", "tenant", "token_type", "principal_type",
   "auth_time", "acr", "amr", "nonce", "azp", "at_hash", "c_hash", "access_profile_session_reference", "permission_set_id",
   "permission_set_revision"}

----------------------------------------------------------------------------
(* Patterns.  A token stands for a character, an escape, or what opens a   *)
(* group; "{2}" is a range within MAX_CLAIM_MAPPING_REGEX_REPEAT.          *)

Quantifiers == {"+", "{2}"}
ScanStart == [ok |-> TRUE, groups |-> <<>>, inClass |-> FALSE, quantifiable |-> FALSE, quantified |-> FALSE, count |-> 0]
ScanFailed(s) == [s EXCEPT !.ok = FALSE]
SetFlags(s, quantifiable, quantified) == [s EXCEPT !.quantifiable = quantifiable, !.quantified = quantified]


CloseGroup(s) ==
  LET rest == Front(s.groups)
      marked == IF rest # <<>> /\ Last(s.groups) THEN [rest EXCEPT ![Len(rest)] = TRUE] ELSE rest
  IN SetFlags([s EXCEPT !.groups = marked], TRUE, Last(s.groups))

\* '*', '+', '?' and '{'.
AddQuantifier(s) ==
  IF ~s.quantifiable \/ s.quantified \/ s.count >= QuantifierLimit THEN ScanFailed(s)
  ELSE [s EXCEPT !.quantified = TRUE, !.count = @ + 1,
                 !.groups = IF @ = <<>> THEN @ ELSE [@ EXCEPT ![Len(@)] = TRUE]]

\* One step of validate_claim_mapping_regex_subset.
Scan(s, t) ==
  CASE ~s.ok -> s
    [] s.ok /\ s.inClass ->
         IF t = "badescape" THEN ScanFailed(s) ELSE [s EXCEPT !.inClass = (t # "]")]
    [] s.ok /\ ~s.inClass ->
         CASE t \in {"badescape", "{bad}", "("} -> ScanFailed(s)
           [] t = "[" -> SetFlags([s EXCEPT !.inClass = TRUE], TRUE, FALSE)
           [] t = "(?:" -> IF Len(s.groups) >= GroupDepth THEN ScanFailed(s)
                           ELSE SetFlags([s EXCEPT !.groups = Append(@, FALSE)], FALSE, FALSE)
           [] t = ")" -> IF s.groups = <<>> THEN ScanFailed(s) ELSE CloseGroup(s)
           [] t \in {"|", "^"} -> SetFlags(s, FALSE, FALSE)
           [] t \in Quantifiers -> AddQuantifier(s)
           [] OTHER -> SetFlags(s, TRUE, FALSE)
Scanned(tokens) == FoldLeft(Scan, ScanStart, tokens)
PatternBytes(tokens) == FoldFunction(LAMBDA t, n : n + (IF t \in {"(?:", "{2}", "{bad}"} THEN 3 ELSE 1), 0, tokens)
\* compile_claim_mapping_regex.
PatternValid(tokens) ==
  /\ tokens # <<>> /\ PatternBytes(tokens) <= PatternLimit /\ tokens \notin RegexRefused
  /\ LET s == Scanned(tokens) IN s.ok /\ ~s.inClass /\ s.groups = <<>>

----------------------------------------------------------------------------
(* Claim mappings.                                                         *)

\* ClaimPath::parse and validate: pieces are keys or indexes.
PathValid(path) ==
  /\ \A i \in DOMAIN path : path[i].kind = "key" => path[i].clean /\ TextBytes[path[i].key] > 0
  /\ 1 + FoldFunction(LAMBDA p, n : n + (IF p.kind = "key" THEN TextBytes[p.key] + 1 ELSE 3), 0, path) <= PathBytes
NoClaim == [kind |-> "missing"]
Child(value, piece) ==
  CASE piece.kind = "key" /\ value.kind = "object" -> IF piece.key \in DOMAIN value.members THEN value.members[piece.key] ELSE NoClaim
    [] piece.kind = "index" /\ value.kind = "array" -> IF piece.index < Len(value.items) THEN value.items[piece.index + 1] ELSE NoClaim
    [] OTHER -> NoClaim
PathValue(path, root) == FoldLeft(Child, root, path)

RECURSIVE TemplateNodes(_)
TemplateNodes(t) ==
  CASE t.kind = "object" -> 1 + MapThenSumSet(LAMBDA n : TemplateNodes(t.fields[n]), DOMAIN t.fields)
    [] t.kind = "array" -> 1 + FoldFunction(LAMBDA item, n : n + TemplateNodes(item), 0, t.items)
    [] OTHER -> 1

RECURSIVE TemplateNames(_)
TemplateNames(t) ==
  CASE t.kind = "capture" -> {t.name}
    [] t.kind = "object" -> UNION {TemplateNames(t.fields[n]) : n \in DOMAIN t.fields}
    [] t.kind = "array" -> UNION {TemplateNames(t.items[i]) : i \in DOMAIN t.items}
    [] OTHER -> {}

RECURSIVE TemplateValid(_)
TemplateValid(t) ==
  /\ TemplateNodes(t) <= NodeLimit
  /\ CASE t.kind = "literal" -> ClaimBounded(t.value, 0)
       [] t.kind = "capture" -> TextBytes[t.name] \in 1 .. PathBytes
       [] t.kind = "object" -> Cardinality(DOMAIN t.fields) <= ClaimMembers
                               /\ \A n \in DOMAIN t.fields : TextBytes[n] \in 1 .. StringBytes /\ TemplateValid(t.fields[n])
       [] t.kind = "array" -> Len(t.items) <= ClaimMembers /\ \A i \in DOMAIN t.items : TemplateValid(t.items[i])
       [] OTHER -> TRUE

RECURSIVE RenderTemplate(_, _, _)
\* ClaimTemplate::render; a capture that did not take part in the match is missing.
RenderTemplate(t, origin, captures) ==
  CASE t.kind = "literal" -> t.value
    [] t.kind = "source" -> origin
    [] t.kind = "capture" -> IF t.name \in DOMAIN captures THEN TextValue(captures[t.name]) ELSE NoClaim
    [] t.kind = "object" ->
         LET fields == [n \in DOMAIN t.fields |-> RenderTemplate(t.fields[n], origin, captures)]
         IN IF \E n \in DOMAIN fields : fields[n] = NoClaim THEN NoClaim ELSE ObjectValue(fields)
    [] t.kind = "array" ->
         LET items == [i \in DOMAIN t.items |-> RenderTemplate(t.items[i], origin, captures)]
         IN IF \E i \in DOMAIN items : items[i] = NoClaim THEN NoClaim ELSE ArrayValue(items)

RegexesOf(m) == {m.keyRegex, m.regex} \ {NoneOf}
\* ClaimMappingRegistry::compile.
MappingValid(m) ==
  /\ PathValid(m.source)
  /\ TextBytes[m.target] \in 1 .. StringBytes /\ m.target \notin StructuralNames
  /\ TemplateValid(m.template)
  /\ \A r \in RegexesOf(m) : PatternValid(r.tokens)
  /\ NoneOf \notin {m.keyRegex, m.regex} => m.keyRegex.names \cap m.regex.names = {}
  /\ TemplateNames(m.template) \subseteq UNION {r.names : r \in RegexesOf(m)}
RegistryValid(specs) ==
  /\ Cardinality(specs) <= MappingLimit
  /\ \A m \in specs : MappingValid(m)
  /\ \A m, n \in specs : (m.output = n.output /\ m.target = n.target) => m = n

\* capture_values, and merge_capture_values, which fills the captures that did not take part.
Captures(regex, text) == RegexTable[regex.id][text]
MergedCaptures(keyCaptures, regex, text) ==
  keyCaptures @@ [n \in regex.names |-> IF n \in DOMAIN Captures(regex, text) THEN Captures(regex, text)[n] ELSE ""]

\* VerifiedClaimTree::try_new.
TreeValid(value) == ClaimBounded(value, 0)

\* One entry of an object under a key pattern, and a source without one.
RenderEntry(m, key, value) ==
  IF m.regex = NoneOf THEN RenderTemplate(m.template, value, Captures(m.keyRegex, key))
  ELSE IF value.kind # "text" \/ Captures(m.regex, value.text) = NoCapture THEN NoClaim
  ELSE RenderTemplate(m.template, value, MergedCaptures(Captures(m.keyRegex, key), m.regex, value.text))
RenderPlain(m, origin) ==
  IF m.regex = NoneOf THEN RenderTemplate(m.template, origin, <<>>)
  ELSE IF origin.kind # "text" \/ Captures(m.regex, origin.text) = NoCapture THEN NoClaim
  ELSE RenderTemplate(m.template, origin, Captures(m.regex, origin.text))
RenderMapping(m, tree) ==
  LET origin == PathValue(m.source, tree)
      keys == SelectSeq(KeyOrder, LAMBDA k : k \in DOMAIN origin.members /\ Captures(m.keyRegex, k) # NoCapture)
      entries == [i \in DOMAIN keys |-> RenderEntry(m, keys[i], origin.members[keys[i]])]
      rendered == CASE origin = NoClaim -> NoClaim
                    [] m.keyRegex = NoneOf -> RenderPlain(m, origin)
                    [] origin.kind # "object" -> NoClaim
                    [] OTHER -> IF keys = <<>> \/ \E i \in DOMAIN entries : entries[i] = NoClaim THEN NoClaim
                                ELSE ArrayValue(entries)
  IN IF rendered # NoClaim /\ TreeValid(rendered) THEN rendered ELSE NoClaim

\* render_for: every mapping of the output, or an error.
RenderedMappings(output, tree) ==
  LET ms == {m \in registry : m.output = output}
  IN [t \in {m.target : m \in ms} |-> RenderMapping(CHOOSE m \in ms : m.target = t, tree)]

----------------------------------------------------------------------------
(* Permission sets.                                                        *)

Eligible(protocol) == {i \in SetIds : sets[i].enabled /\ protocol \in sets[i].protocols}
\* select_interactive_permission_set.
SelectInteractive(protocol, requested) ==
  LET eligible == Eligible(protocol)
  IN IF requested # NoneOf THEN eligible \cap {requested}
     ELSE IF Cardinality(eligible) = 1 THEN eligible ELSE {}
\* select_service_permission_set: a stale assignment selects nothing.
SelectService(protocol, principal) ==
  {i \in SetIds : /\ assigned.active /\ assigned.principal = principal /\ assigned.set = i
                  /\ sets[i].enabled /\ protocol \in sets[i].protocols
                  /\ sets[i].revision = assigned.revision}

\* validate_identifier.
IdentifierValid(text) == TextBytes[text] \in 1 .. SetLimits.id /\ text \notin OddTexts
\* PermissionSet::validate.
SetValid(set) ==
  /\ IdentifierValid(set.id) /\ set.revision > 0 /\ set.protocols # {}
  /\ Len(set.permissions) <= SetLimits.permissions /\ IsInjective(set.permissions)
  /\ Cardinality(DOMAIN set.claims) <= SetLimits.claims
  /\ \A n \in DOMAIN set.claims : IdentifierValid(n) /\ JsonBytes(set.claims[n]) <= SetLimits.claimBytes
  /\ \A text \in ToSet(set.permissions) : IdentifierValid(text)
IsSamlValue(value) ==
  value.kind = "text" \/ (value.kind = "array" /\ \A i \in DOMAIN value.items : value.items[i].kind = "text")
\* render_claims.
WithPermissions(set) ==
  IF set.permissions = <<>> THEN set.claims
  ELSE set.claims @@ ("permissions" :> ArrayValue([i \in DOMAIN set.permissions |-> TextValue(set.permissions[i])]))
SetRenders(set, protocol) ==
  /\ SetValid(set) /\ protocol \in set.protocols
  /\ DOMAIN set.claims \cap StructuralNames = {}
  /\ set.permissions # <<>> => "permissions" \notin DOMAIN set.claims
  /\ protocol = "saml" => \A n \in DOMAIN WithPermissions(set) : IsSamlValue(WithPermissions(set)[n])

----------------------------------------------------------------------------
(* Tokens.                                                                 *)

\* CustomClaims::try_new.
CustomValid(custom) ==
  /\ Cardinality(DOMAIN custom) <= CustomLimit
  /\ \A n \in DOMAIN custom : /\ TextBytes[n] <= StringBytes /\ n \notin StructuralNames
                              /\ ClaimBounded(custom[n], 1) /\ JsonBytes(custom[n]) <= CustomBytes
  /\ MapThenSumSet(LAMBDA n : JsonBytes(custom[n]), DOMAIN custom) <= CustomTotal
  /\ ClaimBounded(ObjectValue(custom), 0)

\* NormalizedAudience::try_new.
AudienceValid(aud) == aud # <<>> /\ \A i \in DOMAIN aud : TextBytes[aud[i]] \in 1 .. StringBytes
\* validate_scope_values: a scope is one word, and each is bounded by itself.
ScopeValid(scope) ==
  Len(scope) <= ClaimMembers /\ \A i \in DOMAIN scope : WordsOf[scope[i]] = <<scope[i]>> /\ TextBytes[scope[i]] <= StringBytes
\* AccessProfileSessionReference::try_new; an identity has its prefix and the form of a UUID.
SessionValid(s) == /\ TextBytes[s.id] \in 1 .. StringBytes /\ s.formed
                   /\ TextBytes[s.profile] \in 1 .. StringBytes /\ s.revision > 0

\* OAuthAccessTokenClaims::validate.
ClaimsValid(c) ==
  /\ \A text \in {c.iss, c.sub, c.jti, c.client, c.tenant} : TextBytes[text] \in 1 .. StringBytes
  /\ AudienceValid(c.aud) /\ ScopeValid(c.scope)
  /\ c.exp > c.iat
  /\ c.nbf # NoneOf => c.nbf <= c.exp
  /\ c.authTime # NoneOf => c.authTime <= c.iat
  /\ Len(c.amr) <= ClaimMembers
  /\ \A text \in ToSet(c.amr) \cup ({c.acr, c.nonce, c.azp, c.atHash, c.cHash} \ {NoneOf}) : TextBytes[text] <= StringBytes
  /\ CustomValid(c.custom)

Number(n) == [kind |-> "number", number |-> n]
Texts(list) == ArrayValue([i \in DOMAIN list |-> TextValue(list[i])])
\* One audience is a text, several are a list.
AudienceForm(aud) == IF Len(aud) = 1 THEN TextValue(aud[1]) ELSE Texts(aud)
\* serialize_scope: one text, the scopes joined with blanks.
ScopeForm(scope) == [kind |-> "joined", texts |-> scope]
\* ConfirmationClaim::from_thumbprint.
ConfirmationForm(thumbprint) == ObjectValue("jkt" :> TextValue(thumbprint))
SessionForm(s) == [kind |-> "session", fields |-> s]
\* The members of the JSON object, custom claims among them.
Optional(name, value, form) == IF value = NoneOf THEN {} ELSE {<<name, form>>}
ToWire(c) ==
  {<<"iss", TextValue(c.iss)>>, <<"sub", TextValue(c.sub)>>, <<"tenant", TextValue(c.tenant)>>,
   <<"jti", TextValue(c.jti)>>, <<"client_id", TextValue(c.client)>>, <<"token_type", TextValue("access_token")>>,
   <<"principal_type", TextValue(c.principal)>>, <<"exp", Number(c.exp)>>, <<"iat", Number(c.iat)>>,
   <<"aud", AudienceForm(c.aud)>>, <<"scope", ScopeForm(c.scope)>>}
  \cup Optional("nbf", c.nbf, Number(c.nbf)) \cup Optional("auth_time", c.authTime, Number(c.authTime))
  \cup UNION {Optional(claim[1], claim[2], TextValue(claim[2])) :
               claim \in {<<"azp", c.azp>>, <<"acr", c.acr>>, <<"nonce", c.nonce>>, <<"at_hash", c.atHash>>, <<"c_hash", c.cHash>>}}
  \cup Optional("cnf", c.cnf, ConfirmationForm(c.cnf))
  \cup Optional("access_profile_session_reference", c.session, SessionForm(c.session))
  \cup (IF c.amr = <<>> THEN {} ELSE {<<"amr", Texts(c.amr)>>})
  \cup {<<n, c.custom[n]>> : n \in DOMAIN c.custom}

Member(json, name) == (CHOOSE m \in json : m[1] = name)[2]
Named(json, name) == \E m \in json : m[1] = name
Plain(list) == [i \in DOMAIN list |-> list[i].text]
AudienceList(v) == IF v.kind = "text" THEN <<v.text>> ELSE Plain(v.items)
\* deserialize_scope: the text is split where there is whitespace.
ScopeWords(v) == FlattenSeq([i \in DOMAIN v.texts |-> WordsOf[v.texts[i]]])
\* The visitor of ConfirmationClaim, and the parser it calls.
ConfirmationReadable(v) ==
  /\ v.kind = "object" /\ Cardinality(DOMAIN v.members) <= ClaimMembers
  /\ \A n \in DOMAIN v.members : TextBytes[n] <= StringBytes
  /\ JsonBytes(v) <= CustomTotal
  /\ "jkt" \in DOMAIN v.members => v.members["jkt"].kind = "text"
Thumbprint(v) == v.members["jkt"].text
\* The reference is read with all its fields or not at all.
SessionRead(v) == v.fields
SessionReadable(v) == v.kind = "session" /\ {"id", "profile", "revision"} \subseteq DOMAIN v.fields /\ SessionValid(v.fields)
WireNames ==
  {"cnf", "iss", "sub", "aud", "exp", "iat", "nbf", "jti", "client_id", "scope", "tenant", "token_type", "principal_type",
   "auth_time", "acr", "amr", "nonce", "azp", "at_hash", "c_hash", "access_profile_session_reference"}
\* OAuthAccessTokenClaimsWire: a repeated member is an error, an unknown one is a custom claim.
FromWire(json) ==
  LET Get(name, Form(_), default) == IF Named(json, name) THEN Form(Member(json, name)) ELSE default
      Text(v) == v.text
      Num(v) == v.number
      others == {m \in json : m[1] \notin WireNames}
  IN [iss |-> Text(Member(json, "iss")), sub |-> Text(Member(json, "sub")), tenant |-> Text(Member(json, "tenant")),
      principal |-> Text(Member(json, "principal_type")), exp |-> Num(Member(json, "exp")), iat |-> Num(Member(json, "iat")),
      aud |-> AudienceList(Member(json, "aud")), scope |-> ScopeWords(Member(json, "scope")),
      jti |-> Text(Member(json, "jti")), client |-> Text(Member(json, "client_id")),
      nbf |-> Get("nbf", Num, NoneOf), authTime |-> Get("auth_time", Num, NoneOf), azp |-> Get("azp", Text, NoneOf),
      acr |-> Get("acr", Text, NoneOf), nonce |-> Get("nonce", Text, NoneOf), atHash |-> Get("at_hash", Text, NoneOf),
      cHash |-> Get("c_hash", Text, NoneOf),
      amr |-> Get("amr", AudienceList, <<>>), cnf |-> Get("cnf", Thumbprint, NoneOf),
      session |-> Get("access_profile_session_reference", SessionRead, NoneOf),
      custom |-> [n \in {m[1] : m \in others} |-> Member(others, n)]]
Readable(json) ==
  /\ \A m, n \in json : m[1] = n[1] => m = n
  /\ \A m \in json : /\ m[1] \in {"acr", "nonce", "azp", "at_hash", "c_hash"} => m[2].kind = "text"
                     /\ m[1] = "cnf" => ConfirmationReadable(m[2])
                     /\ m[1] = "access_profile_session_reference" => SessionReadable(m[2])
  /\ ClaimsValid(FromWire(json))

\* VerifiedClaimTree::try_new of the whole token: what is read as one typed claim is bounded as JSON here.
TokenTreeValid(json) ==
  Cardinality(json) <= ClaimMembers /\ \A m \in json : TextBytes[m[1]] <= StringBytes /\ ClaimBounded(m[2], 1)
\* ValidatedPrincipal::try_from_access_token: the principal is the token's, the tree says what the claims say.
PrincipalAccepted(claims, principal, kind, json) ==
  /\ TokenTreeValid(json) /\ ClaimsValid(claims)
  /\ principal = claims.sub /\ kind = claims.principal
  /\ Readable(json) /\ FromWire(json) = claims

----------------------------------------------------------------------------
NoToken == [claims |-> NoneOf]

IssueInit ==
  /\ registry = {} /\ assigned = [active |-> FALSE, principal |-> "", set |-> "", revision |-> 0]
  /\ sets = [i \in SetIds |-> [id |-> i, revision |-> 1] @@ (CHOOSE c \in SetContents : c.enabled)]
  /\ selection = NoneOf /\ issuedToken = NoToken

CompileMappings(specs) ==
  /\ registry' = IF RegistryValid(specs) THEN specs ELSE registry
  /\ UNCHANGED <<sets, assigned, selection, issuedToken>>

\* A set is replaced under its next revision.
Revise(i, contents) ==
  /\ sets[i].revision < MaxRevision
  /\ sets' = [sets EXCEPT ![i] = [id |-> i, revision |-> @.revision + 1] @@ contents]
  /\ UNCHANGED <<registry, assigned, selection, issuedToken>>

\* PermissionSetAssignment::validate.
AssignmentValid(a) == IdentifierValid(a.principal) /\ IdentifierValid(a.set) /\ a.revision > 0
Assign(i) ==
  /\ assigned' = [active |-> TRUE, principal |-> "svc", set |-> i, revision |-> sets[i].revision]
  /\ AssignmentValid(assigned')
  /\ UNCHANGED <<registry, sets, selection, issuedToken>>

\* The issuer takes a copy of the set it selected.
Select(protocol, service, requested) ==
  /\ selection = NoneOf
  /\ \E i \in IF service THEN SelectService(protocol, "svc") ELSE SelectInteractive(protocol, requested) :
       selection' = [set |-> sets[i], protocol |-> protocol]
  /\ issuedToken' = NoToken
  /\ UNCHANGED <<registry, sets, assigned>>

\* The rendered mappings join the claims of the set; how they are joined is the caller's choice.
Issue(input, tree) ==
  LET mapped == RenderedMappings("access_token", tree)
      claims == [custom |-> mapped @@ WithPermissions(selection.set)] @@ input
  IN /\ selection # NoneOf /\ selection' = NoneOf
     /\ issuedToken' =
          IF /\ SetRenders(selection.set, selection.protocol)
             /\ \A t \in DOMAIN mapped : mapped[t] # NoClaim
             /\ ClaimsValid(claims)
          THEN [claims |-> claims, json |-> ToWire(claims)]
          ELSE NoToken
     /\ UNCHANGED <<registry, sets, assigned>>

IssueNext ==
  \/ \E specs \in SUBSET MappingSpecs : CompileMappings(specs)
  \/ \E i \in SetIds : Assign(i) \/ \E c \in SetContents : Revise(i, c)
  \/ \E p \in Protocols, service \in BOOLEAN, r \in SetIds \cup {NoneOf} : Select(p, service, r)
  \/ \E input \in TokenInputs, tree \in SourceTrees : Issue(input, tree)

----------------------------------------------------------------------------
\* A pattern is written token by token until the scanner refuses it.
PatternInit == mappingPattern = <<>>
Write(t) == Len(mappingPattern) < MaxPattern /\ Scanned(mappingPattern).ok /\ mappingPattern' = Append(mappingPattern, t)
PatternNext == \E t \in PatternTokens : Write(t)

----------------------------------------------------------------------------
(* The restriction of an API token: TokenScopeConfig.                      *)

\* validate_string_vec.
VecValid(list, items, bytes) == Len(list) <= items /\ \A i \in DOMAIN list : TextBytes[list[i]] \in 1 .. bytes
\* validate_permission_map.
MapValid(map) ==
  /\ Cardinality(DOMAIN map) <= ScopeLimits.entries
  /\ \A k \in DOMAIN map : TextBytes[k] \in 1 .. ScopeLimits.key /\ VecValid(map[k], ScopeLimits.values, ScopeLimits.text)
\* validate_fine_grained.
FineValid(f) ==
  /\ (f.selection = "all") = (f.selected = <<>>)
  /\ VecValid(f.selected, ScopeLimits.selected, ScopeLimits.key) /\ MapValid(f.resources) /\ MapValid(f.orgs)
\* validate_parts.
PartsValid(c) ==
  /\ VecValid(c.strings, ScopeLimits.strings, ScopeLimits.text) /\ (c.org # NoneOf => TextBytes[c.org] \in 1 .. ScopeLimits.key)
  /\ c.resolved # NoneOf =>
       c.resolved # <<>> /\ VecValid(c.resolved, ScopeLimits.values, ScopeLimits.text) /\ IsInjective(c.resolved)
  /\ CASE c.type = "full_access" -> c.strings = <<>> /\ c.fine = NoneOf /\ c.resolved = NoneOf
       [] c.type = "scope_strings" -> c.fine = NoneOf /\ (c.resolved # NoneOf => c.strings # <<>>)
       [] c.type = "fine_grained" -> c.strings = <<>> /\ c.resolved = NoneOf /\ c.fine # NoneOf
  /\ c.fine # NoneOf => FineValid(c.fine)

\* What is written: empty lists and absent options are left out.
Stored(c) ==
  LET Kept(name, value, empty) == IF value \in empty THEN <<>> ELSE name :> value
  IN [type |-> c.type] @@ Kept("strings", c.strings, {<<>>}) @@ Kept("fine", c.fine, {NoneOf})
       @@ Kept("org", c.org, {NoneOf}) @@ Kept("resolved", c.resolved, {NoneOf})
\* BoundedStringVec and BoundedStringMap stop at the first item or byte too many.
VecReadable(list, items, bytes) == Len(list) <= items /\ \A i \in DOMAIN list : TextBytes[list[i]] <= bytes
MapReadable(map) ==
  /\ Cardinality(DOMAIN map) <= ScopeLimits.entries
  /\ \A k \in DOMAIN map : TextBytes[k] <= ScopeLimits.key /\ VecReadable(map[k], ScopeLimits.values, ScopeLimits.text)
\* FineGrainedScopes.
FineReadable(f) ==
  VecReadable(f.selected, ScopeLimits.selected, ScopeLimits.key) /\ MapReadable(f.resources) /\ MapReadable(f.orgs)
PartsReadable(json) ==
  /\ "strings" \in DOMAIN json => VecReadable(json.strings, ScopeLimits.strings, ScopeLimits.text)
  /\ "resolved" \in DOMAIN json => VecReadable(json.resolved, ScopeLimits.values, ScopeLimits.text)
  /\ "org" \in DOMAIN json => TextBytes[json.org] <= ScopeLimits.key
  /\ "fine" \in DOMAIN json => FineReadable(json.fine)
\* WireTokenScopeConfig: what is left out has its default, and a restriction needs its type.
Reread(json) ==
  LET Get(name, default) == IF name \in DOMAIN json THEN json[name] ELSE default
      c == [type |-> Get("type", "full_access"), strings |-> Get("strings", <<>>), fine |-> Get("fine", NoneOf),
            org |-> Get("org", NoneOf), resolved |-> Get("resolved", NoneOf)]
      typed == "type" \in DOMAIN json \/ {"strings", "fine", "resolved"} \cap DOMAIN json = {}
  IN IF PartsReadable(json) /\ typed /\ PartsValid(c) THEN c ELSE NoneOf

FullAccess == [type |-> "full_access", strings |-> <<>>, fine |-> NoneOf, org |-> NoneOf, resolved |-> NoneOf]
StoredInit == stored = [config |-> FullAccess, json |-> Stored(FullAccess)]
Build(c) == PartsValid(c) /\ stored' = [config |-> c, json |-> Stored(c)]
\* full_access, with_scopes and fine_grained start anew; with_org and with_resolved_permissions add a part.
StoredNext ==
  \/ Build(FullAccess)
  \/ \E strings \in ScopeParts.strings : Build([FullAccess EXCEPT !.type = "scope_strings", !.strings = strings])
  \/ \E fine \in ScopeParts.fine : Build([FullAccess EXCEPT !.type = "fine_grained", !.fine = fine])
  \/ \E org \in ScopeParts.orgs : Build([stored.config EXCEPT !.org = org])
  \/ \E resolved \in ScopeParts.strings : Build([stored.config EXCEPT !.resolved = resolved])

----------------------------------------------------------------------------
\* What an issuer accepts reads back as the very claims that were issued, and no mapping or permission set
\* has taken the place of a structural claim; a resource server makes a principal of it exactly when the
\* whole token is also a claim tree, which bounds what the issuer does not: the scopes together (each is
\* bounded by itself, and 128 are allowed) and the number of audiences (claim_bounds.rs:124-139,
\* normalized_audience.rs:15-23, verified_claim_tree.rs:17-19).  A stored API-token restriction, checked by
\* one validator when it is built and by another when it is read, always reads back
\* (access_token_claims.rs:243-281, token_scope.rs:71-111).
IssuedReadsBack ==
  /\ issuedToken # NoToken =>
       LET c == issuedToken.claims
           fits == JoinedBytes(c.scope) <= StringBytes /\ Len(c.aud) <= ClaimMembers
       IN /\ Readable(issuedToken.json) /\ FromWire(issuedToken.json) = c
          /\ PrincipalAccepted(c, c.sub, c.principal, issuedToken.json) <=> fits
  /\ Reread(stored.json) = stored.config

\* Depth of groups, and membership of classes, by counting.
InClassAt(p, i) == \E q \in 1 .. i - 1 : p[q] = "[" /\ \A r \in q + 1 .. i - 1 : p[r] # "]"
Outside(p, t) == {i \in DOMAIN p : p[i] = t /\ ~InClassAt(p, i)}
Groups(p) ==
  {g \in Outside(p, "(?:") \X Outside(p, ")") :
     /\ g[1] < g[2]
     /\ \A k \in g[1] .. g[2] - 1 : Cardinality(Outside(p, "(?:") \cap (g[1] .. k)) > Cardinality(Outside(p, ")") \cap (g[1] .. k))
     /\ Cardinality(Outside(p, "(?:") \cap (g[1] .. g[2])) = Cardinality(Outside(p, ")") \cap (g[1] .. g[2]))}

=============================================================================
