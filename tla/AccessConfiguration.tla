------------------------- MODULE AccessConfiguration ------------------------
(***************************************************************************)
(* authz-types: a draft of the access configuration is edited, submitted,  *)
(* validated with its wildcards, expanded, validated again without them,   *)
(* and adopted; the adopted one is edited and submitted again, and the     *)
(* assignment policy of every role follows it.                             *)
(* Lists are sets, with what a list of the configuration holds twice kept  *)
(* in `twice' and, of a permission or a role, the number of repeated       *)
(* action references in `repeats': the limits count them, expanding the    *)
(* references removes them.  Shorter lists (scopes, audiences) are not     *)
(* repeated here.                                                          *)
(***************************************************************************)
EXTENDS Integers, FiniteSets

CONSTANTS
  Spellings,        \* what is known of a text: key, stars, place, stem, chars, starts, ends, size
  DraftEntries,     \* per list of a configuration, the entries an editor may add or drop
  FirstDraft,
  Limit,            \* the MAX_ constants: one field per list
  NoneSet,          \* an absent option
  MaxEdits, MaxAdoptions

ASSUME ConfigurationAssumption == MaxEdits \in Nat /\ MaxAdoptions \in Nat

VARIABLES draft,     \* the ConfigurationModel being edited
          submission,  \* what the last submission returned
          rolePolicies,  \* per role, its AccessAssignmentPolicy
          edits, adoptions

configVars == <<draft, submission, rolePolicies, edits, adoptions>>

----------------------------------------------------------------------------
(* Texts and patterns.                                                     *)

\* normalize_name_key: trimmed and in lower case.
NameKey(text) == Spellings[text].key
Sized(text, max) == Spellings[text].size \in 1 .. max

\* WildcardPattern::parse of the trimmed and lower-cased text.
PatternOf(text, max) ==
  LET s == Spellings[NameKey(text)]
  IN CASE ~Sized(NameKey(text), max) -> [kind |-> "bad"]
       [] s.stars = 1 /\ s.place = "alone" -> [kind |-> "any"]
       [] s.stars = 0 /\ s.chars -> [kind |-> "exact", text |-> s.key]
       [] s.stars = 1 /\ s.place = "front" /\ s.chars -> [kind |-> "suffix", text |-> s.stem]
       [] s.stars = 1 /\ s.place = "back" /\ s.chars -> [kind |-> "prefix", text |-> s.stem]
       [] OTHER -> [kind |-> "bad"]

\* WildcardPattern::matches, on the key of a catalogue name.
Matches(pattern, key) ==
  CASE pattern.kind = "any" -> TRUE
    [] pattern.kind = "exact" -> key = pattern.text
    [] pattern.kind = "prefix" -> pattern.text \in Spellings[key].starts
    [] pattern.kind = "suffix" -> pattern.text \in Spellings[key].ends

\* expand_action_patterns: the catalogue's own spelling of every matching action; none is an error.
Expansion(types, ref) ==
  LET typePattern == PatternOf(ref.type, Limit.typeName)
      actionPattern == PatternOf(ref.action, Limit.actionName)
  IN IF "bad" \in {typePattern.kind, actionPattern.kind} THEN {}
     ELSE UNION {{[type |-> t.id, action |-> a] : a \in {b \in t.actions : Matches(actionPattern, NameKey(b))}} :
                   t \in {u \in types : Matches(typePattern, NameKey(u.id))}}

----------------------------------------------------------------------------
(* Values that are checked when they are read.                             *)

\* Scope::from_str; storage_key spells it for the wire.
ScopeKinds ==
  {"tenant", "org", "group", "own", "shared", "public", "org_relationship", "group_relationship", "resource"}
ScopeReadable(scope) == scope.kind \in ScopeKinds /\ scope.type # ""
ReadScope(scope) == [kind |-> scope.kind, type |-> IF scope.type = NoneSet THEN NoneSet ELSE NameKey(scope.type)]

\* PermissionId::new: two parts, neither empty.
PermissionIdValid(text) == Sized(text, Limit.permissionId) /\ Spellings[text].parts = 2

\* RoleLimitThresholds::try_new.
ThresholdsValid(limit) ==
  /\ \A p \in {limit.low, limit.critical} \ {NoneSet} : p \in 1 .. 99
  /\ NoneSet \notin {limit.low, limit.critical} => limit.low < limit.critical
\* RoleLimitKey, RoleLimitUnit, RoleLimitAmount, RoleLimitReservationTtlSeconds.
LimitFieldsValid(limit) ==
  /\ \A text \in {limit.key, limit.unit} : Sized(text, Limit.identifier) /\ Spellings[text].chars
  /\ limit.amount \in 0 .. Limit.amount /\ limit.ttl \in 1 .. Limit.ttl
\* RoleActionLimit::validate.
LimitValid(limit) ==
  ThresholdsValid(limit) /\ <<limit.source, limit.mode>> \in {<<"capacity", "hard">>, <<"supplied", "advisory">>}

\* AccessAssignmentDurationSeconds::try_new.
DurationValid(seconds) == seconds \in Limit.shortest .. Limit.longest
\* AccessAssignmentPolicySpec::validate.
PolicySpecValid(spec) ==
  (spec.mode = "temporary" => spec.maximum # NoneSet) /\ (spec.maximum # NoneSet => DurationValid(spec.maximum))

\* Reading a configuration: a value that cannot be read refuses all of it.
RoleReadable(role) ==
  /\ \A p \in role.permissions : PermissionIdValid(p.permission) /\ \A s \in p.scopes : ScopeReadable(s)
  /\ \A a \in role.actions \cup role.notActions :
       /\ \A s \in a.scopes : ScopeReadable(s)
       /\ a.limit # NoneSet => LimitFieldsValid(a.limit) /\ LimitValid(a.limit)
  /\ PolicySpecValid(role.policy)
ReadRole(role) ==
  LET ScopesRead(entries) == {[e EXCEPT !.scopes = {ReadScope(s) : s \in e.scopes}] : e \in entries}
  IN [role EXCEPT !.permissions = ScopesRead(@), !.actions = ScopesRead(@), !.notActions = ScopesRead(@)]

----------------------------------------------------------------------------
(* validate_with_options, one operator per list.                           *)

\* No two entries of a list share the key of a field.
DistinctBy(list, Field(_)) == \A a, b \in list : NameKey(Field(a)) = NameKey(Field(b)) => a = b
\* The length of a list, and that no entry of it is repeated.
Listed(c, list) == Cardinality(c[list]) + Cardinality({x \in c.twice : x[1] = list})
Once(c, list) == \A x \in c.twice : x[1] # list
IdOf(entry) == entry.id
NameOf(entry) == entry.name
SelfOf(entry) == entry

\* validate_catalog_identifier.
NoWildcard(text) == Spellings[text].stars = 0

TypesValid(c) ==
  /\ Listed(c, "types") <= Limit.types /\ Once(c, "types")
  /\ DistinctBy(c.types, IdOf) /\ DistinctBy(c.types, NameOf)
  /\ \A t \in c.types :
       /\ Cardinality(t.actions) <= Limit.typeActions
       /\ Sized(t.id, Limit.typeName) /\ NoWildcard(t.id) /\ Sized(t.name, Limit.name)
       /\ DistinctBy(t.actions, SelfOf)
       /\ \A a \in t.actions : Sized(a, Limit.actionName) /\ NoWildcard(a)

\* validate_action_reference.
ReferenceValid(c, ref, wildcards) ==
  /\ wildcards \/ (NoWildcard(ref.type) /\ NoWildcard(ref.action))
  /\ Expansion(c.types, ref) # {}

PermissionsValid(c, wildcards) ==
  /\ Listed(c, "permissions") <= Limit.permissions /\ Once(c, "permissions")
  /\ DistinctBy(c.permissions, IdOf) /\ DistinctBy(c.permissions, NameOf)
  /\ \A p \in c.permissions :
       /\ Sized(p.id, Limit.id) /\ Sized(p.name, Limit.name)
       /\ p.actions # {}
       /\ Cardinality(p.actions) + p.repeats <= Limit.permissionRefs /\ Cardinality(p.notActions) <= Limit.permissionRefs
       /\ \A ref \in p.actions \cup p.notActions : ReferenceValid(c, ref, wildcards)

PermissionIds(c) == {p.id : p \in c.permissions}

RolesValid(c) ==
  /\ Listed(c, "roles") <= Limit.roles /\ Once(c, "roles")
  /\ DistinctBy(c.roles, IdOf) /\ DistinctBy(c.roles, NameOf)
  /\ \A r \in c.roles :
       /\ PolicySpecValid(r.policy)
       /\ Sized(r.id, Limit.id) /\ Sized(r.name, Limit.name)
       /\ r.permissions # {} \/ r.actions # {}
       /\ Cardinality(r.permissions) <= Limit.rolePermissions
       /\ Cardinality(r.actions) + r.repeats <= Limit.roleRefs /\ Cardinality(r.notActions) <= Limit.roleRefs
RoleEntriesValid(c, wildcards) ==
  \A r \in c.roles :
    /\ \A p \in r.permissions : p.permission \in PermissionIds(c) /\ Cardinality(p.scopes) <= Limit.scopes
    /\ \A a \in r.actions \cup r.notActions : ReferenceValid(c, a, wildcards) /\ Cardinality(a.scopes) <= Limit.scopes
    /\ \A a \in r.actions : a.limit # NoneSet => LimitValid(a.limit)
    /\ \A a \in r.notActions : a.limit = NoneSet

\* validate_resource_scope_types: a resource scope names the only type that is granted.
ScopeTypesValid(scopes, types) ==
  \A s \in scopes :
    (s.kind = "resource" /\ s.type # NoneSet) => \E t \in types : types = {t} /\ NameKey(t) = NameKey(s.type)
\* resource_types_for_action.
GrantedTypes(c, refs) == {g.type : g \in UNION {Expansion(c.types, ref) : ref \in refs}}
\* validate_resource_scope_configuration.
ResourceScopesValid(c) ==
  \A r \in c.roles :
    /\ \A p \in r.permissions, q \in c.permissions :
         p.permission = q.id => ScopeTypesValid(p.scopes, GrantedTypes(c, q.actions \cup q.notActions))
    /\ \A a \in r.actions \cup r.notActions : ScopeTypesValid(a.scopes, GrantedTypes(c, {a}))

\* has_nonempty_https_target and the checks around it.
TargetValid(url) == url.https /\ url.host /\ ~url.blank /\ url.size <= Limit.url
SupportedAlgs == {"RS256", "RS384", "RS512", "ES256", "ES384", "HS256"}
ProvidersValid(c) ==
  /\ Listed(c, "providers") <= Limit.providers
  /\ \A p \in c.providers :
       /\ TargetValid(p.issuer) /\ TargetValid(p.jwks)
       /\ Sized(p.subject, Limit.name) /\ (p.org # NoneSet => Sized(p.org, Limit.name))
       /\ p.audiences # NoneSet => Cardinality(p.audiences) \in 1 .. Limit.audiences
       /\ p.algorithms # NoneSet => p.algorithms \subseteq SupportedAlgs /\ Cardinality(p.algorithms) <= Limit.algorithms
       /\ p.ttl \in 1 .. Limit.cacheTtl

MappingsValid(c) ==
  /\ Listed(c, "mappings") <= Limit.mappings /\ Once(c, "mappings")
  /\ \A m, n \in c.mappings : m.scope = n.scope => m = n
  /\ \A m \in c.mappings :
       /\ m.permissions # {} \/ m.includes # {}
       /\ Cardinality(m.permissions) <= Limit.mappingPermissions /\ Cardinality(m.includes) <= Limit.mappingIncludes
       /\ Sized(m.scope, Limit.id)
       /\ ({m.scope} \cup m.permissions) \subseteq PermissionIds(c)
       /\ m.includes \subseteq {n.scope : n \in c.mappings}

RuleIds(c) == {r.id : r \in c.rules}
RulesValid(c) ==
  /\ Listed(c, "rules") <= Limit.rules /\ Once(c, "rules")
  /\ \A r, s \in c.rules : r.id = s.id => r = s
  /\ \A r \in c.rules : /\ r.acr = "recent_auth" => r.authAge # NoneSet
                        /\ 0 \notin {r.authAge, r.mfaAge}
  /\ \A d \in c.defaultRule : d \in RuleIds(c)
\* step_up_config: per resource type a default rule and rules of actions.
StepUpValid(c) ==
  \A u \in c.stepUp :
    /\ \E t \in c.types : t.id = u.type /\ {a.action : a \in u.actions} \subseteq {b \in t.actions : NameKey(b) # ""}
    /\ {u.default} \ {NoneSet} \subseteq RuleIds(c)
    /\ {a.rule : a \in u.actions} \subseteq RuleIds(c)

ConfigurationValid(c, wildcards) ==
  /\ TypesValid(c) /\ PermissionsValid(c, wildcards)
  /\ RolesValid(c) /\ RoleEntriesValid(c, wildcards) /\ ResourceScopesValid(c)
  /\ ProvidersValid(c) /\ MappingsValid(c) /\ RulesValid(c) /\ StepUpValid(c)

----------------------------------------------------------------------------
\* expand_permission_action_refs, expand_role_action_refs.
ExpandedRefs(types, refs) == UNION {Expansion(types, ref) : ref \in refs}
ExpandedEntries(types, entries) ==
  UNION {{[e EXCEPT !.type = g.type, !.action = g.action] : g \in Expansion(types, e)} : e \in entries}
\* expand_for_validated.
Expanded(c) ==
  [c EXCEPT !.permissions = {[p EXCEPT !.actions = ExpandedRefs(c.types, @), !.notActions = ExpandedRefs(c.types, @),
                                       !.repeats = 0] : p \in @},
            !.roles = {[r EXCEPT !.actions = ExpandedEntries(c.types, @), !.notActions = ExpandedEntries(c.types, @),
                                 !.repeats = 0] : r \in @}]

NoAnswer == [kind |-> "none"]
Refused == [kind |-> "refused"]
Validated(c) == [kind |-> "accepted", config |-> c]

\* ValidatedConfigurationModel::try_from.
IntoValidated_Once(c) == IF ConfigurationValid(c, TRUE) THEN Validated(Expanded(c)) ELSE Refused

IntoValidated(c) ==
  IF ConfigurationValid(c, TRUE) /\ ConfigurationValid(Expanded(c), FALSE) THEN Validated(Expanded(c)) ELSE Refused

\* A configuration arrives as JSON: it is read, then validated.
Submitted(c) ==
  IF \A r \in c.roles : RoleReadable(r)
  THEN IntoValidated([c EXCEPT !.roles = {ReadRole(r) : r \in @}])
  ELSE Refused

\* AccessAssignmentPolicy::from_spec and updated_for_spec: the revision rises when the terms change.
PolicyFor(role) ==
  LET old == {p \in rolePolicies : p.role = role.id}
      fresh(n) == [role |-> role.id, mode |-> role.policy.mode, maximum |-> role.policy.maximum, revision |-> n]
  IN IF old = {} THEN fresh(1)
     ELSE LET p == CHOOSE q \in old : TRUE
          IN IF p.mode = role.policy.mode /\ p.maximum = role.policy.maximum THEN p ELSE fresh(p.revision + 1)

----------------------------------------------------------------------------
ConfigInit == draft = FirstDraft /\ submission = NoAnswer /\ rolePolicies = {} /\ edits = 0 /\ adoptions = 0

\* An entry is added, or dropped when it is there, or written a second time.
Edit(list, entry, again) ==
  /\ edits < MaxEdits /\ edits' = edits + 1
  /\ again => entry \in draft[list]
  /\ draft' = IF again THEN [draft EXCEPT !.twice = @ \cup {<<list, entry>>}]
              ELSE [draft EXCEPT ![list] = IF entry \in @ THEN @ \ {entry} ELSE @ \cup {entry}, !.twice = @ \ {<<list, entry>>}]
  /\ submission' = NoAnswer
  /\ UNCHANGED <<rolePolicies, adoptions>>

Submit ==
  /\ submission = NoAnswer
  /\ submission' = Submitted(draft)
  /\ UNCHANGED <<draft, rolePolicies, edits, adoptions>>

\* into_inner, and the policies of the roles.
Adopt ==
  /\ submission.kind = "accepted" /\ adoptions < MaxAdoptions
  /\ adoptions' = adoptions + 1
  /\ draft' = submission.config /\ submission' = NoAnswer
  /\ rolePolicies' = {p \in rolePolicies : \A r \in submission.config.roles : p.role # r.id} \cup {PolicyFor(r) : r \in submission.config.roles}
  /\ UNCHANGED edits

ConfigNext ==
  \/ \E list \in DOMAIN DraftEntries : \E entry \in DraftEntries[list], again \in BOOLEAN : Edit(list, entry, again)
  \/ Submit \/ Adopt

----------------------------------------------------------------------------
\* A configuration the library accepts is a fixed point: submitted again (a restart, or an editor who
\* saves it unchanged) it is accepted as it stands.  Every action reference in it is spelled as the
\* catalogue declares it, and a resource scope names the type of its own reference, in the lower case in
\* which scopes are read (scope.rs:82), whatever the catalogue's spelling.
\* The limits and the characters of names are checked on both sides of the expansion, which can make
\* lists longer and put catalogue names where only patterns were (configuration_model.rs:881-886).
ValidatedIsStable ==
  submission.kind = "accepted" =>
    LET c == submission.config
        catalogue == UNION {{[type |-> t.id, action |-> a] : a \in t.actions} : t \in c.types}
    IN /\ Submitted(c) = submission
       /\ \A p \in c.permissions : p.actions \cup p.notActions \subseteq catalogue
       /\ \A r \in c.roles : \A a \in r.actions \cup r.notActions :
            /\ [type |-> a.type, action |-> a.action] \in catalogue
            /\ \A s \in a.scopes : s.type \in {NoneSet, NameKey(a.type)}
=============================================================================
