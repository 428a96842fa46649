---------------------------- MODULE Authorization ---------------------------
(***************************************************************************)
(* authz-runtime and the Cedar policies that authz-cedar generates.  Role  *)
(* assignments and the place of a resource live in a store; a decision is  *)
(* made from snapshots of both, fetched earlier by hosts whose clocks may  *)
(* run ahead, and from the credentials of the caller.  A request is first  *)
(* judged by the permission masks and the step-up rules and then by the    *)
(* generated policies, which repeat part of that judgement in their own    *)
(* language.                                                               *)
(***************************************************************************)
EXTENDS Integers, FiniteSets, Relation

CONSTANTS
  AuthzConfig,       \* the validated configuration, see ConfigShape
  SnapshotAge, FutureSkew,                 \* SnapshotFreshnessPolicy
  HostSkew,          \* how far the clock of a fetching host may run ahead, whatever the policy expects
  Assignments,       \* the role assignments the store may hold
  Subjects,          \* who asks: [type, id, org, group], a user or a role among them
  Places,            \* what the store may say of the resource, see PlaceFields
  Actions,           \* the actions asked for
  SessionContexts, Tokens, JwtContexts,           \* credentials, each with Unset
  RequestsAsked,     \* the requests of a behaviour
  MaxAuthzTime, MaxStoreChanges,
  Unset             \* Option::None

ResType == "doc"                           \* the resource of every request
TheResource == "doc1"
PlaceFields == {"org", "owner", "public", "group", "shared", "orgParents", "groupParents"}

AuthzRequests == [subject : Subjects, session : SessionContexts, token : Tokens, jwt : JwtContexts]

ASSUME AuthzAssumption ==
  /\ RequestsAsked \subseteq AuthzRequests
  /\ {SnapshotAge, FutureSkew, HostSkew, MaxAuthzTime, MaxStoreChanges} \subseteq Nat
  /\ Unset \in SessionContexts \cap Tokens \cap JwtContexts /\ Unset \notin Int
  /\ Places # {} /\ \A p \in Places : DOMAIN p = PlaceFields
  /\ \A t \in Tokens \ {Unset} : t.kind \in {"full", "strings", "fine"}

VARIABLES granted,        \* the assignments in the store
          place,          \* the resource in the store
          subjectSnap,    \* SubjectAccessSnapshot
          resourceSnap,   \* ResourceAccessSnapshot
          authzClock, changes,
          heldAt, stoodAt, \* when each assignment and each place was last true of the store
          decision

authzVars == <<granted, place, subjectSnap, resourceSnap, authzClock, changes, heldAt, stoodAt, decision>>

NoDecision == [kind |-> "none"]
FirstPlace == CHOOSE p \in Places : TRUE

\* Time starts above zero: a snapshot fetched at or before the epoch is refused.
AuthzInit ==
  /\ granted = {} /\ place = FirstPlace
  /\ subjectSnap = Unset /\ resourceSnap = Unset
  /\ authzClock = 1 /\ changes = 0
  /\ heldAt = [a \in Assignments |-> -1000] /\ stoodAt = [p \in Places |-> IF p = FirstPlace THEN 1 ELSE -1000]
  /\ decision = NoDecision

----------------------------------------------------------------------------
(* The compiled configuration *)

\* ActionMasks: which permissions and roles allow or deny an action.
PermissionAllow(act) == {p \in DOMAIN AuthzConfig.permissions : act \in AuthzConfig.permissions[p].actions}
PermissionDeny(act) == {p \in DOMAIN AuthzConfig.permissions : act \in AuthzConfig.permissions[p].notActions}
RoleAllow(act) == {r \in DOMAIN AuthzConfig.roles : \E e \in AuthzConfig.roles[r].actions : e.action = act}
RoleDeny(act) == {r \in DOMAIN AuthzConfig.roles : \E e \in AuthzConfig.roles[r].notActions : e.action = act}
RolePermissions(r) == {e.permission : e \in AuthzConfig.roles[r].permissions}

\* action_descriptor: declared by the resource type or named by a policy.
HasDescriptor(act) ==
  act \in AuthzConfig.declared \/ PermissionAllow(act) \cup PermissionDeny(act) # {}
    \/ RoleAllow(act) \cup RoleDeny(act) # {}

\* build_scope_permission_masks: a scope string stands for its own permissions
\* and for those of every scope it includes.
ScopeMask(s) ==
  LET names == DOMAIN AuthzConfig.scopeMappings
      includes == [x \in names \X names |-> x[2] \in AuthzConfig.scopeMappings[x[1]].includes]
      reach == ReflexiveTransitiveClosure(includes, names)
  IN UNION {AuthzConfig.scopeMappings[t].permissions : t \in {u \in names : s \in names /\ reach[s, u]}}

\* EvaluationRuntime::build accepts only what fits its bit sets.
MaxPermissions == 4
MaxRoles == 4
RuntimeBuilds ==
  Cardinality(DOMAIN AuthzConfig.permissions) <= MaxPermissions /\ Cardinality(DOMAIN AuthzConfig.roles) <= MaxRoles

----------------------------------------------------------------------------
(* Assignments, snapshots and what they say of the subject *)

ActiveAt(a, now) == a.expires = Unset \/ a.expires > now

\* role_assignment_covers_resource: an unknown or a group scope covers nothing.
CoversResource(scope, org) ==
  CASE scope.kind \in {"none", "tenant"} -> TRUE
    [] scope.kind = "resource" -> scope.type = ResType /\ scope.id = TheResource
    [] scope.kind = "org" -> org # Unset /\ scope.id = org
    [] OTHER -> FALSE

\* build_subject_parent_template: every assignment makes its role a parent,
\* whatever its scope; an organisation scope makes the organisation one too.
SubjectParents(as) ==
  {[type |-> "role", id |-> a.role] : a \in as}
    \cup {[type |-> "org", id |-> a.scope.id] : a \in {b \in as : b.scope.kind = "org"}}
    \cup {[type |-> "group", id |-> a.scope.id] : a \in {b \in as : b.scope.kind = "group"}}
ResourceScopes(as) == {a.scope.id : a \in {b \in as : b.scope.kind = "resource" /\ b.scope.type = ResType}}

SnapshotFresh_NoAge(fetched, now) == fetched > 0 /\ fetched <= now + FutureSkew

\* SnapshotFreshnessPolicy::validate.
SnapshotFresh(fetched, now) ==
  /\ fetched > 0 /\ fetched <= now + FutureSkew
  /\ now - fetched <= SnapshotAge

\* A JWT role counts only when the context is complete.
JwtRoles(jwt) == IF jwt # Unset /\ jwt.complete THEN jwt.roles ELSE {}

\* jwt_role_scope_applies looks at the properties before the parent's
\* organisation has been put into them.
JwtParents(jwt, snap) ==
  LET applies == {r \in JwtRoles(jwt) : CoversResource(r.scope, snap.org)}
  IN {[type |-> "role", id |-> r.role] : r \in applies}
       \cup {[type |-> "org", id |-> r.scope.id] : r \in {q \in applies : q.scope.kind = "org"}}

\* inject_org_parent_property: one organisation parent names the organisation.
OrgOf(parents, own) ==
  LET orgs == {p.id : p \in {q \in parents : q.type = "org"}}
  IN IF Cardinality(orgs) = 1 THEN CHOOSE o \in orgs : TRUE ELSE own

\* enrich_request_with_snapshots_at after its checks: the properties and
\* parents that the decision sees.
Enriched(jwt) ==
  LET parents == subjectSnap.parents \cup JwtParents(jwt, resourceSnap.place)
      subject == subjectSnap.subject
      scoped == \/ TheResource \in subjectSnap.resourceScopes
                \/ \E r \in JwtRoles(jwt) : r.scope.kind = "resource" /\ CoversResource(r.scope, Unset)
      resourceOrg == OrgOf(resourceSnap.parents, resourceSnap.place.org)
      subjectOrg == OrgOf(parents, subject.org)
  IN [subject |-> subject, parents |-> parents, resource |-> [resourceSnap.place EXCEPT !.org = resourceOrg],
      subjectOrg |-> IF subjectOrg = Unset /\ scoped THEN resourceOrg ELSE subjectOrg]

EnrichError(subject, now) ==
  IF subjectSnap = Unset \/ resourceSnap = Unset THEN "snapshot"
  ELSE IF subject.type # subjectSnap.subject.type \/ subject.id # subjectSnap.subject.id THEN "subject"
  ELSE IF ~SnapshotFresh(subjectSnap.fetched, now) \/ ~SnapshotFresh(resourceSnap.fetched, now) THEN "stale"
  ELSE IF Cardinality({p.id : p \in {q \in resourceSnap.parents : q.type = "org"}}) > 1 THEN "conflict"
  ELSE "none"

----------------------------------------------------------------------------
(* The judgement by permission masks *)

\* assignment_belongs_to_subject: only a user inherits through a group.
BelongsToSubject(a, e) ==
  \/ a.principal \in {Unset, e.subject.id}
  \/ e.subject.type = "user" /\ \E p \in e.parents : p.type = "group" /\ p.id = a.principal

\* A role that asks for itself has its own policy, unless assignments of that
\* role are in force: then one of them must be its own and cover the resource.
OwnRole(active, e) ==
  LET mine == {a \in active : a.role = e.subject.id}
  IN IF e.subject.type = "role" /\ e.subject.id \in DOMAIN AuthzConfig.roles
        /\ (mine = {} \/ \E a \in mine : a.principal \in {Unset, e.subject.id} /\ CoversResource(a.scope, e.resource.org))
     THEN {e.subject.id} ELSE {}

\* permissions_for_request_bits with add_jwt_roles_bits.
CheckedRoles(now, jwt, e) ==
  LET active == {a \in subjectSnap.assignments : ActiveAt(a, now)}
  IN {a.role : a \in {b \in active : BelongsToSubject(b, e) /\ CoversResource(b.scope, e.resource.org)}}
       \cup OwnRole(active, e)
       \cup {r.role : r \in {q \in JwtRoles(jwt) : CoversResource(q.scope, e.resource.org)}}

HeldPermissions(roles) == UNION {RolePermissions(r) : r \in roles \cap DOMAIN AuthzConfig.roles}

\* token_is_expired_at and token_is_valid_at.
TokenExpired(t, now) == t.expires # Unset /\ now >= t.expires

\* resolve_token_permissions_for_resource_at: a token never adds a permission.
\* Scope strings may have been resolved when the token was made; a fine-grained
\* token names permissions by resource type and, for organisations, by the one
\* the resource is in.
TokenPermissions(t, held, org) ==
  CASE t.kind = "full" -> held
    [] t.kind = "strings" -> held \cap (IF t.resolved # Unset THEN t.resolved ELSE UNION {ScopeMask(s) : s \in t.scopes})
    [] t.kind = "fine" ->
         {p \in held : \A type \in AuthzConfig.permissions[p].types :
            /\ <<type, p>> \in t.permissions
            /\ type = "organization" => org # Unset /\ <<org, p>> \in t.orgPermissions}

SelectedMismatch(t) == t.kind = "fine" /\ t.selected # Unset /\ TheResource \notin t.selected

OwnerOrgs(t, now) ==
  {a.scope.id : a \in {b \in subjectSnap.assignments :
                         ActiveAt(b, now) /\ b.principal = t.owner /\ b.scope.kind = "org"}}

OrgMismatch(t, now, org) ==
  t.org # Unset /\ (org # t.org \/ (t.bound /\ t.org \notin OwnerOrgs(t, now)))

TokenRefusal(t, now, subject, org) ==
  IF t = Unset THEN "none"
  ELSE IF TokenExpired(t, now) THEN "token_expired"
  ELSE IF t.bound /\ (t.owner # subject.id \/ subject.type # "user") THEN "token_owner_mismatch"
  ELSE IF SelectedMismatch(t) THEN "token_resource_scope"
  ELSE IF OrgMismatch(t, now, org) THEN "token_org_mismatch"
  ELSE "none"

\* action_policy_decision_for_descriptor: any denial wins, role actions count
\* only without a token or under a full one.
PolicyDecision(act, perms, roles, roleActions) ==
  IF ~HasDescriptor(act) THEN "no_policy_allow"
  ELSE IF perms \cap PermissionDeny(act) # {} \/ roles \cap RoleDeny(act) # {} THEN "deny_matched"
  ELSE IF perms \cap PermissionAllow(act) # {} \/ (roleActions /\ roles \cap RoleAllow(act) # {}) THEN "allow"
  ELSE "no_policy_allow"

\* best_permission_for_descriptor: of the permissions that allow and do not
\* deny, one with the most actions.
ActionScore(p) == Cardinality(AuthzConfig.permissions[p].actions) + Cardinality(AuthzConfig.permissions[p].notActions)
BestPermissions(act, perms) ==
  LET able == (perms \cap PermissionAllow(act)) \ PermissionDeny(act)
  IN {p \in able : \A q \in able : ActionScore(q) <= ActionScore(p)}

PublicRead(act, e) == act = "read" /\ act \in AuthzConfig.declared /\ e.resource.public

----------------------------------------------------------------------------
(* Step-up: the evaluator, and the guard in the generated policies *)

RecentAuth == 4                                   \* AcrLevel as i64

ASSUME StepUpAssumption ==
  /\ \A s \in SessionContexts \ {Unset} : s.acr \in 0 .. RecentAuth /\ {s.authTime, s.mfaTime} \subseteq Nat \cup {Unset}
  /\ \A act \in DOMAIN AuthzConfig.stepUp :
       LET rule == AuthzConfig.stepUp[act]
       IN rule.acr \in 0 .. RecentAuth /\ {rule.authAge, rule.mfaAge} \subseteq Nat \cup {Unset}

Assurance(acr) == IF acr = RecentAuth THEN 0 ELSE acr
Satisfies(acr, required) ==
  IF required = RecentAuth THEN acr = RecentAuth ELSE Assurance(acr) >= Assurance(required)

\* is_auth_recent_at: a time in the future is not recent.
RecentAt(at, now, limit) == at # Unset /\ now >= at /\ now - at <= limit

\* find_applicable_rule and find_rule_id: action, then resource type, then default.
StepUpRule(act) == IF act \in DOMAIN AuthzConfig.stepUp THEN AuthzConfig.stepUp[act] ELSE Unset

\* StepUpEvaluator::evaluate_rule, with the challenge it asks for.
StepUpChallenge(rule, s, now) ==
  IF s = Unset \/ ~Satisfies(s.acr, rule.acr) THEN "raise_acr"
  ELSE IF rule.authAge # Unset /\ ~RecentAt(s.authTime, now, rule.authAge) THEN "re_authenticate"
  ELSE IF rule.mfaAge # Unset /\ ~RecentAt(s.mfaTime, now, rule.mfaAge) THEN "mfa"
  ELSE IF rule.amr # {} /\ rule.amr \cap s.amr = {} THEN "method"
  ELSE "none"

StepUp(act, s, t, now) ==
  LET rule == StepUpRule(act)
  IN IF rule = Unset THEN "none"
     ELSE IF t # Unset /\ ~rule.apiKeys THEN "none"
     ELSE StepUpChallenge(rule, s, now)

\* session_context_values: the age is present only if it is not negative.
SessionAge(at, now) == IF at # Unset /\ now - at >= 0 THEN now - at ELSE Unset
SessionValues(s, now) ==
  IF s = Unset THEN [present |-> FALSE, acr |-> 0, amr |-> {}, authAge |-> Unset, mfaAge |-> Unset]
  ELSE [present |-> TRUE, acr |-> s.acr, amr |-> s.amr, authAge |-> SessionAge(s.authTime, now),
        mfaAge |-> SessionAge(s.mfaTime, now)]

\* step_up_guard_expr over the internal context.
AcrClause(acr, required) ==
  CASE required = RecentAuth -> acr = required
    [] required = 0 -> acr >= required
    [] OTHER -> acr >= required /\ acr # RecentAuth

WithinAge(age, limit) == limit # Unset => age # Unset /\ age <= limit

StepUpGuard(rule, ctx) ==
  \/ ~rule.apiKeys /\ ctx.tokenPresent /\ ctx.tokenValid
  \/ /\ ctx.session.present /\ AcrClause(ctx.session.acr, rule.acr)
     /\ WithinAge(ctx.session.authAge, rule.authAge) /\ WithinAge(ctx.session.mfaAge, rule.mfaAge)
     /\ rule.amr # {} => rule.amr \cap ctx.session.amr # {}

----------------------------------------------------------------------------
(* The generated policies and their evaluation *)

\* append_scoped_action_policies and append_scoped_role_action_policies: one
\* policy for every role, action and scope.
RolePolicies ==
  UNION {UNION {
    {[effect |-> "permit", role |-> r, action |-> act, scope |-> sc] :
        act \in AuthzConfig.permissions[e.permission].actions, sc \in e.scopes}
      \cup {[effect |-> "forbid", role |-> r, action |-> act, scope |-> sc] :
        act \in AuthzConfig.permissions[e.permission].notActions, sc \in e.scopes}
    : e \in AuthzConfig.roles[r].permissions} : r \in DOMAIN AuthzConfig.roles}
  \cup UNION {UNION {{[effect |-> "permit", role |-> r, action |-> e.action, scope |-> sc] : sc \in e.scopes}
    : e \in AuthzConfig.roles[r].actions} : r \in DOMAIN AuthzConfig.roles}
  \cup UNION {UNION {{[effect |-> "forbid", role |-> r, action |-> e.action, scope |-> sc] : sc \in e.scopes}
    : e \in AuthzConfig.roles[r].notActions} : r \in DOMAIN AuthzConfig.roles}

\* The static policy for public resources.
StaticPolicies ==
  IF "read" \in AuthzConfig.declared
  THEN {[effect |-> "permit", role |-> Unset, action |-> "read", scope |-> "public"]} ELSE {}

PolicyDocument == RolePolicies \cup StaticPolicies

\* internal_resource_scopes.
ResourceScopeRoles(now, jwt) ==
  {a.role : a \in {b \in subjectSnap.assignments :
                     ActiveAt(b, now) /\ b.scope.kind = "resource" /\ CoversResource(b.scope, Unset)}}
    \cup (IF jwt = Unset THEN {}
          ELSE {r.role : r \in {q \in jwt.roles : q.scope.kind = "resource" /\ CoversResource(q.scope, Unset)}})

\* allowed_token_actions_for_resource_bits.
AllowedActions(t, perms) ==
  {act \in Actions : HasDescriptor(act) /\
     (t.kind = "full" \/ (perms \cap PermissionAllow(act) # {} /\ perms \cap PermissionDeny(act) = {}))}

\* internal_token_resource_filter.
ResourceFilter(t) == IF t # Unset /\ t.kind = "fine" THEN t.selected ELSE Unset

\* internal_context_values_at: all that the guards may look at.
InternalContext(req, perms, now) ==
  LET t == req.token
  IN [tokenPresent |-> t # Unset, tokenValid |-> t # Unset => ~TokenExpired(t, now),
      resourceFilter |-> ResourceFilter(t), resourceScopes |-> ResourceScopeRoles(now, req.jwt),
      tokenOrg |-> IF t = Unset THEN Unset ELSE t.org,
      ownerOrgs |-> IF t = Unset THEN {} ELSE IF t.bound THEN OwnerOrgs(t, now) ELSE {t.org} \ {Unset},
      allowedActions |-> IF t = Unset THEN {} ELSE AllowedActions(t, perms),
      session |-> SessionValues(req.session, now)]

\* scope_expr and scope_guard_expr: an attribute that is compared must be there.
ScopeGuard(policy, e, ctx) ==
  LET res == e.resource
      group == e.subject.group
  IN CASE policy.scope = "tenant" -> TRUE
       [] policy.scope = "org" -> res.org # Unset /\ e.subjectOrg # Unset /\ res.org = e.subjectOrg
       [] policy.scope = "group" -> res.group # Unset /\ group # Unset /\ res.group = group
       [] policy.scope = "own" -> res.owner = e.subject.id
       [] policy.scope = "shared" -> e.subject.id \in res.shared
       [] policy.scope = "public" -> res.public
       [] policy.scope = "orgRelationship" -> e.subjectOrg # Unset /\ e.subjectOrg \in res.orgParents
       [] policy.scope = "groupRelationship" -> group # Unset /\ group \in res.groupParents
       [] policy.scope = "resource" -> policy.role \in ctx.resourceScopes

\* token_guard_expr.
TokenGuard(act, e, ctx) ==
  \/ ~ctx.tokenPresent
  \/ /\ ctx.tokenValid
     /\ ctx.resourceFilter # Unset => TheResource \in ctx.resourceFilter
     /\ ctx.tokenOrg # Unset => e.resource.org = ctx.tokenOrg /\ ctx.tokenOrg \in ctx.ownerOrgs
     /\ act \in ctx.allowedActions

\* "principal in ?principal" holds of the entity itself and of its ancestors.
PrincipalIn(role, e) ==
  [type |-> "role", id |-> role] \in e.parents \cup {[type |-> e.subject.type, id |-> e.subject.id]}

\* A permit carries the step-up guard, a forbid does not.
Applies(policy, act, e, ctx) ==
  /\ policy.action = act
  /\ policy.role # Unset => PrincipalIn(policy.role, e)
  /\ ScopeGuard(policy, e, ctx) /\ TokenGuard(act, e, ctx)
  /\ policy.effect = "permit" /\ StepUpRule(act) # Unset => StepUpGuard(StepUpRule(act), ctx)

\* Authorizer::is_authorized: a permit and no forbid.
CedarAllows(act, e, ctx) ==
  LET matched == {p \in PolicyDocument : Applies(p, act, e, ctx)}
  IN (\E p \in matched : p.effect = "permit") /\ ~\E p \in matched : p.effect = "forbid"

----------------------------------------------------------------------------
(* evaluate_batch_at *)

\* BatchActionPreparation::prepare, then Cedar.
Respond(act, e, req, perms, roles, now) ==
  LET byMask == PolicyDecision(act, perms, roles, req.token = Unset \/ req.token.kind = "full")
      challenge == StepUp(act, req.session, req.token, now)
  IN IF req.token # Unset /\ byMask # "allow" THEN [allow |-> FALSE, reason |-> "token_permission_ceiling"]
     ELSE IF byMask # "allow" /\ ~PublicRead(act, e) THEN [allow |-> FALSE, reason |-> byMask]
     ELSE IF challenge # "none" THEN [allow |-> FALSE, reason |-> challenge]
     ELSE IF CedarAllows(act, e, InternalContext(req, perms, now))
          THEN [allow |-> TRUE, reason |-> IF BestPermissions(act, perms) = {} THEN "role" ELSE "permission"]
          ELSE [allow |-> FALSE, reason |-> "denied"]

Evaluate(req, acts) ==
  /\ decision = NoDecision /\ RuntimeBuilds
  /\ LET now == authzClock
         err == EnrichError(req.subject, now)
         e == Enriched(req.jwt)
         roles == CheckedRoles(now, req.jwt, e)
         held == HeldPermissions(roles)
         refusal == TokenRefusal(req.token, now, e.subject, e.resource.org)
         perms == IF req.token = Unset THEN held ELSE TokenPermissions(req.token, held, e.resource.org)
     IN decision' =
          IF err # "none" THEN [kind |-> "error", why |-> err]
          ELSE [kind |-> "answer", at |-> now, req |-> req,
                answers |-> [act \in acts |-> IF refusal # "none" THEN [allow |-> FALSE, reason |-> refusal]
                                              ELSE Respond(act, e, req, perms, roles, now)]]
  /\ UNCHANGED <<granted, place, subjectSnap, resourceSnap, authzClock, changes, heldAt, stoodAt>>

----------------------------------------------------------------------------
(* The store and the hosts that fetch from it *)

Note == /\ heldAt' = [a \in Assignments |-> IF a \in granted' \cup granted THEN authzClock' ELSE heldAt[a]]
        /\ stoodAt' = [p \in Places |-> IF p \in {place, place'} THEN authzClock' ELSE stoodAt[p]]

ChangeStore ==
  /\ decision = NoDecision /\ changes < MaxStoreChanges /\ changes' = changes + 1
  /\ \/ /\ \E a \in Assignments : granted' \in {granted \ {a}, granted \cup {a}} \ {granted}
        /\ UNCHANGED place
     \/ place' \in Places \ {place} /\ UNCHANGED granted
  /\ UNCHANGED <<subjectSnap, resourceSnap, authzClock, decision>>
  /\ Note

AdvanceClock ==
  /\ decision = NoDecision /\ authzClock < MaxAuthzTime /\ authzClock' = authzClock + 1
  /\ UNCHANGED <<granted, place, subjectSnap, resourceSnap, changes, decision>>
  /\ Note

\* The fetching host stamps the snapshot with a clock that may be ahead.
FetchSubject ==
  /\ decision = NoDecision
  /\ \E skew \in 0 .. HostSkew : \E subject \in Subjects :
       subjectSnap' = [subject |-> subject, assignments |-> granted, parents |-> SubjectParents(granted),
                       resourceScopes |-> ResourceScopes(granted), fetched |-> authzClock + skew]
  /\ UNCHANGED <<granted, place, resourceSnap, authzClock, changes, heldAt, stoodAt, decision>>

\* The organisation of a resource may be known by a parent or by its properties.
FetchResource ==
  /\ decision = NoDecision
  /\ \E skew \in 0 .. HostSkew : \E byParent \in BOOLEAN :
       resourceSnap' =
         [place |-> IF byParent THEN [place EXCEPT !.org = Unset] ELSE place,
          parents |-> IF byParent /\ place.org # Unset THEN {[type |-> "org", id |-> place.org]} ELSE {},
          fetched |-> authzClock + skew]
  /\ UNCHANGED <<granted, place, subjectSnap, authzClock, changes, heldAt, stoodAt, decision>>

AuthzNext ==
  \/ ChangeStore \/ AdvanceClock \/ FetchSubject \/ FetchResource
  \/ \E req \in RequestsAsked : Evaluate(req, Actions)

----------------------------------------------------------------------------
Answered == decision.kind = "answer"
RoleGives(r, act) ==
  act \in UNION {AuthzConfig.permissions[q].actions : q \in RolePermissions(r)} \/ r \in RoleAllow(act)
Window(t) == t >= decision.at - SnapshotAge - HostSkew

(***************************************************************************)
(* A revocation takes effect: an action that is allowed rests on an        *)
(* assignment that has not expired now and that the store still held       *)
(* within the snapshot age and the lead of the fetching host's clock,      *)
(* covering the resource where the store had it within that window; or on  *)
(* a role of the token's issuer; or on a resource that was public within   *)
(* it.  The skew the policy tolerates is not that lead: a snapshot stamped *)
(* too far ahead is refused at first and accepted when time has caught up. *)
(* The exception is a role that asks for itself: once the last assignment  *)
(* of that role has expired or been revoked it has the role's own policy,  *)
(* on every resource, which is wider than the assignment was.              *)
(***************************************************************************)
RevocationBounded ==
  Answered => \A act \in DOMAIN decision.answers : decision.answers[act].allow =>
    \/ \E a \in Assignments : \E p \in Places :
         /\ Window(heldAt[a]) /\ Window(stoodAt[p]) /\ ActiveAt(a, decision.at)
         /\ CoversResource(a.scope, p.org)
         /\ RoleGives(a.role, act)
    \/ JwtRoles(decision.req.jwt) # {}
    \/ act = "read" /\ \E p \in Places : p.public /\ Window(stoodAt[p])
    \/ LET role == decision.req.subject.id
       IN /\ decision.req.subject.type = "role" /\ RoleGives(role, act)
          /\ \A a \in subjectSnap.assignments : a.role = role => ~ActiveAt(a, decision.at)

(***************************************************************************)
(* The step-up evaluator and the guard generated into the policies decide  *)
(* alike for every session, although one compares levels on the assurance  *)
(* ladder and the other the numbers of the levels, and although they take  *)
(* the ages of a session differently.                                      *)
(***************************************************************************)
StepUpAgrees ==
  Answered => \A act \in DOMAIN decision.answers : StepUpRule(act) # Unset =>
    LET r == decision.req
        ctx == InternalContext(r, {}, decision.at)
    IN ctx.tokenValid =>
         (StepUp(act, r.session, r.token, decision.at) = "none" <=> StepUpGuard(StepUpRule(act), ctx))

\* An answer rests on grants that stood a moment ago, and both translations of step-up give the same one
\* (LocalEvaluator, policy_generator).
DecisionsSound == RevocationBounded /\ StepUpAgrees
=============================================================================
