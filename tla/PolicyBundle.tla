---------------------------- MODULE PolicyBundle ----------------------------
(***************************************************************************)
(* authz-cedar: a configuration is compiled into a bundle of schema and    *)
(* policy slices, each below a size limit.  The slices are stored one by   *)
(* one under the keys of a manifest and read back by run times that may    *)
(* meet a newer configuration half written over an older one.  A run time  *)
(* serves only after the bundle has passed its checks.                     *)
(***************************************************************************)
EXTENDS Integers, Sequences, FiniteSets
LOCAL INSTANCE SequencesExt

CONSTANTS
  Models,          \* configurations: [types, policies, statics, note], see below
  SliceLimit,      \* SLICE_SOFT_MAX_BYTES, in units of one link or one policy
  MaxSlices, MaxSchemas,  \* MAX_POLICY_SLICES, MAX_SCHEMA_SLICES
  BundleLimit,     \* BUNDLE_POLICY_MAX_BYTES, in the same units
  Runtimes, MaxPublications

ASSUME BundleAssumption ==
  SliceLimit \in Nat \ {0} /\ {MaxSlices, MaxSchemas, BundleLimit, MaxPublications} \subseteq Nat

VARIABLES bundleStore,   \* what is stored: the manifest and the slices by key
          publishing,    \* the bundle being written and the keys still to write
          loadedBundle        \* what each run time has built

bundleVars == <<bundleStore, publishing, loadedBundle>>

NoBundle == [version |-> 0]

----------------------------------------------------------------------------
(* Schema generation *)

ReservedNames == {"User", "Role", "Org"}          \* nine principal and organisation types in the code

\* ensure_unique_resource_entity_names: canonical names are not empty, not
\* reserved, and no two resource types share one.
NamesUnique(types) ==
  /\ \A i \in DOMAIN types : types[i].entity # "" /\ types[i].entity \notin ReservedNames
  /\ \A i, j \in DOMAIN types : types[i].entity = types[j].entity => i = j

\* add_resource_entity_type: the attributes that the guards use, overridden by
\* the properties of the context schema of the same name.
StandardAttributes == [org_id |-> "String", owner_id |-> "String", is_public |-> "Boolean", shared_with |-> "Set"]
Attributes(type) ==
  [a \in DOMAIN StandardAttributes |-> IF a \in DOMAIN type.context THEN type.context[a] ELSE StandardAttributes[a]]
SchemaSlice(type) == [type |-> type.id, attributes |-> Attributes(type), actions |-> type.actions]

\* validate_compiled_slices: strict validation refuses a policy whose guard
\* meets an attribute of another type.
StrictlyValid(type) == Attributes(type) = StandardAttributes

----------------------------------------------------------------------------
(* Policy documents *)

\* add_role_policy_with_operator: policies of one shape share a template, in
\* the order in which the shapes first appear.
Shapes(policies) ==
  FoldLeft(LAMBDA acc, p : IF \E i \in DOMAIN acc : acc[i] = p.shape THEN acc ELSE Append(acc, p.shape), <<>>, policies)
TemplateGroups(policies) ==
  LET shapes == Shapes(policies)
  IN [i \in DOMAIN shapes |-> SelectSeq(policies, LAMBDA p : p.shape = shapes[i])]

DocumentFor(model, type) ==
  [statics |-> IF "read" \in type.actions THEN model.statics ELSE 0,
   groups |-> TemplateGroups(SelectSeq(model.policies, LAMBDA p : p.type = type.id))]

----------------------------------------------------------------------------
(* split_policy_slices *)

\* A template with its links; the payload of several groups is their sum.
GroupSize(g) == 1 + Len(g)
PayloadSize(doc, statics, a, b) ==
  FoldLeft(LAMBDA acc, g : acc + GroupSize(g), IF statics THEN doc.statics ELSE 0, SubSeq(doc.groups, a, b))
FitsSlice(size) == size <= SliceLimit

\* The groups from a on that still fit together, one at a time.
LastFitting(doc, statics, a) ==
  LET fitting == {b \in a .. Len(doc.groups) : FitsSlice(PayloadSize(doc, statics, a, b))}
  IN IF fitting = {} THEN a - 1 ELSE CHOOSE b \in fitting : \A c \in fitting : c <= b

TooLarge == [statics |-> FALSE, first |-> 0, last |-> 0]   \* the error of a group or policy above the limit
Slice(statics, a, b) == [statics |-> statics, first |-> a, last |-> b]
StaticSlice(doc) == IF FitsSlice(doc.statics) THEN Slice(TRUE, 1, 0) ELSE TooLarge

\* A group that does not fit with the static policies gives them a slice of
\* their own and is tried again alone.
CutWithoutStatics_Forgets(doc, rest) == rest

CutWithoutStatics(doc, rest) == <<StaticSlice(doc)>> \o rest

SplitSlices(doc) ==
  LET n == Len(doc.groups)
      from[s \in (1 .. n + 1) \X BOOLEAN] ==
        LET a == s[1]
            b == LastFitting(doc, s[2], a)
        IN IF a > n THEN IF s[2] THEN <<StaticSlice(doc)>> ELSE <<>>
           ELSE IF b >= a THEN <<Slice(s[2], a, b)>> \o from[<<b + 1, FALSE>>]
           ELSE IF s[2] THEN CutWithoutStatics(doc, from[<<a, FALSE>>])
           ELSE <<TooLarge>>
  IN IF doc.groups = <<>> THEN <<StaticSlice(doc)>> ELSE from[<<1, doc.statics > 0>>]

\* serialize_policy_payload: what a slice holds.
Payload(doc, slice) ==
  [statics |-> IF slice.statics THEN doc.statics ELSE 0, groups |-> SubSeq(doc.groups, slice.first, slice.last)]

----------------------------------------------------------------------------
(* compile_policy_bundle *)

\* configuration_fingerprint leaves the description out.
Fingerprint(model) == [types |-> model.types, policies |-> model.policies, statics |-> model.statics]

\* The slices of all resource types, each with its place in the manifest:
\* the type's own name, then the type with a running number.
PolicySlicesOf(model, type) ==
  LET doc == DocumentFor(model, type)
      cut == SplitSlices(doc)
  IN [k \in DOMAIN cut |-> [key |-> <<type.id, k - 1>>, type |-> type.id, payload |-> Payload(doc, cut[k])]]
PolicySlices(model) == FlattenSeq([i \in DOMAIN model.types |-> PolicySlicesOf(model, model.types[i])])

CompileFails(model) ==
  \/ ~NamesUnique(model.types)
  \/ \E i \in DOMAIN model.types :
       \/ ~StrictlyValid(model.types[i])
       \/ TooLarge \in ToSet(SplitSlices(DocumentFor(model, model.types[i])))

Digest(content) == <<"sha256", content>>
Compile(model, version) ==
  LET slices == PolicySlices(model)
      schemas == [i \in DOMAIN model.types |-> SchemaSlice(model.types[i])]
  IN [version |-> version, schemas |-> schemas, policies |-> slices,
      manifest |-> [version |-> version, fingerprint |-> Fingerprint(model),
                    schemas |-> [i \in DOMAIN schemas |-> Digest(schemas[i])],
                    keys |-> [i \in DOMAIN slices |-> [key |-> slices[i].key, digest |-> Digest(slices[i].payload)]]]]

----------------------------------------------------------------------------
(* Reading a bundle back *)

\* The keys of one type are its name and then 1, 2, ... without a gap.
KeysContiguous(manifest) ==
  /\ \A i, j \in DOMAIN manifest.keys : manifest.keys[i].key = manifest.keys[j].key => i = j
  /\ \A i \in DOMAIN manifest.keys : manifest.keys[i].key[2] > 0 =>
       \E j \in DOMAIN manifest.keys : manifest.keys[j].key = <<manifest.keys[i].key[1], manifest.keys[i].key[2] - 1>>

\* The schemas and the manifest are of the size of the names in them, which
\* nothing here depends on: their byte limits are left out.
PayloadBytes(p) == FoldLeft(LAMBDA acc, g : acc + GroupSize(g), p.statics, p.groups)
\* validate_bundle_integrity: limits, versions, and every slice against the
\* digest the manifest declares for it.
SortedRecords(seq) == [x \in ToSet(seq) |-> Cardinality({i \in DOMAIN seq : seq[i] = x})]
WithinLimits(b) ==
  /\ {Len(b.policies), Len(b.manifest.keys)} \subseteq 0..MaxSlices
  /\ {Len(b.schemas), Len(b.manifest.schemas)} \subseteq 0..MaxSchemas
  /\ \A i \in DOMAIN b.policies : FitsSlice(PayloadBytes(b.policies[i].payload))
  /\ FoldLeft(LAMBDA acc, s : acc + PayloadBytes(s.payload), 0, b.policies) <= BundleLimit
IntegrityHolds(b) ==
  /\ WithinLimits(b) /\ b.manifest.version = b.version
  /\ SortedRecords([i \in DOMAIN b.schemas |-> Digest(b.schemas[i])]) = SortedRecords(b.manifest.schemas)
  /\ SortedRecords([i \in DOMAIN b.policies |-> <<b.policies[i].type, Digest(b.policies[i].payload)>>])
       = SortedRecords([i \in DOMAIN b.manifest.keys |-> <<b.manifest.keys[i].key[1], b.manifest.keys[i].digest>>])
  /\ KeysContiguous(b.manifest)

\* validate_bundle_for_config: the fingerprint, and then the bundle compiled
\* again from the configuration at hand.
BundleForConfig(model, b) ==
  /\ IntegrityHolds(b)
  /\ b.manifest.fingerprint = Fingerprint(model)
  /\ ~CompileFails(model) /\ b = Compile(model, b.version)

\* parse_policy_sets: the slices of a type are merged.
PolicySetOf(b, type) ==
  LET mine == SelectSeq(b.policies, LAMBDA s : s.type = type)
  IN [statics |-> FoldLeft(LAMBDA acc, s : acc + s.payload.statics, 0, mine),
      links |-> FlattenSeq([i \in DOMAIN mine |-> FlattenSeq(mine[i].payload.groups)])]

----------------------------------------------------------------------------
ManifestKey == <<"manifest", 0>>

BundleInit ==
  /\ bundleStore = [manifest |-> NoBundle, schemas |-> <<>>, slices |-> [k \in {} |-> 0]]
  /\ publishing = [bundle |-> NoBundle, left |-> {}, count |-> 0]
  /\ loadedBundle = [r \in Runtimes |-> NoBundle]

\* The control plane compiles a configuration and starts to store its bundle.
StartPublishing(model) ==
  /\ publishing.left = {} /\ publishing.count < MaxPublications /\ ~CompileFails(model)
  /\ \E b \in {Compile(model, publishing.count + 1)} :
       publishing' = [bundle |-> b, left |-> {ManifestKey} \cup {b.policies[i].key : i \in DOMAIN b.policies},
                      count |-> publishing.count + 1]
  /\ UNCHANGED <<bundleStore, loadedBundle>>

\* Its items arrive in any order; an older item with the same key is replaced.
StoreItem(k) ==
  /\ k \in publishing.left /\ publishing' = [publishing EXCEPT !.left = @ \ {k}]
  /\ LET b == publishing.bundle
     IN bundleStore' =
          IF k = ManifestKey THEN [bundleStore EXCEPT !.manifest = b.manifest, !.schemas = b.schemas]
          ELSE LET s == CHOOSE x \in ToSet(b.policies) : x.key = k
               IN [bundleStore EXCEPT !.slices = [key \in DOMAIN @ \cup {k} |-> IF key = k THEN s ELSE @[key]]]
  /\ UNCHANGED loadedBundle

\* The bundle a run time reads: the slices that the manifest names.
ReadBundle ==
  LET m == bundleStore.manifest
      found == SelectSeq(m.keys, LAMBDA e : e.key \in DOMAIN bundleStore.slices)
  IN [version |-> m.version, schemas |-> bundleStore.schemas,
      policies |-> [i \in DOMAIN found |-> bundleStore.slices[found[i].key]], manifest |-> m]

\* EvaluationRuntime::build: a run time that refuses the bundle keeps what it has.
\* (A validated configuration is already within MAX_PERMISSIONS and MAX_ROLES.)
BuildRuntime(r, model) ==
  /\ bundleStore.manifest # NoBundle
  /\ \E b \in {ReadBundle} :
       IF BundleForConfig(model, b)
       THEN loadedBundle' = [loadedBundle EXCEPT ![r] = [version |-> b.version, model |-> model, bundle |-> b]]
       ELSE UNCHANGED loadedBundle
  /\ UNCHANGED <<bundleStore, publishing>>

BundleNext ==
  \/ \E m \in Models : StartPublishing(m)
  \/ \E k \in publishing.left : StoreItem(k)
  \/ \E r \in Runtimes, m \in Models : BuildRuntime(r, m)

----------------------------------------------------------------------------
(***************************************************************************)
(* A run time decides by its own configuration, whatever the store held    *)
(* when it read: for every resource type its policies are those generated  *)
(* from that configuration, each of them once, and no slice is over the    *)
(* limit.                                                                  *)
(***************************************************************************)
ServesItsConfiguration ==
  \A r \in Runtimes : loadedBundle[r] # NoBundle =>
    LET m == loadedBundle[r].model
        b == loadedBundle[r].bundle
    IN \A i \in DOMAIN m.types :
         LET type == m.types[i]
             own == SelectSeq(m.policies, LAMBDA p : p.type = type.id)
             set == PolicySetOf(b, type.id)
         IN /\ set.statics = DocumentFor(m, type).statics
            /\ Len(set.links) = Len(own) /\ ToSet(set.links) = ToSet(own)
            /\ \A k \in DOMAIN b.policies : PayloadBytes(b.policies[k].payload) <= SliceLimit
=============================================================================
