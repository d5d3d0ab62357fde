-------------------------- MODULE CatalogDocument --------------------------
(***************************************************************************)
(* The catalog: how an overlay is merged with its base, which documents    *)
(* the control plane and the gateway accept, and how the gateway resolves  *)
(* a request against one (ops/hubctl.py, config.py, profiles.py,           *)
(* routing.py).                                                            *)
(*                                                                         *)
(* A document maps "version" to a number and section names to mappings     *)
(* from ids to entries, an entry maps field names to values.  Null is a    *)
(* key set to null.  Of an entry, the fields that decide acceptance,       *)
(* routing and rendering are kept.  Two of them are mappings themselves:   *)
(* artifact, and capabilities, which may also be a list of names and is    *)
(* [mapping |-> m] or [list |-> names] here.  An empty string is not told  *)
(* from null, and a capability's value only from null and false.           *)
(***************************************************************************)
EXTENDS Integers, FiniteSets, Sequences

CONSTANTS
  Null,             \* the null of YAML, and Python's None
  IdOrder,          \* every id that matches RESOURCE_ID_RE, in alphabetical order
  CapabilityNames   \* every name that matches CAPABILITY_RE

Ids == {IdOrder[i] : i \in DOMAIN IdOrder}

ASSUME IdOrderAssumption ==
  /\ IdOrder \in Seq(Ids)
  /\ \A i, j \in DOMAIN IdOrder : IdOrder[i] = IdOrder[j] => i = j
  /\ Null \notin Ids \cup {"auto"} /\ Null # 2

Sections == {"backends", "models", "experiences"}
BackendKinds == {"llama.cpp", "openai-compatible", "comfyui"}

(* The field that says where an artifact is, for the kinds that need one. *)
LocationField ==
  [host_path |-> "path", container_path |-> "path", hostPath |-> "path",
   docker_volume |-> "volume", pvc |-> "claim_name"]

ArtifactKinds == DOMAIN LocationField \cup {"managed", "none"}

EmptyMapping == [key \in {} |-> Null]
NoCapabilities == [mapping |-> EmptyMapping]
NoArtifact == [kind |-> "none"]

Field(entry, name, default) ==
  IF name \in DOMAIN entry THEN entry[name] ELSE default

Section(document, name) == Field(document, name, EmptyMapping)

(* What a mapping that may be missing itself has under a key. *)
At(mapping, key) == IF mapping = Null THEN Null ELSE Field(mapping, key, Null)

-----------------------------------------------------------------------------
(* merge_mapping: a null removes the key it meets, two mappings merge, any
   other value, a list too, replaces.  The nulls inside a mapping that meets
   no mapping stay.  Recursion is bounded by the depth of a document. *)
MergeMapping(base, overlay, Merge(_, _, _)) ==
  [key \in (DOMAIN base \cup DOMAIN overlay)
             \ {k \in DOMAIN overlay : overlay[k] = Null} |->
     IF key \notin DOMAIN overlay THEN base[key]
     ELSE IF key \notin DOMAIN base THEN overlay[key]
     ELSE IF base[key] = Null THEN overlay[key]
     ELSE Merge(key, base[key], overlay[key])]

Replace(key, base, overlay) == overlay

IsList(capabilities) == "list" \in DOMAIN capabilities

MergeCapabilities(base, overlay) ==
  IF IsList(base) \/ IsList(overlay) THEN overlay
  ELSE [mapping |-> MergeMapping(base.mapping, overlay.mapping, Replace)]

MergeField(key, base, overlay) ==
  IF key = "capabilities" THEN MergeCapabilities(base, overlay)
  ELSE IF key = "artifact" THEN MergeMapping(base, overlay, Replace)
  ELSE overlay

MergeEntry(key, base, overlay) == MergeMapping(base, overlay, MergeField)

MergeSection(key, base, overlay) ==
  IF key \in Sections THEN MergeMapping(base, overlay, MergeEntry) ELSE overlay

MergeDocument(base, overlay) == MergeMapping(base, overlay, MergeSection)

(* A document without a null at the levels where one removes something. *)
NullFreeMapping(mapping) == \A key \in DOMAIN mapping : mapping[key] # Null

NullFreeField(key, value) ==
  /\ key = "capabilities" /\ ~IsList(value) => NullFreeMapping(value.mapping)
  /\ key = "artifact" => NullFreeMapping(value)

NullFreeEntry(entry) ==
  \A key \in DOMAIN entry : entry[key] # Null /\ NullFreeField(key, entry[key])

NullFreeSection(section) ==
  \A id \in DOMAIN section : section[id] # Null /\ NullFreeEntry(section[id])

NullFree(document) ==
  \A s \in DOMAIN document :
    document[s] # Null /\ (s \in Sections => NullFreeSection(document[s]))

(* A list of capabilities stands between two mappings: it hides the first from
   the second, unless the second two are merged before. *)
ListBetween(base, overlay, file) ==
  /\ base # Null /\ overlay # Null /\ file # Null
  /\ ~IsList(base) /\ IsList(overlay) /\ ~IsList(file)

ListsBetween(base, overlay, file) ==
  LET section(document, s) == Field(document, s, Null)
      capabilities(document, s, id) == At(At(section(document, s), id), "capabilities")
  IN \E s \in Sections : section(base, s) # Null /\ \E id \in DOMAIN base[s] :
       ListBetween(capabilities(base, s, id), capabilities(overlay, s, id),
                   capabilities(file, s, id))

-----------------------------------------------------------------------------
(* validate_catalog, and the renderer once more, rewrite a list of
   capabilities to a mapping. *)
Normalize(capabilities) ==
  IF capabilities # Null /\ IsList(capabilities)
  THEN [mapping |-> [name \in capabilities.list |-> TRUE]]
  ELSE capabilities

NormalizedModel(model) ==
  IF At(model, "capabilities") = Null THEN model
  ELSE [model EXCEPT !["capabilities"] = Normalize(@)]

(* The models in kept are left as they are. *)
NormalizedExcept(document, kept) ==
  IF Field(document, "models", Null) = Null THEN document
  ELSE [document EXCEPT !["models"] =
          [m \in DOMAIN @ |-> IF m \in kept THEN @[m] ELSE NormalizedModel(@[m])]]

Normalized(document) == NormalizedExcept(document, {})

-----------------------------------------------------------------------------
Pinned(experience) == Field(experience, "model", Null)
Capability(experience) == Field(experience, "capability", Null)
Route(experience) == Field(experience, "route", Null)
IsAuto(experience) == Route(experience) = "auto"

(* artifact_for: a null is no artifact, and so is none. *)
ArtifactFor(model) ==
  IF At(model, "artifact") = Null THEN NoArtifact ELSE model["artifact"]

Kind(artifact) == Field(artifact, "kind", "none")

Located(artifact) ==
  /\ Kind(artifact) \in ArtifactKinds
  /\ Kind(artifact) \in DOMAIN LocationField =>
       At(artifact, LocationField[Kind(artifact)]) # Null

(* The shape both validators ask for. *)
WellFormed(catalog) ==
  /\ Field(catalog, "version", Null) = 2
  /\ \A s \in Sections :
       /\ Section(catalog, s) # Null
       /\ \A id \in DOMAIN Section(catalog, s) : Section(catalog, s)[id] # Null

ProperIds(catalog) == \A s \in Sections : DOMAIN Section(catalog, s) \subseteq Ids

(* validate_catalog: what the control plane lets into the overlay. *)
ValidateCatalog(catalog) ==
  LET backends == Section(catalog, "backends")
      models == Section(catalog, "models")
      experiences == Section(catalog, "experiences")
  IN /\ WellFormed(catalog)
     /\ ProperIds(catalog)
     /\ \A b \in DOMAIN backends : Field(backends[b], "kind", Null) \in BackendKinds
     /\ \A m \in DOMAIN models :
          LET backend == Field(models[m], "backend", Null)
              capabilities == Field(models[m], "capabilities", NoCapabilities)
              artifact == ArtifactFor(models[m])
          IN /\ backend \in DOMAIN backends
             /\ capabilities # Null
             /\ DOMAIN Normalize(capabilities).mapping \subseteq CapabilityNames
             /\ Located(artifact)
             /\ backends[backend]["kind"] = "llama.cpp" => Kind(artifact) # "none"
     /\ \A e \in DOMAIN experiences :
          /\ Pinned(experiences[e]) \in DOMAIN models \cup {Null}
          /\ \/ Pinned(experiences[e]) # Null
             \/ Capability(experiences[e]) # Null
             \/ IsAuto(experiences[e])

(* The model a profile is pinned to, by either of two names; the control plane
   reads only the second. *)
BackendModel(profile) ==
  IF Field(profile, "backend_model", Null) # Null THEN profile["backend_model"]
  ELSE Pinned(profile)

HasCapability(model, capability) ==
  LET has == Normalize(Field(model, "capabilities", NoCapabilities)).mapping
  IN capability \in DOMAIN has /\ has[capability] \notin {Null, FALSE}

Priority(model) == Field(model, "priority", 0)

IsFlag(entry, name) == Field(entry, name, TRUE) \in BOOLEAN

(* The validators and field types of Backend, ModelSpec, ArtifactSpec, Profile
   and ProfileDocument: what the gateway loads of the documents that are
   rendered for it, all of version 2.  Ids may be any. *)
LoadsProfiles(catalog) ==
  LET backends == Section(catalog, "backends")
      models == Section(catalog, "models")
      profiles == Section(catalog, "experiences")
  IN /\ WellFormed(catalog)
     /\ \A b \in DOMAIN backends :
          /\ Field(backends[b], "kind", "openai-compatible") \in BackendKinds
          /\ IsFlag(backends[b], "enabled")
     /\ \A m \in DOMAIN models :
          /\ Field(models[m], "backend", Null) \in DOMAIN backends
          /\ IsFlag(models[m], "enabled")
          /\ Field(models[m], "capabilities", NoCapabilities) # Null
          /\ Field(models[m], "artifact", NoArtifact) # Null
          /\ Located(ArtifactFor(models[m]))
          /\ Priority(models[m]) \in Int
     /\ \A p \in DOMAIN profiles :
          LET model == BackendModel(profiles[p])
              capability == Capability(profiles[p])
          IN /\ IsFlag(profiles[p], "advertised")
             /\ Route(profiles[p]) \in {"auto", Null}
             /\ IsAuto(profiles[p]) => model = Null
             /\ ~IsAuto(profiles[p]) => model # Null \/ capability # Null
             /\ model # Null => model \in DOMAIN models
             /\ model # Null /\ capability # Null => HasCapability(models[model], capability)

-----------------------------------------------------------------------------
(* The registry (ProfileRegistry). *)
Enabled(entry) == Field(entry, "enabled", TRUE) \notin {Null, FALSE}

BackendOn(catalog, model) ==
  LET backends == Section(catalog, "backends")
  IN model["backend"] \in DOMAIN backends /\ Enabled(backends[model["backend"]])

(* Bug: a model counts as a candidate whether its backend is on or not. *)
CandidatesAnyBackend(catalog, capability) ==
  LET models == Section(catalog, "models")
  IN {m \in DOMAIN models :
        /\ Enabled(models[m])
        /\ capability # Null => HasCapability(models[m], capability)}

Candidates(catalog, capability) ==
  LET models == Section(catalog, "models")
  IN {m \in DOMAIN models :
        /\ Enabled(models[m])
        /\ BackendOn(catalog, models[m])
        /\ capability # Null => HasCapability(models[m], capability)}

Rank(id) == CHOOSE i \in DOMAIN IdOrder : IdOrder[i] = id

FirstCandidate(catalog, candidates) ==
  LET models == Section(catalog, "models")
  IN CHOOSE m \in candidates : \A n \in candidates :
       \/ Priority(models[m]) > Priority(models[n])
       \/ Priority(models[m]) = Priority(models[n]) /\ Rank(m) <= Rank(n)

ExperienceAvailable(catalog, profile) ==
  LET models == Section(catalog, "models")
      pin == BackendModel(profile)
  IN IF IsAuto(profile) THEN Candidates(catalog, Null) # {}
     ELSE IF pin # Null
     THEN /\ pin \in DOMAIN models
          /\ Enabled(models[pin])
          /\ BackendOn(catalog, models[pin])
          /\ Capability(profile) # Null => HasCapability(models[pin], Capability(profile))
     ELSE Candidates(catalog, Capability(profile)) # {}

(* advertised_models: what GET /v1/models lists, without its wording. *)
AdvertisedModels(catalog) ==
  LET models == Section(catalog, "models")
      profiles == Section(catalog, "experiences")
  IN {[id |-> p, type |-> "experience", available |-> ExperienceAvailable(catalog, profiles[p])] :
        p \in {q \in DOMAIN profiles : Field(profiles[q], "advertised", TRUE)}}
     \cup
     {[id |-> m, type |-> "registered-model", available |-> BackendOn(catalog, models[m])] :
        m \in {n \in DOMAIN models :
                 Enabled(models[n]) /\ Field(models[n], "advertise_direct", TRUE) # FALSE}}

(* choose_automatic_profile, of a text given by its control prefix, the
   numbers of strong and weak story patterns it matches, and whether it
   sounds technical. *)
ChooseAutomaticProfile(text) ==
  IF text.prefix = "story" THEN "storyteller"
  ELSE IF text.prefix = "assistant" THEN "assistant"
  ELSE IF 3 * text.strong + text.weak >= 3 + (IF text.technical THEN 2 ELSE 0)
  THEN "storyteller" ELSE "assistant"

(* _resolve_auto: the profile the text asks for if there is one, else the
   first of a list, else the first in the document, whose ids the renderer
   sorts. *)
ResolveAuto(catalog, text) ==
  LET profiles == Section(catalog, "experiences")
      preferred == <<"chat", "code", "story", "agent">>
      open == {p \in DOMAIN profiles : ExperienceAvailable(catalog, profiles[p])}
      liked == {i \in DOMAIN preferred : preferred[i] \in open}
      others == {p \in open : ~IsAuto(profiles[p])}
      choice == ChooseAutomaticProfile(text)
  IN IF choice \in DOMAIN profiles THEN choice
     ELSE IF liked # {}
     THEN preferred[CHOOSE i \in liked : \A j \in liked : i <= j]
     ELSE IF others # {}
     THEN CHOOSE p \in others : \A q \in others : Rank(p) <= Rank(q)
     ELSE Null

(* _select_model. *)
SelectModel(catalog, profile) ==
  LET models == Section(catalog, "models")
      pin == BackendModel(profile)
      candidates == Candidates(catalog, Capability(profile))
  IN IF pin # Null
     THEN IF /\ pin \in DOMAIN models
             /\ Enabled(models[pin])
             /\ Capability(profile) # Null => HasCapability(models[pin], Capability(profile))
          THEN pin ELSE Null
     ELSE IF candidates # {} THEN FirstCandidate(catalog, candidates) ELSE Null

Refused(error) == [error |-> error, profile |-> Null, model |-> Null]

(* resolve: an override, an experience, or a model by its own id.  A model
   named directly is served through a profile pinned to it.  No caller
   passes required_capability. *)
Resolve(catalog, requested, explicit, text) ==
  LET models == Section(catalog, "models")
      profiles == Section(catalog, "experiences")
      named == IF explicit # Null THEN explicit ELSE requested
      known == \/ named \in DOMAIN profiles
               \/ explicit = Null /\ named \in DOMAIN models
      entry == IF named \in DOMAIN profiles THEN profiles[named]
               ELSE [model |-> named, advertised |-> FALSE]
      selected == IF IsAuto(entry) THEN ResolveAuto(catalog, text) ELSE named
      profile == IF selected \in DOMAIN profiles THEN profiles[selected] ELSE entry
      model == SelectModel(catalog, profile)
  IN IF ~known THEN Refused("unknown")
     ELSE IF selected = Null THEN Refused("unavailable")
     ELSE IF model = Null THEN Refused("unavailable")
     ELSE IF ~BackendOn(catalog, models[model]) THEN Refused("unavailable")
     ELSE [error |-> "none", profile |-> selected, model |-> model]
============================================================================
