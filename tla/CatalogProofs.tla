---------------------------- MODULE CatalogProofs ----------------------------
(***************************************************************************)
(* Documents of any size: merging is associative where nothing is removed, *)
(* what a null in an applied file does otherwise, where the two validators *)
(* differ, and that what a request resolves to is a model the registry can *)
(* serve.                                                                  *)
(***************************************************************************)
EXTENDS CatalogDocument, FiniteSetTheorems, WellFoundedInduction, TLAPS

(* The null of YAML is not a mapping. *)
NullIsNoMapping == \A keys, m : Null # [key \in keys |-> m[key]]

-----------------------------------------------------------------------------
(* Merging. *)
LEMMA MappingIsNoNull ==
  ASSUME NullIsNoMapping, NEW base, NEW overlay
  PROVE  /\ MergeMapping(base, overlay, Replace) # Null
         /\ MergeMapping(base, overlay, MergeField) # Null
         /\ MergeMapping(base, overlay, MergeEntry) # Null
<1>1. \A keys, m : Null # [k \in keys |-> m[k]]
  BY DEF NullIsNoMapping
<1>2. MergeMapping(base, overlay, Replace) # Null
  <2> DEFINE m == MergeMapping(base, overlay, Replace)
  <2>1. m = [k \in DOMAIN m |-> m[k]]
    BY DEF MergeMapping
  <2>2. QED
    BY <1>1, <2>1
<1>3. MergeMapping(base, overlay, MergeField) # Null
  <2> DEFINE m == MergeMapping(base, overlay, MergeField)
  <2>1. m = [k \in DOMAIN m |-> m[k]]
    BY DEF MergeMapping
  <2>2. QED
    BY <1>1, <2>1
<1>4. MergeMapping(base, overlay, MergeEntry) # Null
  <2> DEFINE m == MergeMapping(base, overlay, MergeEntry)
  <2>1. m = [k \in DOMAIN m |-> m[k]]
    BY DEF MergeMapping
  <2>2. QED
    BY <1>1, <2>1
<1>5. QED
  BY <1>2, <1>3, <1>4

(* What is merged is not null where the overlay is not, whatever the base. *)
LEMMA MergedIsNoNull ==
  ASSUME NullIsNoMapping, NEW key, NEW base, NEW overlay, overlay # Null
  PROVE  /\ MergeField(key, base, overlay) # Null
         /\ MergeEntry(key, base, overlay) # Null
         /\ MergeSection(key, base, overlay) # Null
<1>1. MergeCapabilities(base, overlay) # Null
  <2>1. CASE IsList(base) \/ IsList(overlay)
    BY <2>1 DEF MergeCapabilities
  <2>2. CASE ~(IsList(base) \/ IsList(overlay))
    <3> DEFINE m == MergeCapabilities(base, overlay)
    <3>1. m = [k \in {"mapping"} |-> m[k]]
      BY <2>2 DEF MergeCapabilities
    <3>2. QED
      BY <3>1 DEF NullIsNoMapping
  <2>3. QED
    BY <2>1, <2>2
<1>2. QED
  BY <1>1, MappingIsNoNull DEF MergeField, MergeEntry, MergeSection

LEMMA MappingsAssociate ==
  ASSUME NEW base, NEW overlay, NEW file, NullFreeMapping(overlay), NullFreeMapping(file)
  PROVE  MergeMapping(base, MergeMapping(overlay, file, Replace), Replace)
           = MergeMapping(MergeMapping(base, overlay, Replace), file, Replace)
BY DEF MergeMapping, NullFreeMapping, Replace

MergesAlike(base, overlay, file) ==
  MergeCapabilities(base, MergeCapabilities(overlay, file))
    = MergeCapabilities(MergeCapabilities(base, overlay), file)

NullFreeCapabilities(value) == IsList(value) \/ NullFreeMapping(value.mapping)

LEMMA CapabilitiesAssociate ==
  ASSUME NEW base, NEW overlay, NEW file, ~(~IsList(base) /\ IsList(overlay) /\ ~IsList(file)),
         NullFreeCapabilities(overlay), NullFreeCapabilities(file)
  PROVE  MergesAlike(base, overlay, file)
<1>1. \A m : ~IsList([mapping |-> m])
  BY DEF IsList
<1>2. CASE IsList(file)
  BY <1>2 DEF MergesAlike, MergeCapabilities
<1>3. CASE ~IsList(file) /\ IsList(overlay)
  BY <1>3 DEF MergesAlike, MergeCapabilities
<1>4. CASE ~IsList(file) /\ ~IsList(overlay) /\ IsList(base)
  BY <1>1, <1>4 DEF MergesAlike, MergeCapabilities
<1>5. CASE ~IsList(file) /\ ~IsList(overlay) /\ ~IsList(base)
  <2>1. MergeMapping(base.mapping, MergeMapping(overlay.mapping, file.mapping, Replace), Replace)
          = MergeMapping(MergeMapping(base.mapping, overlay.mapping, Replace), file.mapping, Replace)
    BY <1>5, MappingsAssociate DEF NullFreeCapabilities
  <2>2. QED
    BY <1>1, <1>5, <2>1 DEF MergesAlike, MergeCapabilities
<1>6. QED
  BY <1>2, <1>3, <1>4, <1>5

(* Capabilities may be a list, which replaces and does not merge.  Of values
   without nulls the two orders of merging differ in one case exactly: between
   a mapping of the base and one of the file the overlay has a list, and the
   base has a capability the file does not name.  It comes back, although the
   list had hidden it, when the file is merged with the list first. *)
THEOREM CapabilitiesAssociateIff ==
  ASSUME NEW base, NEW overlay, NEW file,
         NullFreeCapabilities(overlay), NullFreeCapabilities(file),
         ~IsList(file) => /\ file = [mapping |-> file.mapping]
                          /\ file.mapping = [c \in DOMAIN file.mapping |-> file.mapping[c]]
  PROVE  MergesAlike(base, overlay, file) <=>
           (~IsList(base) /\ IsList(overlay) /\ ~IsList(file)
              => DOMAIN base.mapping \subseteq DOMAIN file.mapping)
<1>1. CASE ~(~IsList(base) /\ IsList(overlay) /\ ~IsList(file))
  BY <1>1, CapabilitiesAssociate
<1>2. CASE ~IsList(base) /\ IsList(overlay) /\ ~IsList(file)
  <2> DEFINE merged == MergeMapping(base.mapping, file.mapping, Replace)
  <2>1. MergesAlike(base, overlay, file) <=> [mapping |-> merged] = file
    BY <1>2 DEF MergesAlike, MergeCapabilities
  <2>2. [mapping |-> merged] = file <=> merged = file.mapping
    <3> HIDE DEF merged
    <3>1. QED
      BY <1>2
  <2>3. merged = file.mapping <=> DOMAIN base.mapping \subseteq DOMAIN file.mapping
    <3>1. /\ DOMAIN merged = DOMAIN base.mapping \cup DOMAIN file.mapping
          /\ merged = [c \in DOMAIN merged |-> merged[c]]
          /\ \A c \in DOMAIN file.mapping : merged[c] = file.mapping[c]
      BY <1>2 DEF MergeMapping, Replace, NullFreeCapabilities, NullFreeMapping
    <3> HIDE DEF merged
    <3>2. QED
      BY <1>2, <3>1
  <2>4. QED
    BY <1>2, <2>1, <2>2, <2>3
<1>3. QED
  BY <1>1, <1>2

LEMMA FieldsAssociate ==
  ASSUME NEW key, NEW base, NEW overlay, NEW file,
         NullFreeField(key, overlay), NullFreeField(key, file),
         key = "capabilities" => ~(~IsList(base) /\ IsList(overlay) /\ ~IsList(file))
  PROVE  MergeField(key, base, MergeField(key, overlay, file))
           = MergeField(key, MergeField(key, base, overlay), file)
<1>1. CASE key = "capabilities"
  <2>1. MergesAlike(base, overlay, file)
    BY <1>1, CapabilitiesAssociate DEF NullFreeField, NullFreeCapabilities
  <2>2. QED
    BY <1>1, <2>1 DEF MergeField, MergesAlike
<1>2. CASE key = "artifact"
  BY <1>2, MappingsAssociate DEF MergeField, NullFreeField
<1>3. CASE key \notin {"capabilities", "artifact"}
  BY <1>3 DEF MergeField
<1>4. QED
  BY <1>1, <1>2, <1>3

EntryBetween(base, overlay, file) ==
  ListBetween(At(base, "capabilities"), At(overlay, "capabilities"), At(file, "capabilities"))

LEMMA EntriesAssociate ==
  ASSUME NullIsNoMapping, NEW key, NEW base, NEW overlay, NEW file,
         base # Null, overlay # Null, file # Null,
         NullFreeEntry(overlay), NullFreeEntry(file), ~EntryBetween(base, overlay, file)
  PROVE  MergeEntry(key, base, MergeEntry(key, overlay, file))
           = MergeEntry(key, MergeEntry(key, base, overlay), file)
<1>1. \A k \in DOMAIN base \cap DOMAIN overlay \cap DOMAIN file :
         base[k] # Null =>
           MergeField(k, base[k], MergeField(k, overlay[k], file[k]))
             = MergeField(k, MergeField(k, base[k], overlay[k]), file[k])
  <2>1. SUFFICES ASSUME NEW k \in DOMAIN base \cap DOMAIN overlay \cap DOMAIN file,
                        base[k] # Null
                 PROVE  MergeField(k, base[k], MergeField(k, overlay[k], file[k]))
                          = MergeField(k, MergeField(k, base[k], overlay[k]), file[k])
    OBVIOUS
  <2>2. k = "capabilities" =>
          ~(~IsList(base[k]) /\ IsList(overlay[k]) /\ ~IsList(file[k]))
    BY <2>1 DEF EntryBetween, ListBetween, At, Field, NullFreeEntry
  <2>3. QED
    BY <2>1, <2>2, FieldsAssociate DEF NullFreeEntry
<1>2. /\ \A k \in DOMAIN overlay : overlay[k] # Null
      /\ \A k \in DOMAIN file : file[k] # Null
  BY DEF NullFreeEntry
<1>3. \A k, b : \A o : o # Null => MergeField(k, b, o) # Null
  BY MergedIsNoNull
<1>4. QED
  BY <1>1, <1>2, <1>3 DEF MergeEntry, MergeMapping

SectionBetween(base, overlay, file) ==
  \E id \in DOMAIN base : EntryBetween(At(base, id), At(overlay, id), At(file, id))

LEMMA SectionsAssociate ==
  ASSUME NullIsNoMapping, NEW key, NEW base, NEW overlay, NEW file,
         base # Null, overlay # Null, file # Null,
         key \in Sections => /\ NullFreeSection(overlay) /\ NullFreeSection(file)
                             /\ ~SectionBetween(base, overlay, file)
  PROVE  MergeSection(key, base, MergeSection(key, overlay, file))
           = MergeSection(key, MergeSection(key, base, overlay), file)
<1>1. CASE key \notin Sections
  BY <1>1 DEF MergeSection
<1>2. CASE key \in Sections
  <2>1. \A id \in DOMAIN base \cap DOMAIN overlay \cap DOMAIN file :
           base[id] # Null =>
             MergeEntry(id, base[id], MergeEntry(id, overlay[id], file[id]))
               = MergeEntry(id, MergeEntry(id, base[id], overlay[id]), file[id])
    <3>1. SUFFICES ASSUME NEW id \in DOMAIN base \cap DOMAIN overlay \cap DOMAIN file,
                          base[id] # Null
                   PROVE  MergeEntry(id, base[id], MergeEntry(id, overlay[id], file[id]))
                            = MergeEntry(id, MergeEntry(id, base[id], overlay[id]), file[id])
      OBVIOUS
    <3>2. ~EntryBetween(base[id], overlay[id], file[id])
      BY <1>2, <3>1 DEF SectionBetween, At, Field
    <3>3. QED
      BY <1>2, <3>1, <3>2, EntriesAssociate DEF NullFreeSection
  <2>2. /\ \A id \in DOMAIN overlay : overlay[id] # Null
        /\ \A id \in DOMAIN file : file[id] # Null
    BY <1>2 DEF NullFreeSection
  <2>3. \A k, b : \A o : o # Null => MergeEntry(k, b, o) # Null
    BY MergedIsNoNull
  <2>4. QED
    BY <1>2, <2>1, <2>2, <2>3 DEF MergeSection, MergeMapping
<1>3. QED
  BY <1>1, <1>2

(* merge_mapping is associative as long as nothing is removed and no list of
   capabilities hides a mapping of the base from one of the file: applying the
   file to the overlay is then the same as applying it to the merged catalog. *)
THEOREM MergeAssociates ==
  ASSUME NullIsNoMapping, NEW base, NEW overlay, NEW file,
         NullFree(overlay), NullFree(file), ~ListsBetween(base, overlay, file)
  PROVE  MergeDocument(base, MergeDocument(overlay, file))
           = MergeDocument(MergeDocument(base, overlay), file)
<1>1. \A s \in DOMAIN base \cap DOMAIN overlay \cap DOMAIN file :
         base[s] # Null =>
           MergeSection(s, base[s], MergeSection(s, overlay[s], file[s]))
             = MergeSection(s, MergeSection(s, base[s], overlay[s]), file[s])
  <2>1. SUFFICES ASSUME NEW s \in DOMAIN base \cap DOMAIN overlay \cap DOMAIN file,
                        base[s] # Null
                 PROVE  MergeSection(s, base[s], MergeSection(s, overlay[s], file[s]))
                          = MergeSection(s, MergeSection(s, base[s], overlay[s]), file[s])
    OBVIOUS
  <2>2. s \in Sections => ~SectionBetween(base[s], overlay[s], file[s])
    BY <2>1 DEF ListsBetween, SectionBetween, EntryBetween, Field
  <2>3. QED
    BY <2>1, <2>2, SectionsAssociate DEF NullFree
<1>2. \A k, b : \A o : o # Null => MergeSection(k, b, o) # Null
  BY MergedIsNoNull
<1>3. /\ \A k \in DOMAIN overlay : overlay[k] # Null
      /\ \A k \in DOMAIN file : file[k] # Null
  BY DEF NullFree
<1>4. QED
  BY <1>1, <1>2, <1>3 DEF MergeDocument, MergeMapping

(* A null in an applied file (finding "nullkey").  Where the base has the
   section, the key is gone afterwards unless the overlay changes that section
   too and the key is the base's: the null is used up by the first merge. *)
THEOREM NullRemovesIff ==
  ASSUME NullIsNoMapping, NEW base, NEW overlay, NEW file,
         NEW s \in DOMAIN base \cap Sections, NEW id,
         base[s] # Null, s \in DOMAIN file, file[s] # Null,
         id \in DOMAIN file[s], file[s][id] = Null
  PROVE  id \notin DOMAIN Section(MergeDocument(base, MergeDocument(overlay, file)), s)
           <=> \/ s \notin DOMAIN overlay
               \/ overlay[s] = Null
               \/ id \notin DOMAIN base[s]
<1> DEFINE merged == MergeDocument(overlay, file)
           effective == MergeDocument(base, merged)
           changed == IF s \in DOMAIN overlay /\ overlay[s] # Null
                      THEN MergeSection(s, overlay[s], file[s]) ELSE file[s]
<1>1. s \in DOMAIN merged /\ merged[s] = changed
  BY DEF MergeDocument, MergeMapping
<1>2. changed # Null
  BY MergedIsNoNull
<1>3. s \in DOMAIN effective /\ effective[s] = MergeSection(s, base[s], changed)
  <2> HIDE DEF merged, changed
  <2>1. QED
    BY <1>1, <1>2 DEF MergeDocument, MergeMapping
<1>4. Section(effective, s) = MergeSection(s, base[s], changed)
  BY <1>3 DEF Section, Field
<1>5. CASE s \in DOMAIN overlay /\ overlay[s] # Null
  <2>1. id \notin DOMAIN changed
    BY <1>5 DEF MergeSection, MergeMapping
  <2> HIDE DEF changed
  <2>2. id \in DOMAIN MergeSection(s, base[s], changed) <=> id \in DOMAIN base[s]
    BY <2>1 DEF MergeSection, MergeMapping
  <2>3. QED
    BY <1>4, <1>5, <2>2
<1>6. CASE ~(s \in DOMAIN overlay /\ overlay[s] # Null)
  <2>1. id \notin DOMAIN MergeSection(s, base[s], file[s])
    BY DEF MergeSection, MergeMapping
  <2>2. changed = file[s]
    BY <1>6
  <2>3. QED
    BY <1>4, <1>6, <2>1, <2>2
<1>7. QED
  BY <1>5, <1>6

-----------------------------------------------------------------------------
(* Rewriting lists of capabilities. *)
LEMMA NormalizedModelFields ==
  ASSUME NullIsNoMapping, NEW model, model # Null
  PROVE  /\ NormalizedModel(model) # Null
         /\ DOMAIN NormalizedModel(model) = DOMAIN model
         /\ \A name \in DOMAIN model : NormalizedModel(model)[name] =
              IF name = "capabilities" THEN Normalize(model[name]) ELSE model[name]
<1>1. CASE At(model, "capabilities") = Null
  BY <1>1 DEF NormalizedModel, At, Field, Normalize
<1>2. CASE At(model, "capabilities") # Null
  <2>1. "capabilities" \in DOMAIN model
    BY <1>2 DEF At, Field
  <2> DEFINE rewritten == [model EXCEPT !["capabilities"] = Normalize(@)]
  <2>2. NormalizedModel(model) = rewritten
    BY <1>2 DEF NormalizedModel
  <2>3. rewritten = [name \in DOMAIN model |-> rewritten[name]]
    OBVIOUS
  <2>4. rewritten # Null
    <3> HIDE DEF rewritten
    <3>1. QED
      BY <2>3 DEF NullIsNoMapping
  <2>5. QED
    BY <2>1, <2>2, <2>4
<1>3. QED
  BY <1>1, <1>2

LEMMA NormalizedTwice ==
  ASSUME NullIsNoMapping, NEW model
  PROVE  NormalizedModel(NormalizedModel(model)) = NormalizedModel(model)
<1>1. CASE At(model, "capabilities") = Null
  BY <1>1 DEF NormalizedModel
<1>2. CASE At(model, "capabilities") # Null
  <2> DEFINE once == NormalizedModel(model)
             value == model["capabilities"]
  <2>1. model # Null /\ "capabilities" \in DOMAIN model
    BY <1>2 DEF At, Field
  <2>2. once = [model EXCEPT !["capabilities"] = Normalize(value)]
    BY <1>2 DEF NormalizedModel
  <2>3. once["capabilities"] = Normalize(value)
    BY <2>1, <2>2
  <2>4. Normalize(Normalize(value)) = Normalize(value)
    BY DEF Normalize, IsList
  <2>5. once = [once EXCEPT !["capabilities"] = Normalize(@)]
    BY <2>1, <2>2, <2>3, <2>4
  <2> HIDE DEF once
  <2>6. NormalizedModel(once) = once
    BY <2>5 DEF NormalizedModel
  <2>7. QED
    BY <2>6 DEF once
<1>3. QED
  BY <1>1, <1>2

LEMMA NormalizedIds ==
  ASSUME NEW document, NEW s
  PROVE  DOMAIN Section(Normalized(document), s) = DOMAIN Section(document, s)
BY DEF Normalized, NormalizedExcept, Section, Field

LEMMA NormalizedSection ==
  ASSUME NullIsNoMapping, NEW document
  PROVE  /\ \A s : s # "models" => Section(Normalized(document), s) = Section(document, s)
         /\ Field(Normalized(document), "version", Null) = Field(document, "version", Null)
         /\ Section(document, "models") # Null =>
              /\ Section(Normalized(document), "models") # Null
              /\ \A m \in DOMAIN Section(document, "models") :
                   Section(Normalized(document), "models")[m]
                     = NormalizedModel(Section(document, "models")[m])
<1>1. CASE Field(document, "models", Null) = Null
  <2>1. Normalized(document) = document
    BY <1>1 DEF Normalized, NormalizedExcept
  <2>2. CASE "models" \in DOMAIN document
    BY <1>1, <2>1, <2>2 DEF Section, Field
  <2>3. CASE "models" \notin DOMAIN document
    <3>1. Section(document, "models") = EmptyMapping /\ DOMAIN EmptyMapping = {}
      BY <2>3 DEF Section, Field, EmptyMapping
    <3>2. QED
      BY <2>1, <3>1
  <2>4. QED
    BY <2>2, <2>3
<1>2. CASE Field(document, "models", Null) # Null
  <2> DEFINE models == [m \in DOMAIN document["models"] |-> NormalizedModel(document["models"][m])]
  <2>1. "models" \in DOMAIN document
    BY <1>2 DEF Field
  <2>2. Normalized(document) = [document EXCEPT !["models"] = models]
    BY <1>2 DEF Normalized, NormalizedExcept
  <2>3. models # Null
    BY DEF NullIsNoMapping
  <2>4. QED
    BY <2>1, <2>2, <2>3 DEF Section, Field
<1>3. QED
  BY <1>1, <1>2

(* validate_catalog rewrites what it validates, and the renderer once more. *)
LEMMA NormalizedIsAccepted ==
  ASSUME NullIsNoMapping, NEW document, ValidateCatalog(document)
  PROVE  ValidateCatalog(Normalized(document))
<1> DEFINE catalog == Normalized(document)
           before == Section(document, "models")
           after == Section(catalog, "models")
<1>1. /\ before # Null /\ after # Null /\ DOMAIN after = DOMAIN before
      /\ \A m \in DOMAIN before :
           before[m] # Null /\ after[m] = NormalizedModel(before[m]) /\ after[m] # Null
  BY NormalizedSection, NormalizedIds, NormalizedModelFields
     DEF ValidateCatalog, WellFormed, Sections
<1>2. WellFormed(catalog) /\ ProperIds(catalog)
  BY <1>1, NormalizedSection, NormalizedIds DEF ValidateCatalog, WellFormed, ProperIds, Sections
<1>3. ASSUME NEW m \in DOMAIN before
      PROVE  /\ Field(after[m], "backend", Null) = Field(before[m], "backend", Null)
             /\ ArtifactFor(after[m]) = ArtifactFor(before[m])
             /\ Field(after[m], "capabilities", NoCapabilities) # Null
             /\ Normalize(Field(after[m], "capabilities", NoCapabilities))
                  = Normalize(Field(before[m], "capabilities", NoCapabilities))
  <2>1. /\ before[m] # Null /\ after[m] # Null /\ DOMAIN after[m] = DOMAIN before[m]
        /\ \A name \in DOMAIN before[m] : after[m][name] =
             IF name = "capabilities" THEN Normalize(before[m][name]) ELSE before[m][name]
    BY <1>1, <1>3, NormalizedModelFields
  <2>2. Field(before[m], "capabilities", NoCapabilities) # Null
    BY <1>3 DEF ValidateCatalog
  <2>3. \A value : value # Null => /\ Normalize(value) # Null
                                   /\ Normalize(Normalize(value)) = Normalize(value)
    <3>1. \A m1 : Null # [mapping |-> m1]
      <4>1. SUFFICES ASSUME NEW m1 PROVE Null # [mapping |-> m1]
        OBVIOUS
      <4> DEFINE r == [mapping |-> m1]
      <4>2. r = [k \in {"mapping"} |-> r[k]]
        OBVIOUS
      <4> HIDE DEF r
      <4>3. Null # r
        BY <4>2 DEF NullIsNoMapping
      <4>4. QED
        BY <4>3 DEF r
    <3>2. QED
      BY <3>1 DEF Normalize, IsList
  <2> HIDE DEF before, after
  <2>4. QED
    BY <2>1, <2>2, <2>3 DEF Field, ArtifactFor, At
<1>4. QED
  <2>1. /\ Section(catalog, "backends") = Section(document, "backends")
        /\ Section(catalog, "experiences") = Section(document, "experiences")
    BY NormalizedSection
  <2> HIDE DEF catalog
  <2>2. ValidateCatalog(catalog)
    BY <1>1, <1>2, <1>3, <2>1 DEF ValidateCatalog
  <2>3. QED
    BY <2>2 DEF catalog

(* The two validators (finding "accepted").  Of the fields the model keeps,
   this is all that the gateway asks of the rendering of a catalog the control
   plane has accepted: flags, an artifact and priorities of their type; of an
   experience no other route than auto, and if it is pinned, by either name,
   no route, a registered model and the capability it asks for; and if neither
   name pins it, a capability or the route. *)
THEOREM AcceptedLoadsIff ==
  ASSUME NullIsNoMapping, NEW document, ValidateCatalog(document)
  PROVE  LET catalog == Normalized(document)
             backends == Section(catalog, "backends")
             models == Section(catalog, "models")
             experiences == Section(catalog, "experiences")
         IN LoadsProfiles(catalog) <=>
              /\ \A b \in DOMAIN backends : IsFlag(backends[b], "enabled")
              /\ \A m \in DOMAIN models :
                   /\ IsFlag(models[m], "enabled")
                   /\ Field(models[m], "artifact", NoArtifact) # Null
                   /\ Priority(models[m]) \in Int
              /\ \A e \in DOMAIN experiences :
                   LET pin == BackendModel(experiences[e])
                       capability == Capability(experiences[e])
                   IN /\ IsFlag(experiences[e], "advertised")
                      /\ Route(experiences[e]) \in {"auto", Null}
                      /\ pin # Null =>
                           /\ ~IsAuto(experiences[e])
                           /\ pin \in DOMAIN models
                           /\ capability # Null => HasCapability(models[pin], capability)
<1> DEFINE catalog == Normalized(document)
<1>1. ValidateCatalog(catalog)
  BY NormalizedIsAccepted
<1> HIDE DEF catalog
<1>2. \A b \in DOMAIN Section(catalog, "backends") :
         Field(Section(catalog, "backends")[b], "kind", "openai-compatible") \in BackendKinds
  BY <1>1 DEF ValidateCatalog, Field, BackendKinds
<1>3. \A e \in DOMAIN Section(catalog, "experiences") :
         LET experience == Section(catalog, "experiences")[e]
         IN \/ BackendModel(experience) # Null
            \/ Capability(experience) # Null
            \/ IsAuto(experience)
  BY <1>1 DEF ValidateCatalog, BackendModel, Field
<1>4. QED
  BY <1>1, <1>2, <1>3 DEF ValidateCatalog, LoadsProfiles, catalog

-----------------------------------------------------------------------------
(* The registry. *)
LEMMA IdsFinite == IsFiniteSet(Ids) /\ Null \notin Ids
<1>1. Null \notin Ids
  BY IdOrderAssumption
<1>2. IsFiniteSet(1..Len(IdOrder)) /\ DOMAIN IdOrder = 1..Len(IdOrder)
  BY IdOrderAssumption, FS_Interval
<1>3. IdOrder \in Surjection(1..Len(IdOrder), Ids)
  BY <1>2, IdOrderAssumption DEF Ids, Surjection
<1>4. IsFiniteSet(Ids)
  BY <1>2, <1>3, FS_Surjection
<1>5. QED
  BY <1>1, <1>4

LEMMA RankIsOrder ==
  ASSUME NEW id \in Ids
  PROVE  Rank(id) \in Nat
<1>1. \E i \in DOMAIN IdOrder : IdOrder[i] = id
  BY DEF Ids
<1>2. Rank(id) \in DOMAIN IdOrder
  BY <1>1 DEF Rank
<1>3. QED
  BY <1>2, IdOrderAssumption

(* sorted(...)[0] of a list that is not empty is in the list: the order by
   priority and id has a first element on every finite set of models. *)
LEMMA FirstCandidateIsCandidate ==
  ASSUME NEW catalog, NEW candidates \in SUBSET Ids, candidates # {},
         \A m \in candidates : Priority(Section(catalog, "models")[m]) \in Int
  PROVE  FirstCandidate(catalog, candidates) \in candidates
<1> DEFINE P(m) == Priority(Section(catalog, "models")[m])
           Before(n, m) == P(n) > P(m) \/ (P(n) = P(m) /\ Rank(n) < Rank(m))
           Down(m) == {n \in candidates : Before(n, m)}
           Downs == {Down(m) : m \in candidates}
<1>1. \A m \in candidates : P(m) \in Int /\ Rank(m) \in Nat
  BY RankIsOrder
<1>2. PICK D \in Downs : \A E \in Downs : <<E, D>> \notin StrictSubsetOrdering(candidates)
  <2>1. IsFiniteSet(candidates)
    BY IdsFinite, FS_Subset
  <2>2. IsWellFoundedOn(StrictSubsetOrdering(candidates), SUBSET candidates)
    BY <2>1, FS_StrictSubsetOrderingWellFounded, FS_FiniteSubsetsOfFinite
  <2>3. Downs \subseteq SUBSET candidates /\ Downs # {}
    <3>1. \A m \in candidates : Down(m) \in SUBSET candidates
      OBVIOUS
    <3> HIDE DEF Down
    <3>2. QED
      BY <3>1
  <2>4. QED
    BY <2>2, <2>3, WFMin
<1>3. PICK m \in candidates : D = Down(m)
  BY <1>2
<1>4. ASSUME NEW n \in candidates PROVE ~Before(n, m)
  <2>1. SUFFICES ASSUME Before(n, m) PROVE FALSE
    OBVIOUS
  <2>2. Down(n) \subseteq Down(m)
    BY <1>1, <2>1
  <2>3. n \in Down(m) /\ n \notin Down(n)
    BY <1>1, <2>1
  <2>4. <<Down(n), Down(m)>> \in StrictSubsetOrdering(candidates)
    BY <2>2, <2>3 DEF StrictSubsetOrdering
  <2>5. QED
    BY <1>2, <1>3, <2>4
<1>5. \A n \in candidates : P(m) > P(n) \/ (P(m) = P(n) /\ Rank(m) <= Rank(n))
  BY <1>1, <1>4
<1>6. QED
  BY <1>5 DEF FirstCandidate

-----------------------------------------------------------------------------
(* Routing. *)
LEMMA CandidatesUsable ==
  ASSUME NEW catalog, LoadsProfiles(catalog), ProperIds(catalog), NEW capability,
         Candidates(catalog, capability) # {}
  PROVE  FirstCandidate(catalog, Candidates(catalog, capability))
           \in Candidates(catalog, capability)
<1>1. Candidates(catalog, capability) \subseteq DOMAIN Section(catalog, "models")
  BY DEF Candidates
<1>2. /\ DOMAIN Section(catalog, "models") \subseteq Ids
      /\ \A m \in DOMAIN Section(catalog, "models") :
           Priority(Section(catalog, "models")[m]) \in Int
  BY DEF LoadsProfiles, ProperIds, Sections
<1>3. QED
  BY <1>1, <1>2, FirstCandidateIsCandidate

LEMMA SelectedModelUsable ==
  ASSUME NEW catalog, LoadsProfiles(catalog), ProperIds(catalog), NEW profile,
         SelectModel(catalog, profile) # Null
  PROVE  /\ SelectModel(catalog, profile) \in DOMAIN Section(catalog, "models")
         /\ Enabled(Section(catalog, "models")[SelectModel(catalog, profile)])
<1>1. CASE BackendModel(profile) # Null
  BY <1>1 DEF SelectModel
<1>2. CASE BackendModel(profile) = Null
  <2>1. Candidates(catalog, Capability(profile)) # {}
    BY <1>2 DEF SelectModel
  <2>2. SelectModel(catalog, profile) \in Candidates(catalog, Capability(profile))
    BY <1>2, <2>1, CandidatesUsable DEF SelectModel
  <2>3. QED
    BY <2>2 DEF Candidates
<1>3. QED
  BY <1>1, <1>2

(* Whatever is asked for, by name, by override or automatically, of a catalog
   the gateway loaded and whose ids the control plane checked: a request that
   is not refused gets a registered model that is enabled and whose backend
   is. *)
THEOREM ResolvedModelUsable ==
  ASSUME NEW catalog, LoadsProfiles(catalog), ProperIds(catalog), NEW requested, NEW explicit, NEW text,
         Resolve(catalog, requested, explicit, text).error = "none"
  PROVE  LET models == Section(catalog, "models")
             model == Resolve(catalog, requested, explicit, text).model
         IN /\ model \in DOMAIN models
            /\ Enabled(models[model])
            /\ BackendOn(catalog, models[model])
<1> DEFINE model == Resolve(catalog, requested, explicit, text).model
<1>1. PICK profile : /\ SelectModel(catalog, profile) # Null
                     /\ model = SelectModel(catalog, profile)
                     /\ BackendOn(catalog, Section(catalog, "models")[model])
  BY DEF Resolve, Refused
<1>2. QED
  BY <1>1, SelectedModelUsable

(* An experience that says it is available selects a model of a backend that
   is enabled. *)
LEMMA AvailableSelects ==
  ASSUME NEW catalog, LoadsProfiles(catalog), ProperIds(catalog), NEW profile, ~IsAuto(profile),
         ExperienceAvailable(catalog, profile)
  PROVE  /\ SelectModel(catalog, profile) # Null
         /\ BackendOn(catalog, Section(catalog, "models")[SelectModel(catalog, profile)])
<1>1. CASE BackendModel(profile) # Null
  BY <1>1 DEF ExperienceAvailable, SelectModel
<1>2. CASE BackendModel(profile) = Null
  <2>1. Candidates(catalog, Capability(profile)) # {}
    BY <1>2 DEF ExperienceAvailable
  <2>2. SelectModel(catalog, profile) \in Candidates(catalog, Capability(profile))
    BY <1>2, <2>1, CandidatesUsable DEF SelectModel
  <2>3. Candidates(catalog, Capability(profile)) \subseteq Ids
    BY DEF ProperIds, Sections, Candidates
  <2>4. QED
    BY <2>2, <2>3, IdsFinite DEF Candidates
<1>3. QED
  BY <1>1, <1>2

(* What the gateway lists as available can be asked for by its name. *)
THEOREM ListedModelResolves ==
  ASSUME NEW catalog, LoadsProfiles(catalog), ProperIds(catalog), NEW text,
         NEW item \in AdvertisedModels(catalog), item.available,
         item.id \in DOMAIN Section(catalog, "experiences") =>
           /\ item.type = "experience"
           /\ ~IsAuto(Section(catalog, "experiences")[item.id])
  PROVE  Resolve(catalog, item.id, Null, text).error = "none"
<1> DEFINE models == Section(catalog, "models")
           profiles == Section(catalog, "experiences")
<1>1. /\ DOMAIN models \subseteq Ids /\ DOMAIN profiles \subseteq Ids
  BY DEF ProperIds, Sections
<1>2. CASE item.id \in DOMAIN profiles
  <2>1. item.id # Null
    BY <1>1, <1>2, IdsFinite
  <2>2. ExperienceAvailable(catalog, profiles[item.id])
    <3>1. PICK p \in DOMAIN profiles :
            item = [id |-> p, type |-> "experience",
                    available |-> ExperienceAvailable(catalog, profiles[p])]
      <4>1. CASE \E p \in DOMAIN profiles :
                   item = [id |-> p, type |-> "experience",
                           available |-> ExperienceAvailable(catalog, profiles[p])]
        BY <4>1
      <4>2. CASE \E m \in DOMAIN models :
                   item = [id |-> m, type |-> "registered-model",
                           available |-> BackendOn(catalog, models[m])]
        BY <1>2, <4>2
      <4>3. QED
        BY <4>1, <4>2, Zenon DEF AdvertisedModels
    <3>2. item.id = p /\ item.available = ExperienceAvailable(catalog, profiles[p])
      BY <3>1
    <3>3. QED
      BY <3>2, Zenon
  <2>3. /\ SelectModel(catalog, profiles[item.id]) # Null
        /\ BackendOn(catalog, models[SelectModel(catalog, profiles[item.id])])
    BY <1>2, <2>2, AvailableSelects
  <2>4. QED
    BY <1>2, <2>1, <2>3 DEF Resolve
<1>3. CASE item.id \notin DOMAIN profiles
  <2> DEFINE entry == [model |-> item.id, advertised |-> FALSE]
  <2>1. /\ item.id \in DOMAIN models /\ item.id # Null
        /\ Enabled(models[item.id]) /\ BackendOn(catalog, models[item.id])
    <3>1. PICK m \in DOMAIN models :
            /\ Enabled(models[m])
            /\ item = [id |-> m, type |-> "registered-model",
                       available |-> BackendOn(catalog, models[m])]
      <4>1. CASE \E p \in DOMAIN profiles :
                   item = [id |-> p, type |-> "experience",
                           available |-> ExperienceAvailable(catalog, profiles[p])]
        BY <1>3, <4>1
      <4>2. CASE \E m \in DOMAIN models :
                   /\ Enabled(models[m])
                   /\ item = [id |-> m, type |-> "registered-model",
                              available |-> BackendOn(catalog, models[m])]
        BY <4>2
      <4>3. QED
        BY <4>1, <4>2, Zenon DEF AdvertisedModels
    <3>2. item.id = m /\ item.available = BackendOn(catalog, models[m])
      BY <3>1
    <3>3. BackendOn(catalog, models[item.id])
      BY <3>2, Zenon
    <3>4. QED
      BY <1>1, <3>1, <3>2, <3>3, IdsFinite
  <2>2. BackendModel(entry) = item.id /\ Capability(entry) = Null /\ ~IsAuto(entry)
    <3>1. /\ "model" \in DOMAIN entry /\ entry["model"] = item.id
          /\ {"backend_model", "capability", "route"} \cap DOMAIN entry = {}
      OBVIOUS
    <3>2. Null # "auto"
      BY IdOrderAssumption
    <3> HIDE DEF entry
    <3>3. QED
      BY <3>1, <3>2 DEF BackendModel, Pinned, Capability, IsAuto, Route, Field
  <2>3. SelectModel(catalog, entry) = item.id
    BY <2>1, <2>2 DEF SelectModel
  <2>4. QED
    BY <1>3, <2>1, <2>2, <2>3 DEF Resolve
<1>4. QED
  BY <1>2, <1>3
=============================================================================
