------------------------------ MODULE EditBuffer ------------------------------
(***************************************************************************)
(* An editing session of a vector layer: QgsVectorLayerEditBuffer          *)
(* (src/core/qgsvectorlayereditbuffer.cpp), its undo commands              *)
(* (qgsvectorlayerundocommand.cpp), and the parts of QgsVectorLayer that   *)
(* start, commit and roll back a session.                                  *)
(*                                                                         *)
(* An edit is a command pushed on the layer's QUndoStack.  The command     *)
(* changes the maps of the edit buffer; the data provider is changed by    *)
(* commitChanges() only, which sends the maps to it stage by stage, each   *)
(* stage being able to fail.  Adding and deleting a field shifts the field *)
(* indices that are keys of the other maps.                                *)
(*                                                                         *)
(* Field indices count from 1.  Layers have no joins and no expression     *)
(* fields, so mFields holds the provider's fields that are not deleted and *)
(* the added fields, in this order.  A field is its name.  The provider    *)
(* has every editing capability but perhaps ChangeFeatures; a call of it   *)
(* that fails as a whole changes nothing.                                  *)
(***************************************************************************)
EXTENDS Integers, FiniteSets, Sequences, SequencesExt

CONSTANTS
  ProviderFields,   \* names of the provider's fields, to begin with
  ProviderFeatures, \* its features: [ids -> [geometry, attributes]]
  FieldNames,       \* names that fields may be given
  Geometries,       \* geometries that features may be given, not null
  Values,           \* values that attributes may be given
  Null,             \* null value, null geometry
  ChangeFeatures,   \* may the provider have the capability ChangeFeatures?
  FeatureFields,    \* may new features carry the layer's fields, or none?
  FailingCalls,     \* sets of calls of the provider that may fail in a commit
  SessionKinds,     \* bound: sets of kinds of edits made together
  MaxEdits          \* bound: edits made

ProviderCalls ==
  {"typeCheck", "changeGeometryValues", "deleteAttributes", "renameAttributes",
   "addAttributes", "changeFeatures", "changeAttributeValues",
   "deleteFeatures", "addFeatures"}
Kinds == {"addFeature", "deleteFeature", "changeGeometry", "changeAttribute",
          "addAttribute", "deleteAttribute", "renameAttribute"}

ASSUME ProviderAssumption ==
  /\ IsInjective(ProviderFields)
  /\ DOMAIN ProviderFeatures \subseteq Nat \ {0}
  /\ \A fid \in DOMAIN ProviderFeatures :
       DOMAIN ProviderFeatures[fid].attributes = DOMAIN ProviderFields
  /\ ChangeFeatures \subseteq BOOLEAN
ASSUME EditsAssumption ==
  /\ Null \notin Geometries
  /\ FeatureFields \subseteq BOOLEAN
  /\ FailingCalls \subseteq SUBSET ProviderCalls
  /\ SessionKinds \subseteq SUBSET Kinds
  /\ MaxEdits \in Nat

VARIABLES
  provider,    \* [fields, features, changeFeatures]: what is stored, and
               \* its capability ChangeFeatures
  mEditBuffer, \* the maps of the edit buffer, and mFields of the layer
  undoStack,   \* commands of the QUndoStack
  undoIndex,   \* its index: number of commands that are done
  editing,     \* is there an edit buffer?
  sAddedIdLowWaterMark, \* temporary id of the last feature added
  kinds,       \* kinds of edits in this behaviour
  edits,       \* number of edits made
  \* History, read by no action:
  seen,        \* what the user saw at each index of the undo stack
  stack        \* has a commit of this session failed, and then a command been
               \* undone or redone: "intact", "partial", "undone", "redone"

vars == <<provider, mEditBuffer, undoStack, undoIndex, editing,
          sAddedIdLowWaterMark, kinds, edits, seen, stack>>

FID_IS_NEW(fid) == fid < 0

\* Maps (QMap, QHash).
EmptyMap == <<>>
Insert(map, key, value) == (key :> value) @@ map
RemoveKeys(map, keys) == Restrict(map, DOMAIN map \ keys)

\* A list without the elements at some indices.
Without(list, indices) ==
  LET kept == SetToSortSeq(DOMAIN list \ indices, <)
  IN  [k \in DOMAIN kept |-> list[kept[k]]]

-----------------------------------------------------------------------------
(***************************************************************************)
(* The layer's fields and what its users see                               *)
(***************************************************************************)

Names(fields) == [i \in DOMAIN fields |-> fields[i].name]

\* QgsFields::rename(), append()
RenameField(fields, i, name) ==
  IF i \in DOMAIN fields /\ name \notin Range(Names(fields))
    THEN [fields EXCEPT ![i].name = name] ELSE fields

AppendField(fields, name, origin, index) ==
  IF name \in Range(Names(fields)) THEN fields
    ELSE Append(fields, [name |-> name, origin |-> origin, index |-> index])

\* updateFields(): the provider's fields with the pending changes.
updateFields(buffer, providerFields) ==
  LET stored == [i \in DOMAIN providerFields |->
                   [name |-> providerFields[i], origin |-> "provider", index |-> i]]
      renames == buffer.mRenamedAttributes
      renamed == FoldLeft(LAMBDA fields, i : RenameField(fields, i, renames[i]),
                          Without(stored, buffer.mDeletedAttributeIds),
                          SetToSortSeq(DOMAIN renames, <))
  IN  FoldLeftDomain(LAMBDA fields, i :
                       AppendField(fields, buffer.mAddedAttributes[i], "edit", i),
                     renamed, buffer.mAddedAttributes)

\* updateLayerFields()
UpdateLayerFields(buffer) ==
  [buffer EXCEPT !.mFields = updateFields(buffer, provider.fields)]

\* A new edit buffer for a layer with these fields in its provider.
NewBuffer(providerFields) ==
  LET empty == [mAddedFeatures |-> EmptyMap, mDeletedFeatureIds |-> {},
                mChangedGeometries |-> EmptyMap,
                mChangedAttributeValues |-> EmptyMap,
                mDeletedAttributeIds |-> {}, mAddedAttributes |-> <<>>,
                mRenamedAttributes |-> EmptyMap, mFields |-> <<>>]
  IN  [empty EXCEPT !.mFields = updateFields(empty, providerFields)]

\* A stored feature with its pending changes of attributes.
updateChangedAttributes(buffer, fid, attributes) ==
  LET fitted == Without(attributes, buffer.mDeletedAttributeIds)
                  \o [i \in DOMAIN buffer.mAddedAttributes |-> Null]
      changed == IF fid \in DOMAIN buffer.mChangedAttributeValues
                   THEN buffer.mChangedAttributeValues[fid] ELSE EmptyMap
  IN  [i \in DOMAIN fitted |-> IF i \in DOMAIN changed THEN changed[i]
                                                       ELSE fitted[i]]

\* The features that an iterator over the layer returns, by id.
FeatureIds(buffer, stored) ==
  (DOMAIN stored \ buffer.mDeletedFeatureIds) \cup DOMAIN buffer.mAddedFeatures

Feature(buffer, stored, fid) ==
  IF FID_IS_NEW(fid)
    THEN [geometry |-> buffer.mAddedFeatures[fid].geometry,
          attributes |-> buffer.mAddedFeatures[fid].attributes]
    ELSE [geometry |-> IF fid \in DOMAIN buffer.mChangedGeometries
                         THEN buffer.mChangedGeometries[fid]
                         ELSE stored[fid].geometry,
          attributes |-> updateChangedAttributes(buffer, fid, stored[fid].attributes)]

\* The id that the provider gives to a feature added with a temporary id.
PermanentId(fid) == IF FID_IS_NEW(fid) THEN - fid ELSE fid

\* What the user of the layer sees, by permanent id.
Seen(buffer, stored) ==
  LET ids == FeatureIds(buffer, stored.features)
      temporary(id) == CHOOSE fid \in ids : PermanentId(fid) = id
  IN  [fields |-> Names(buffer.mFields),
       features |-> [id \in {PermanentId(fid) : fid \in ids} |->
                       Feature(buffer, stored.features, temporary(id))]]

View == Seen(mEditBuffer, provider)

-----------------------------------------------------------------------------
(***************************************************************************)
(* Field indices in the maps                                               *)
(***************************************************************************)

\* updateAttributeMapIndex()
updateAttributeMapIndex(map, index, offset) ==
  LET moved(i) == IF i < index THEN i ELSE i + offset
  IN  [j \in {moved(i) : i \in DOMAIN map} |->
         map[CHOOSE i \in DOMAIN map : moved(i) = j]]

\* The loop of handleAttributeAdded() over mRenamedAttributes: entries from
\* index on are copied one up, then the entry at index is removed.
RenamesMovedUp(renames, index) ==
  LET copied == {i \in DOMAIN renames : i >= index}
  IN  [j \in (DOMAIN renames \cup {i + 1 : i \in copied}) \ {index} |->
         IF j - 1 \in copied THEN renames[j - 1] ELSE renames[j]]

\* The loop of handleAttributeDeleted(): the entry at index is removed, those
\* after it are copied one down, then the last one is removed.
RenamesMovedDown(renames, index) ==
  LET copied == {i \in DOMAIN renames : i > index}
      last == IF copied = {} THEN {} ELSE {Max(copied)}
  IN  [j \in ((DOMAIN renames \ {index}) \cup {i - 1 : i \in copied}) \ last |->
         IF j + 1 \in copied THEN renames[j + 1] ELSE renames[j]]

handleAttributeAdded(buffer, index) ==
  [buffer EXCEPT
    !.mChangedAttributeValues =
       [fid \in DOMAIN @ |-> updateAttributeMapIndex(@[fid], index, 1)],
    !.mAddedFeatures = [fid \in DOMAIN @ |->
       [@[fid] EXCEPT !.attributes = InsertAt(@, index, Null)]],
    !.mRenamedAttributes = RenamesMovedUp(@, index)]

handleAttributeDeleted(buffer, index) ==
  [buffer EXCEPT
    !.mChangedAttributeValues = [fid \in DOMAIN @ |->
       updateAttributeMapIndex(RemoveKeys(@[fid], {index}), index, -1)],
    !.mAddedFeatures = [fid \in DOMAIN @ |->
       [@[fid] EXCEPT !.attributes = Without(@, {index})]],
    !.mRenamedAttributes = RenamesMovedDown(@, index)]

-----------------------------------------------------------------------------
(***************************************************************************)
(* The undo commands                                                       *)
(***************************************************************************)

\* QgsFeature::setAttribute() of an added feature.
SetAttribute(buffer, fid, i, value) ==
  IF i \in DOMAIN buffer.mAddedFeatures[fid].attributes
    THEN [buffer EXCEPT !.mAddedFeatures[fid].attributes[i] = value] ELSE buffer

\* A changed value of a stored feature.
ChangeValue(buffer, fid, i, value) ==
  LET changed == IF fid \in DOMAIN buffer.mChangedAttributeValues
                   THEN buffer.mChangedAttributeValues[fid] ELSE EmptyMap
  IN  [buffer EXCEPT !.mChangedAttributeValues =
         Insert(@, fid, Insert(changed, i, value))]

AddFeature(buffer, fid, feature) ==
  [op |-> "addFeature", fid |-> fid, feature |-> feature]

redoAddFeature(c, buffer) ==
  [buffer EXCEPT !.mAddedFeatures = Insert(@, c.fid, c.feature)]

undoAddFeature(c, buffer) ==
  [buffer EXCEPT !.mAddedFeatures = RemoveKeys(@, {c.fid})]

DeleteFeature(buffer, fid) ==
  [op |-> "deleteFeature", fid |-> fid,
   mOldAddedFeature |-> IF FID_IS_NEW(fid) THEN buffer.mAddedFeatures[fid]
                                           ELSE EmptyMap]

\* Mutant: a new feature is treated as a stored one.
DeleteStoredFeature(c, buffer) ==
  [buffer EXCEPT !.mDeletedFeatureIds = @ \cup {c.fid}]

redoDeleteFeature(c, buffer) ==
  IF FID_IS_NEW(c.fid)
    THEN [buffer EXCEPT !.mAddedFeatures = RemoveKeys(@, {c.fid})]
    ELSE [buffer EXCEPT !.mDeletedFeatureIds = @ \cup {c.fid}]

undoDeleteFeature(c, buffer) ==
  IF FID_IS_NEW(c.fid)
    THEN [buffer EXCEPT !.mAddedFeatures = Insert(@, c.fid, c.mOldAddedFeature)]
    ELSE [buffer EXCEPT !.mDeletedFeatureIds = @ \ {c.fid}]

ChangeGeometry(buffer, fid, geometry) ==
  [op |-> "changeGeometry", fid |-> fid, mNewGeom |-> geometry,
   mOldGeom |-> IF FID_IS_NEW(fid) THEN buffer.mAddedFeatures[fid].geometry
                ELSE IF fid \in DOMAIN buffer.mChangedGeometries
                       THEN buffer.mChangedGeometries[fid] ELSE Null]

SetGeometry(c, buffer, geometry) ==
  IF FID_IS_NEW(c.fid)
    THEN [buffer EXCEPT !.mAddedFeatures[c.fid].geometry = geometry]
    ELSE [buffer EXCEPT !.mChangedGeometries = Insert(@, c.fid, geometry)]

redoChangeGeometry(c, buffer) == SetGeometry(c, buffer, c.mNewGeom)

\* Mutant: the entry of a stored feature stays, with a null geometry.
UndoGeometryKeepsEntry(c, buffer) == SetGeometry(c, buffer, c.mOldGeom)

undoChangeGeometry(c, buffer) ==
  IF ~ FID_IS_NEW(c.fid) /\ c.mOldGeom = Null
    THEN [buffer EXCEPT !.mChangedGeometries = RemoveKeys(@, {c.fid})]
    ELSE SetGeometry(c, buffer, c.mOldGeom)

\* The caller passes no old value.
ChangeAttribute(buffer, fid, i, value) ==
  LET first == ~ FID_IS_NEW(fid)
               /\ (fid \in DOMAIN buffer.mChangedAttributeValues =>
                     i \notin DOMAIN buffer.mChangedAttributeValues[fid])
  IN  [op |-> "changeAttribute", fid |-> fid, mFieldIndex |-> i,
       mNewValue |-> value, mFirstChange |-> first,
       mOldValue |-> CASE FID_IS_NEW(fid) ->
                            buffer.mAddedFeatures[fid].attributes[i]
                       [] first -> Null
                       [] OTHER -> buffer.mChangedAttributeValues[fid][i]]

redoChangeAttribute(c, buffer) ==
  IF FID_IS_NEW(c.fid)
    THEN SetAttribute(buffer, c.fid, c.mFieldIndex, c.mNewValue)
    ELSE ChangeValue(buffer, c.fid, c.mFieldIndex, c.mNewValue)

\* Mutant: the old value is put into the map even for the first change.
UndoChangeKeepsEntry(c, buffer) ==
  IF FID_IS_NEW(c.fid)
    THEN SetAttribute(buffer, c.fid, c.mFieldIndex, c.mOldValue)
    ELSE ChangeValue(buffer, c.fid, c.mFieldIndex, c.mOldValue)

undoChangeAttribute(c, buffer) ==
  LET kept == IF c.fid \in DOMAIN buffer.mChangedAttributeValues
                THEN RemoveKeys(buffer.mChangedAttributeValues[c.fid], {c.mFieldIndex})
                ELSE EmptyMap
  IN  CASE FID_IS_NEW(c.fid) ->
             SetAttribute(buffer, c.fid, c.mFieldIndex, c.mOldValue)
        [] ~ FID_IS_NEW(c.fid) /\ c.mFirstChange ->
             [buffer EXCEPT !.mChangedAttributeValues =
                IF kept = EmptyMap THEN RemoveKeys(@, {c.fid})
                                   ELSE Insert(@, c.fid, kept)]
        [] OTHER -> ChangeValue(buffer, c.fid, c.mFieldIndex, c.mOldValue)

AddAttribute(buffer, name) ==
  [op |-> "addAttribute", mField |-> name,
   mFieldIndex |-> Len(buffer.mFields) + 1]

redoAddAttribute(c, buffer) ==
  UpdateLayerFields(
    handleAttributeAdded([buffer EXCEPT !.mAddedAttributes = Append(@, c.mField)],
                         c.mFieldIndex))

\* The field at mFieldIndex can be missing after a commit that failed half-way;
\* what is read in its place is taken for the index of no added field.
undoAddAttribute(c, buffer) ==
  LET origin == {buffer.mFields[i].index :
                   i \in DOMAIN buffer.mFields \cap {c.mFieldIndex}}
  IN  UpdateLayerFields(
        handleAttributeDeleted(
          [buffer EXCEPT !.mAddedAttributes = Without(@, origin)], c.mFieldIndex))

\* mDeletedValues holds the values of added features and the changed values.
DeleteAttribute(buffer, i) ==
  LET field == buffer.mFields[i]
      changed == buffer.mChangedAttributeValues
      deleted == DOMAIN buffer.mAddedFeatures
                 \cup {fid \in DOMAIN changed : i \in DOMAIN changed[fid]}
  IN  [op |-> "deleteAttribute", mFieldIndex |-> i,
       mOriginIndex |-> field.index,
       mProviderField |-> field.origin = "provider",
       mOldField |-> IF field.origin = "provider" THEN Null
                     ELSE buffer.mAddedAttributes[field.index],
       mOldName |-> IF i \in DOMAIN buffer.mRenamedAttributes
                      THEN buffer.mRenamedAttributes[i] ELSE Null,
       mDeletedValues |-> [fid \in deleted |->
          IF FID_IS_NEW(fid) THEN buffer.mAddedFeatures[fid].attributes[i]
                             ELSE changed[fid][i]]]

redoDeleteAttribute(c, buffer) ==
  LET dropped == IF c.mProviderField
        THEN [buffer EXCEPT !.mDeletedAttributeIds = @ \cup {c.mOriginIndex}]
        ELSE [buffer EXCEPT !.mAddedAttributes = Without(@, {c.mOriginIndex})]
  IN  UpdateLayerFields(handleAttributeDeleted(dropped, c.mFieldIndex))

\* The values that a deleted field had come back.
RestoreValues(c, buffer) ==
  LET restored == {fid \in DOMAIN c.mDeletedValues : ~ FID_IS_NEW(fid)}
      changed == buffer.mChangedAttributeValues
      old(fid) == IF fid \in DOMAIN c.mDeletedValues THEN c.mDeletedValues[fid]
                                                     ELSE Null
  IN  [buffer EXCEPT
        !.mAddedFeatures = [fid \in DOMAIN @ |->
           [@[fid] EXCEPT !.attributes = [@ EXCEPT ![c.mFieldIndex] = old(fid)]]],
        !.mChangedAttributeValues = [fid \in DOMAIN changed \cup restored |->
           LET map == IF fid \in DOMAIN changed THEN changed[fid] ELSE EmptyMap
           IN  IF fid \in restored THEN Insert(map, c.mFieldIndex, old(fid))
                                   ELSE map]]

\* The layer's fields are updated before the renamed fields are moved up, and
\* once more only if the field itself had been renamed.
undoDeleteAttribute(c, buffer) ==
  LET back == IF c.mProviderField
        THEN [buffer EXCEPT !.mDeletedAttributeIds = @ \ {c.mOriginIndex}]
        ELSE [buffer EXCEPT !.mAddedAttributes =
                InsertAt(@, IF c.mOriginIndex > Len(@) THEN Len(@) + 1
                            ELSE c.mOriginIndex, c.mOldField)]
      shifted == handleAttributeAdded(UpdateLayerFields(back), c.mFieldIndex)
      renamed == IF c.mOldName = Null THEN shifted
        ELSE UpdateLayerFields([shifted EXCEPT !.mRenamedAttributes =
               Insert(@, c.mFieldIndex, c.mOldName)])
  IN  RestoreValues(c, renamed)

RenameAttribute(buffer, i, name) ==
  [op |-> "renameAttribute", mFieldIndex |-> i,
   mOldName |-> buffer.mFields[i].name, mNewName |-> name,
   mOriginIndex |-> buffer.mFields[i].index,
   mProviderField |-> buffer.mFields[i].origin = "provider"]

\* redo() sets the new name; undo() sets the old one in the same way.
SetName(c, buffer, name) ==
  UpdateLayerFields(
    IF c.mProviderField
      THEN [buffer EXCEPT !.mRenamedAttributes = Insert(@, c.mFieldIndex, name)]
      ELSE [buffer EXCEPT !.mAddedAttributes[c.mOriginIndex] = name])

redo(c, buffer) ==
  CASE c.op = "addFeature" -> redoAddFeature(c, buffer)
    [] c.op = "deleteFeature" -> redoDeleteFeature(c, buffer)
    [] c.op = "changeGeometry" -> redoChangeGeometry(c, buffer)
    [] c.op = "changeAttribute" -> redoChangeAttribute(c, buffer)
    [] c.op = "addAttribute" -> redoAddAttribute(c, buffer)
    [] c.op = "deleteAttribute" -> redoDeleteAttribute(c, buffer)
    [] OTHER -> SetName(c, buffer, c.mNewName)

undo(c, buffer) ==
  CASE c.op = "addFeature" -> undoAddFeature(c, buffer)
    [] c.op = "deleteFeature" -> undoDeleteFeature(c, buffer)
    [] c.op = "changeGeometry" -> undoChangeGeometry(c, buffer)
    [] c.op = "changeAttribute" -> undoChangeAttribute(c, buffer)
    [] c.op = "addAttribute" -> undoAddAttribute(c, buffer)
    [] c.op = "deleteAttribute" -> undoDeleteAttribute(c, buffer)
    [] OTHER -> SetName(c, buffer, c.mOldName)

-----------------------------------------------------------------------------
(***************************************************************************)
(* commitChanges(), stage by stage                                         *)
(*                                                                         *)
(* s is what the stages work on: the provider's fields and features, the   *)
(* edit buffer, success and attributesChanged; failing is the set of calls *)
(* of the provider that fail this time, which then change nothing.         *)
(***************************************************************************)

\* changeGeometryValues() and changeAttributeValues() of the provider.
WithGeometries(features, map) ==
  [fid \in DOMAIN features |->
     IF fid \in DOMAIN map THEN [features[fid] EXCEPT !.geometry = map[fid]]
                           ELSE features[fid]]

WithValues(features, map) ==
  [fid \in DOMAIN features |->
     [features[fid] EXCEPT !.attributes =
        [i \in DOMAIN @ |-> IF fid \in DOMAIN map /\ i \in DOMAIN map[fid]
                              THEN map[fid][i] ELSE @[i]]]]

\* Mutant: left to commitChangedFeatures() whenever the provider can change
\* features, even if no value is changed.
GeometriesLeft(s, failing) ==
  LET map == s.buffer.mChangedGeometries
      skip == map = EmptyMap \/ provider.changeFeatures
  IN  CASE skip -> s
        [] ~ skip /\ "changeGeometryValues" \in failing ->
             [s EXCEPT !.success = FALSE]
        [] OTHER -> [s EXCEPT !.features = WithGeometries(@, map),
                              !.buffer.mChangedGeometries = EmptyMap]

\* Mutant: the map is cleared even if the provider failed.
GeometriesCleared(s, failing) ==
  LET map == s.buffer.mChangedGeometries
      skip == \/ map = EmptyMap
              \/ provider.changeFeatures /\ s.buffer.mChangedAttributeValues # EmptyMap
  IN  CASE skip -> s
        [] ~ skip /\ "changeGeometryValues" \in failing ->
             [s EXCEPT !.success = FALSE, !.buffer.mChangedGeometries = EmptyMap]
        [] OTHER -> [s EXCEPT !.features = WithGeometries(@, map),
                              !.buffer.mChangedGeometries = EmptyMap]

commitGeometries(s, failing) ==
  LET map == s.buffer.mChangedGeometries
      skip == \/ map = EmptyMap
              \/ provider.changeFeatures /\ s.buffer.mChangedAttributeValues # EmptyMap
  IN  CASE skip -> s
        [] ~ skip /\ "changeGeometryValues" \in failing ->
             [s EXCEPT !.success = FALSE]
        [] OTHER -> [s EXCEPT !.features = WithGeometries(@, map),
                              !.buffer.mChangedGeometries = EmptyMap]

commitDeletedAttributes(s, failing) ==
  LET ids == s.buffer.mDeletedAttributeIds
  IN  CASE ids = {} -> s
        [] ids # {} /\ "deleteAttributes" \in failing ->
             [s EXCEPT !.success = FALSE]
        [] OTHER ->
             [s EXCEPT !.fields = Without(@, ids),
                       !.features = [fid \in DOMAIN @ |->
                          [@[fid] EXCEPT !.attributes = Without(@, ids)]],
                       !.buffer.mDeletedAttributeIds = {},
                       !.attributesChanged = TRUE]

\* renameAttributes() of the provider renames field by field, and leaves out a
\* field that is missing or whose new name is in use.
renameAttributes(fields, renames) ==
  FoldLeft(LAMBDA r, i :
             IF i \in DOMAIN r.fields /\ renames[i] \notin Range(r.fields)
               THEN [r EXCEPT !.fields[i] = renames[i]]
               ELSE [r EXCEPT !.result = FALSE],
           [fields |-> fields, result |-> TRUE],
           SetToSortSeq(DOMAIN renames, <))

commitRenamedAttributes(s, failing) ==
  LET renames == s.buffer.mRenamedAttributes
      r == renameAttributes(s.fields, renames)
  IN  CASE renames = EmptyMap -> s
        [] renames # EmptyMap /\ "renameAttributes" \in failing ->
             [s EXCEPT !.success = FALSE]
        [] OTHER ->
             [s EXCEPT !.fields = r.fields,
                       !.success = @ /\ r.result,
                       !.buffer.mRenamedAttributes =
                          IF r.result THEN EmptyMap ELSE @,
                       !.attributesChanged = @ \/ r.result]

commitAddedAttributes(s, failing) ==
  LET new == s.buffer.mAddedAttributes
  IN  CASE new = <<>> -> s
        [] new # <<>> /\ \/ "addAttributes" \in failing
                         \/ Range(new) \cap Range(s.fields) # {} ->
             [s EXCEPT !.success = FALSE]
        [] OTHER ->
             [s EXCEPT !.fields = @ \o new,
                       !.features = [fid \in DOMAIN @ |->
                          [@[fid] EXCEPT !.attributes =
                             @ \o [i \in DOMAIN new |-> Null]]],
                       !.buffer.mAddedAttributes = <<>>,
                       !.attributesChanged = TRUE]

commitAttributeValues(s, failing) ==
  LET map == s.buffer.mChangedAttributeValues
  IN  CASE map = EmptyMap -> s
        [] map # EmptyMap /\ "changeAttributeValues" \in failing ->
             [s EXCEPT !.success = FALSE]
        [] OTHER -> [s EXCEPT !.features = WithValues(@, map),
                              !.buffer.mChangedAttributeValues = EmptyMap]

\* Values and geometries are sent together if the provider can take them so.
commitChangedFeatures(s, failing) ==
  LET geometries == s.buffer.mChangedGeometries
      values == s.buffer.mChangedAttributeValues
      together == provider.changeFeatures /\ geometries # EmptyMap /\ values # EmptyMap
  IN  CASE ~ together -> commitAttributeValues(s, failing)
        [] together /\ "changeFeatures" \in failing -> [s EXCEPT !.success = FALSE]
        [] OTHER ->
             [s EXCEPT !.features =
                          WithGeometries(WithValues(@, values), geometries),
                       !.buffer.mChangedAttributeValues = EmptyMap,
                       !.buffer.mChangedGeometries = EmptyMap]

commitDeletedFeatures(s, failing) ==
  LET ids == s.buffer.mDeletedFeatureIds
  IN  CASE ~ s.success \/ ids = {} -> s
        [] s.success /\ ids # {} /\ "deleteFeatures" \in failing ->
             [s EXCEPT !.success = FALSE]
        [] OTHER ->
             [s EXCEPT !.features = RemoveKeys(@, ids),
                       !.buffer.mChangedAttributeValues = RemoveKeys(@, ids),
                       !.buffer.mChangedGeometries = RemoveKeys(@, ids),
                       !.buffer.mDeletedFeatureIds = {}]

\* matchAttributesToFields(): by name if the feature carries its fields, by
\* order otherwise.
matchAttributesToFields(feature, fields) ==
  LET at(i) == IF feature.fields = <<>> THEN i
               ELSE SelectInSeq(feature.fields, LAMBDA name : name = fields[i])
  IN  [i \in DOMAIN fields |->
         IF at(i) \in DOMAIN feature.attributes
           THEN feature.attributes[at(i)] ELSE Null]

commitAddedFeatures(s, failing) ==
  LET new == s.buffer.mAddedFeatures
      added == [id \in {PermanentId(fid) : fid \in DOMAIN new} |->
                  [geometry |-> new[- id].geometry,
                   attributes |-> matchAttributesToFields(new[- id], s.fields)]]
  IN  CASE ~ s.success \/ new = EmptyMap -> s
        [] s.success /\ new # EmptyMap /\ "addFeatures" \in failing ->
             [s EXCEPT !.success = FALSE]
        [] OTHER -> [s EXCEPT !.features = added @@ @,
                              !.buffer.mAddedFeatures = EmptyMap]

\* The fields are stored first; only if they are what the layer had shown, the
\* features follow.
commitChanges(failing) ==
  LET typeCheck == mEditBuffer.mAddedFeatures # EmptyMap => "typeCheck" \notin failing
      start == [fields |-> provider.fields, features |-> provider.features,
                buffer |-> mEditBuffer, success |-> typeCheck,
                attributesChanged |-> FALSE]
      renamed == commitRenamedAttributes(
                   commitDeletedAttributes(commitGeometries(start, failing), failing),
                   failing)
      stored == commitAddedAttributes(renamed, failing)
      newFields == updateFields(stored.buffer, stored.fields)
      attributeChangesOk ==
        stored.attributesChanged => Names(newFields) = Names(mEditBuffer.mFields)
      updated == [stored EXCEPT !.buffer.mFields =
                    IF stored.attributesChanged THEN newFields ELSE @]
  IN  IF attributeChangesOk
        THEN commitAddedFeatures(
               commitDeletedFeatures(commitChangedFeatures(updated, failing), failing),
               failing)
        ELSE [updated EXCEPT !.success = FALSE]

-----------------------------------------------------------------------------
(***************************************************************************)
(* Actions: what the application does with the layer, in the main thread   *)
(***************************************************************************)

Init ==
  /\ provider \in [fields : {ProviderFields}, features : {ProviderFeatures},
                   changeFeatures : ChangeFeatures]
  /\ mEditBuffer = NewBuffer(ProviderFields)
  /\ undoStack = <<>> /\ undoIndex = 0
  /\ editing = TRUE
  /\ sAddedIdLowWaterMark = -1
  /\ kinds \in SessionKinds
  /\ edits = 0
  /\ seen = <<View>>
  /\ stack = "intact"

\* startEditing()
StartEditing ==
  /\ ~ editing
  /\ UNCHANGED <<provider, undoStack, undoIndex, sAddedIdLowWaterMark, kinds,
                 edits>>
  /\ editing' = TRUE
  /\ mEditBuffer' = NewBuffer(provider.fields)
  /\ seen' = <<View'>>
  /\ stack' = "intact"

\* QgsVectorLayerUndoCommandChangeGeometry::mergeWith()
mergeWith(c, other) ==
  c.op = "changeGeometry" /\ other.op = "changeGeometry" /\ c.fid = other.fid

\* QUndoStack::push(): the commands that were undone are dropped, the new one
\* is done, and merged into the one before it if that is possible.
Push(c) ==
  /\ edits < MaxEdits
  /\ UNCHANGED <<provider, editing, kinds, stack>>
  /\ edits' = edits + 1
  /\ mEditBuffer' = redo(c, mEditBuffer)
  /\ IF undoIndex > 0 /\ mergeWith(undoStack[undoIndex], c)
       THEN /\ undoStack' = [SubSeq(undoStack, 1, undoIndex)
                               EXCEPT ![undoIndex].mNewGeom = c.mNewGeom]
            /\ seen' = Append(SubSeq(seen, 1, undoIndex), View')
            /\ UNCHANGED undoIndex
       ELSE /\ undoStack' = Append(SubSeq(undoStack, 1, undoIndex), c)
            /\ seen' = Append(SubSeq(seen, 1, undoIndex + 1), View')
            /\ undoIndex' = undoIndex + 1

\* An edit of this kind may be made.  Commands undone or redone after a commit
\* that failed half-way act on changes that are stored: what is edited then is
\* left out.
MayEdit(kind) == editing /\ kind \in kinds /\ stack \in {"intact", "partial"}

\* addFeature(): the attributes of the feature must be as many as the fields.
addFeature ==
  /\ MayEdit("addFeature")
  /\ sAddedIdLowWaterMark' = sAddedIdLowWaterMark - 1
  /\ \E geometry \in Geometries, value \in Values, named \in FeatureFields :
       Push(AddFeature(mEditBuffer, sAddedIdLowWaterMark',
              [geometry |-> geometry,
               attributes |-> [i \in DOMAIN mEditBuffer.mFields |-> value],
               fields |-> IF named THEN Names(mEditBuffer.mFields) ELSE <<>>]))

\* A feature the user sees.
Visible == FeatureIds(mEditBuffer, provider.features)

deleteFeature ==
  /\ MayEdit("deleteFeature")
  /\ \E fid \in Visible : Push(DeleteFeature(mEditBuffer, fid))
  /\ UNCHANGED sAddedIdLowWaterMark

changeGeometry ==
  /\ MayEdit("changeGeometry")
  /\ \E fid \in Visible, geometry \in Geometries :
       Push(ChangeGeometry(mEditBuffer, fid, geometry))
  /\ UNCHANGED sAddedIdLowWaterMark

changeAttributeValue ==
  /\ MayEdit("changeAttribute")
  /\ \E fid \in Visible, i \in DOMAIN mEditBuffer.mFields, value \in Values :
       Push(ChangeAttribute(mEditBuffer, fid, i, value))
  /\ UNCHANGED sAddedIdLowWaterMark

addAttribute ==
  /\ MayEdit("addAttribute")
  /\ \E name \in FieldNames \ Range(Names(mEditBuffer.mFields)) :
       Push(AddAttribute(mEditBuffer, name))
  /\ UNCHANGED sAddedIdLowWaterMark

deleteAttribute ==
  /\ MayEdit("deleteAttribute")
  /\ \E i \in DOMAIN mEditBuffer.mFields :
       /\ mEditBuffer.mFields[i].origin = "provider" =>
            mEditBuffer.mFields[i].index \notin mEditBuffer.mDeletedAttributeIds
       /\ Push(DeleteAttribute(mEditBuffer, i))
  /\ UNCHANGED sAddedIdLowWaterMark

renameAttribute ==
  /\ MayEdit("renameAttribute")
  /\ \E i \in DOMAIN mEditBuffer.mFields,
        name \in FieldNames \ Range(Names(mEditBuffer.mFields)) :
       Push(RenameAttribute(mEditBuffer, i, name))
  /\ UNCHANGED sAddedIdLowWaterMark

\* QUndoStack::undo(), redo()
Undo ==
  /\ editing /\ undoIndex > 0
  /\ undoIndex' = undoIndex - 1
  /\ mEditBuffer' = undo(undoStack[undoIndex], mEditBuffer)
  /\ stack' = IF stack = "partial" THEN "undone" ELSE stack
  /\ UNCHANGED <<provider, undoStack, editing, sAddedIdLowWaterMark, kinds,
                 edits, seen>>

Redo ==
  /\ editing /\ undoIndex < Len(undoStack)
  /\ stack \in {"intact", "partial"}
  /\ undoIndex' = undoIndex + 1
  /\ mEditBuffer' = redo(undoStack[undoIndex + 1], mEditBuffer)
  /\ stack' = IF stack = "partial" THEN "redone" ELSE stack
  /\ UNCHANGED <<provider, undoStack, editing, sAddedIdLowWaterMark, kinds,
                 edits, seen>>

\* The end of a session: the edit buffer is deleted and the undo stack cleared;
\* the layer keeps the fields it shows.
EndSession(mFields) ==
  /\ editing' = FALSE
  /\ mEditBuffer' = [NewBuffer(<<>>) EXCEPT !.mFields = mFields]
  /\ undoStack' = <<>> /\ undoIndex' = 0
  /\ seen' = <<>>
  /\ UNCHANGED <<sAddedIdLowWaterMark, kinds, edits>>

\* QgsVectorLayer::commitChanges()
Commit(failing) ==
  /\ editing
  /\ LET s == commitChanges(failing)
     IN  /\ provider' = [provider EXCEPT !.fields = s.fields, !.features = s.features]
         /\ IF s.success
              THEN EndSession(NewBuffer(s.fields).mFields) /\ UNCHANGED stack
              ELSE /\ mEditBuffer' = [s.buffer EXCEPT !.mFields =
                                        updateFields(s.buffer, s.fields)]
                   /\ stack' = IF stack = "intact" THEN "partial" ELSE stack
                   /\ UNCHANGED <<undoStack, undoIndex, editing,
                                  sAddedIdLowWaterMark, kinds, edits, seen>>

\* QgsVectorLayer::rollBack() with deleteBuffer: everything is undone, in one go.
RollBack ==
  /\ editing
  /\ UNCHANGED <<provider, stack>>
  /\ EndSession(UpdateLayerFields(
       FoldRight(undo, SubSeq(undoStack, 1, undoIndex), mEditBuffer)).mFields)

Next ==
  \/ StartEditing
  \/ addFeature \/ deleteFeature \/ changeGeometry \/ changeAttributeValue
  \/ addAttribute \/ deleteAttribute \/ renameAttribute
  \/ Undo \/ Redo
  \/ \E failing \in FailingCalls : Commit(failing)
  \/ RollBack

Spec == Init /\ [][Next]_vars

-----------------------------------------------------------------------------
(***************************************************************************)
(* Properties                                                              *)
(***************************************************************************)

\* The edit buffer, the undo stack and the provider keep their types.
TypeOK ==
  /\ Len(provider.fields) \in Nat
  /\ DOMAIN provider.features \subseteq Nat \ {0}
  /\ \A fid \in DOMAIN mEditBuffer.mAddedFeatures : FID_IS_NEW(fid)
  /\ mEditBuffer.mDeletedFeatureIds \subseteq Nat \ {0}
  /\ DOMAIN mEditBuffer.mChangedGeometries \subseteq Nat \ {0}
  /\ DOMAIN mEditBuffer.mChangedAttributeValues \subseteq Nat \ {0}
  /\ mEditBuffer.mDeletedAttributeIds \subseteq Nat \ {0}
  /\ undoIndex \in 0 .. Len(undoStack)
  /\ editing \in BOOLEAN /\ stack \in {"intact", "partial", "undone", "redone"}
  /\ kinds \in SessionKinds
  /\ edits \in 0 .. MaxEdits

\* Undo and redo are faithful: at an index of the undo stack the user sees what
\* was seen there before, through all edits, undos and redos in between.
UndoFaithful == editing /\ stack = "intact" => View = seen[undoIndex + 1]

\* The assertions at the end of rollBack(): with everything undone, no pending
\* change is left over.
RollBackEmpties ==
  editing /\ undoIndex = 0 =>
    /\ mEditBuffer.mAddedAttributes = <<>>
    /\ mEditBuffer.mDeletedAttributeIds = {}
    /\ mEditBuffer.mChangedAttributeValues = EmptyMap
    /\ mEditBuffer.mChangedGeometries = EmptyMap
    /\ mEditBuffer.mAddedFeatures = EmptyMap

\* They hold after a commit that stored some changes and failed at a later
\* stage too, if no command is redone then.
RollBackAfterFailure == stack # "redone" => RollBackEmpties

\* The provider takes the pending renames of fields.
RenamesAccepted ==
  renameAttributes(Without(provider.fields, mEditBuffer.mDeletedAttributeIds),
                   mEditBuffer.mRenamedAttributes).result

\* Whatever was edited, undone and only partly committed before: a commit that
\* the provider does not refuse succeeds and stores what the user sees.
CommitStoresView ==
  editing /\ stack \in {"intact", "partial"} /\ RenamesAccepted =>
    LET s == commitChanges({})
    IN  s.success /\ Seen(NewBuffer(s.fields), s) = View

\* A commit, successful or not, changes nothing of what the user sees: each
\* change is stored or still pending, neither lost nor applied elsewhere.
CommitKeepsView ==
  [][/\ stack \in {"intact", "partial"}
     /\ provider' # provider \/ (stack = "intact" /\ stack' = "partial")
     => View' = View]_vars

==============================================================================
