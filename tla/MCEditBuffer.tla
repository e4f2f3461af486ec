---------------------------- MODULE MCEditBuffer ----------------------------
(***************************************************************************)
(* A layer with two fields and one stored feature for EditBuffer.          *)
(***************************************************************************)
EXTENDS EditBuffer

TwoFields == <<"p", "q">>
OneWithTwo == <<[geometry |-> "point", attributes |-> <<"p", "q">>]>>

\* The calls that send features to the provider fail.
FeatureCallsFail ==
  {{}, {"typeCheck"}, {"changeGeometryValues"}, {"changeFeatures"},
   {"changeAttributeValues"}, {"deleteFeatures"}, {"addFeatures"},
   {"changeGeometryValues", "changeAttributeValues"}}
DeleteAttributesFails == {{}, {"deleteAttributes"}}
NoCallFails == {{}}

\* Fields are deleted, or they are renamed, in a behaviour.
EditsOnly == {Kinds \ {"renameAttribute"}}
RenamesOnly == {Kinds \ {"deleteAttribute"}}
EditsOrRenames == EditsOnly \cup RenamesOnly
=============================================================================
