--------------------------- MODULE MCMapRenderer ----------------------------
(***************************************************************************)
(* Small instances of MapRenderer: a canvas with a labelled layer and one  *)
(* in edit mode, and two job objects, so that a job that was given up      *)
(* draws beside the one that replaced it.                                  *)
(***************************************************************************)
EXTENDS MapRenderer
=============================================================================
