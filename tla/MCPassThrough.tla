----------------------------- MODULE MCPassThrough -----------------------------
(***************************************************************************)
(* Small instances of PassThrough: layers are interchangeable.             *)
(***************************************************************************)
EXTENDS PassThrough, TLC

LayerSymmetry == Permutations(Layers)
=============================================================================
