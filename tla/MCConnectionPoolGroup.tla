------------------------ MODULE MCConnectionPoolGroup ------------------------
(***************************************************************************)
(* The small instance of ConnectionPoolGroup: the main thread and a worker *)
(* thread, one concurrent connection (plus the two spare ones), and one    *)
(* connection object more than the pool may ever have open.  No symmetry:  *)
(* it would be unsound for the liveness property.                          *)
(***************************************************************************)
EXTENDS ConnectionPoolGroup
=============================================================================
