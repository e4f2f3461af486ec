-------------------------- MODULE MCTransactionGroup --------------------------
(***************************************************************************)
(* Small instances of TransactionGroup.                                    *)
(***************************************************************************)
EXTENDS TransactionGroup
=============================================================================
