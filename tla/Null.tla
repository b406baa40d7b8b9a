-------------------------------- MODULE Null --------------------------------
(***************************************************************************)
(* The value of Python's None, which several components share: no lock      *)
(* holder, no file, no record.                                              *)
(***************************************************************************)
CONSTANT None
=============================================================================
