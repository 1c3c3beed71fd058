----------------------------- MODULE MCDispatch ------------------------------
(* Dispatch for TLC: model values for the requests, symmetric because no action
   or property tells two of them apart. *)
EXTENDS Dispatch, TLC

RequestSymmetry == Permutations(Requests)
=============================================================================
