---------------------------- MODULE MCValuePool ----------------------------
(* Model values for ValuePool.  No symmetry: CallsReturn is a liveness      *)
(* property.                                                               *)
EXTENDS ValuePool

============================================================================
