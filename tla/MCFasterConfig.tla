------------------------- MODULE MCFasterConfig -------------------------
(* Model-checking module of FasterConfig; the .cfg files give the bounds. *)
EXTENDS FasterConfig
=========================================================================
