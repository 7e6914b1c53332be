--------------------------- MODULE MCLookupCache ---------------------------
(***************************************************************************)
(* Small instances of LookupCache.  The behaviour begins at the time MaxAge,  *)
(* so that a file of time 0 is due to be cleared, as one dated in Future is.  *)
(***************************************************************************)
EXTENDS LookupCache, TLC
Symmetry == Permutations(Proc)
=============================================================================
