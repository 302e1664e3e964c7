---------------------- MODULE MCRsvgConvertRasterizer ----------------------
(***************************************************************************)
(* Instances of RsvgConvertRasterizer for TLC.                             *)
(***************************************************************************)
EXTENDS RsvgConvertRasterizer, TLC

Symmetry == Permutations(Calls)

=============================================================================
