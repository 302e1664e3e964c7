----------------------------- MODULE MCAssetKit -----------------------------
(***************************************************************************)
(* An instance of AssetKit for TLC: catalogs through compile() to the      *)
(* file, and besides them the writer called by itself, as the tests do,    *)
(* with lists of renditions whose names collide in every way.              *)
(***************************************************************************)
EXTENDS AssetKit, MCXCAssetCompiler, MCCARWriter

(* compile() is not called; the list is given.                              *)
WriterAlone ==
  /\ catalog = {}
  /\ stage = "uncalled"
  /\ stack = <<>>
  /\ loaded = [k \in AssetKinds |-> <<>>]
  /\ todo = <<>>
  /\ rendered = <<>>
  /\ iconFiles = <<>>
  /\ looseFiles = <<>>
  /\ error = "none"
  /\ CARInit

MCSpec == (KitInit \/ WriterAlone) /\ [][KitNext]_<<vars, carVars>>

=============================================================================
