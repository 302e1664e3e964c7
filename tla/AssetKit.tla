------------------------------ MODULE AssetKit ------------------------------
(***************************************************************************)
(* compile() from a catalog on disk to the bytes of Assets.car: the loops  *)
(* of XCAssetCompiler make the list of renditions, and CARWriter.write()   *)
(* turns it into the container.                                            *)
(***************************************************************************)
EXTENDS XCAssetCompiler, CARWriter

(* The writer is made when the list is complete; "none" until then.        *)
KitInit ==
  /\ Init
  /\ renditions = <<>>
  /\ section = "none"
  /\ BOM!BOMInit

Compile == Next /\ UNCHANGED carVars

(* Mutant: calls the writer before the icons are rendered.                 *)
HandOverEarly ==
  /\ stage \in {"plist", "done"}
  /\ section = "none"
  /\ renditions' = rendered
  /\ section' = "CARHEADER"
  /\ UNCHANGED <<blocks, variables, bomRest, vars>>

HandOver ==
  /\ stage = "done"
  /\ section = "none"
  /\ renditions' = rendered
  /\ section' = "CARHEADER"
  /\ UNCHANGED <<blocks, variables, bomRest, vars>>

Write == CARNext /\ UNCHANGED vars

KitNext == Compile \/ HandOver \/ Write

KitSpec == KitInit /\ [][KitNext]_<<vars, carVars>>

-----------------------------------------------------------------------------
(* Correctness, from one end to the other.                                 *)

(* The key under which the device looks for what an entry gives.           *)
KeyFor(x, w) ==
  LET e == x[1].entries[x[2]]
  IN RenditionKey([name |-> x[1].name, idiom |-> e.idiom, scale |-> w[2],
                   dark |-> e.dark, body |-> w[1]])

Sought ==
  UNION {{<<x, w>> : w \in Wanted(x[1].kind, x[1].entries[x[2]])} : x \in EntriesIn}

StemOf(x) == x[1].entries[x[2]].file.stem

(* What the author of the catalog asked for is what a device gets: in a    *)
(* finished file a binary search under the name, idiom, scale and          *)
(* appearance of each entry of each set, for each rendition the entry must *)
(* have, ends at one made from that entry's file, or from the file of      *)
(* another entry with the same key.                                        *)
EntriesFound ==
  Written /\ Done => \A s \in Sought :
    LET key == KeyFor(s[1], s[2])
        rivals == {t \in Sought : KeyFor(t[1], t[2]) = key}
        found == Lookup(blocks, Variable("RENDITIONS"), Encode(key))
    IN /\ found # {}
       /\ \A b \in found : \E t \in rivals :
            b.data.source = StemOf(t[1]) /\ b.data.body = t[2][1]

=============================================================================
