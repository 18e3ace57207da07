------------------------------- MODULE MCCtl -------------------------------
(* Instantiates Ctl for TLC: three control peers for a pool of two, an     *)
(* attribute table with the TLS key and one public attribute, and a name   *)
(* the table lacks.                                                        *)
EXTENDS Ctl, TLC

CONSTANTS a1, b1   \* a public attribute and a name not in the table

\* Table within the bounds add_attr checks (every length < ValueMax).
MCAttrLen == (Key :> 1) @@ (a1 :> 1)

\* Table whose public value fills any_value exactly (len = ValueMax).
MCAttrLenFull == (Key :> 1) @@ (a1 :> 2)

\* Table whose public value is larger than any_value.
MCAttrLenOversize == (Key :> 1) @@ (a1 :> 3)

PeerSymmetry == Permutations(Peers)
=============================================================================
