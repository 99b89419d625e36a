----------------------------- MODULE MCExplorer -----------------------------
(* Small instances of the Explorer page and its server.                    *)
EXTENDS Explorer, TLC

CONSTANTS g1, n1, n2

Link(g, n) == [group |-> g, node |-> n]

(* One node in a group and one global node.                                *)
InAndOut  == (n1 :> g1) @@ (n2 :> None)
DeepLinks == {Link(None, None), Link(g1, n1)}
=============================================================================
