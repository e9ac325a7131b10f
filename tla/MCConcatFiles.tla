--------------------------- MODULE MCConcatFiles ---------------------------
(* ConcatFiles for TLC: groups g, h and k in h; two datasets in g, one in  *)
(* each of the others.                                                     *)
EXTENDS ConcatFiles

CONSTANTS g, h, k, a, b, c, e

Tree    == [x \in {g, h, k} |-> IF x = k THEN h ELSE Root]
Members == [x \in {a, b, c, e} |-> IF x \in {a, b} THEN g ELSE IF x = c THEN h ELSE k]

(* Everything, a group without the one it is in, and one group. *)
AnySelection == {{g, h, k}, {g, k}, {h}}
GOnly        == {{g}}

MaxRowsPerFile == 2
Unlimited == -1

(* Files with any number of rows in the two datasets of g, of which any    *)
(* may be missing, and with or without the other groups.                   *)
WithG(gs, rest) ==
  { [groups |-> gs, rows |-> [d \in DOMAIN n \cup DOMAIN rest |->
                                IF d \in DOMAIN n THEN n[d] ELSE rest[d]]] :
      n \in UNION { [D -> 0..MaxRowsPerFile] : D \in SUBSET {a, b} } }

OneRow(ds) == [d \in ds |-> 1]

MixedFiles ==
  WithG({g}, OneRow({})) \cup WithG({g, h, k}, OneRow({c, e}))
    \cup { [groups |-> gs, rows |-> OneRow({c})] : gs \in {{h}, {h, k}} }
    \cup { [groups |-> {}, rows |-> OneRow({})] }

GFiles == WithG({g}, OneRow({}))
=============================================================================
