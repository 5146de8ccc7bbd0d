----------------------------- MODULE MCCsvImport -----------------------------
(* Two files that name the same items in opposite orders, with an invalid  *)
(* line and a repeated row; a file with a number no column holds; and an   *)
(* empty one.                                                              *)
EXTENDS CsvImport, TLC

CONSTANTS k1, k2, n1, n2, t1, ordered, reversed, overflowing, empty

L(key, name, at, ask, bid) ==
  [key |-> key, name |-> name, at |-> at, ask |-> ask, bid |-> bid]

AllLines ==
  (ordered :> <<L(k1, n1, t1, "ok", "ok"), L(k2, n1, t1, "ok", "blank"),
                L("blank", n1, t1, "bad", "bad")>>)
  @@ (reversed :> <<L(k2, n1, t1, "ok", "ok"), L(k1, n2, t1, "ok", "ok"),
                    L(k2, n2, t1, "ok", "ok"), L(k1, n1, "bad", "ok", "ok")>>)
  @@ (overflowing :> <<L(k1, n2, t1, "ok", "ok"),
                       L(k2, n2, t1, "ok", "unstorable")>>)
  @@ (empty :> <<>>)

MCLines == [f \in Files |-> AllLines[f]]

Symmetry == Permutations(Imports)
=============================================================================
