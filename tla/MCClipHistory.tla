--------------------------- MODULE MCClipHistory ---------------------------
(* Small instances of ClipHistory: images a and b, a text u, and three     *)
(* contents with one fingerprint: a text t, the same text r with rich text *)
(* and a copied file f whose path is that text.                            *)
EXTENDS ClipHistory, TLC
CONSTANTS i1, i2, a, b, u, t, r, f

NoRichText == [c \in Contents |-> IF c = r THEN t ELSE c]
First == [c \in Contents |->
  IF c = a THEN "ha" ELSE IF c = b THEN "hb" ELSE IF c = u THEN "hu" ELSE "ht"]
Second == [c \in Contents |->
  IF c = a THEN "h-ra" ELSE IF c = b THEN "h-rb" ELSE IF c = u THEN "h-ru" ELSE "h-rt"]
OneShape == [c \in Contents |-> 0]
Symmetry == Permutations(ClipIds)
=============================================================================
