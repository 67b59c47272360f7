------------------------------- MODULE Matrix -------------------------------
(***************************************************************************)
(* The suffix that tells the artifacts of the jobs of a matrix apart       *)
(* (github/matrix.go).  Texts are sequences of characters, of which there  *)
(* are a few of each class; a JSON object is the sequence of its entries   *)
(* in the order of their keys.                                             *)
(***************************************************************************)
EXTENDS Naturals, Sequences, SequencesExt

Capitals == {"A", "B"}

ToLower(t) == [i \in DOMAIN t |-> CASE t[i] = "A" -> "a" [] t[i] = "B" -> "b" [] OTHER -> t[i]]

\* pat.ReplaceAllString(t, "-"): each run of characters outside of [-a-z0-9_] becomes a dash.
Bad(c) == c \in Capitals \cup {"."}

Squeezed(t) ==
  FlattenSeq([i \in DOMAIN t |->
    CASE ~Bad(t[i]) -> <<t[i]>>
      [] Bad(t[i]) /\ i > 1 /\ Bad(t[i - 1]) -> <<>>
      [] OTHER -> <<"-">>])

(***************************************************************************)
(* stringify: texts are lower-cased after the replacement, keys before it. *)
(***************************************************************************)
RECURSIVE stringify(_)
stringify(value) ==
  CASE value.kind = "text" -> IF value.of = <<>> THEN <<>> ELSE <<"-">> \o ToLower(Squeezed(value.of))
    [] value.kind = "number" -> <<"-">> \o value.of
    [] value.kind = "list" -> FlattenSeq([i \in DOMAIN value.of |-> stringify(value.of[i])])
    [] value.kind = "map" ->
         FlattenSeq([i \in DOMAIN value.of |->
           LET v == stringify(value.of[i][2]) IN
           IF v = <<>> THEN <<>> ELSE <<"-">> \o Squeezed(ToLower(value.of[i][1])) \o v])

\* matrixSuffix: the keys of the matrix itself are left out; no matrix, no suffix.
matrixSuffix(matrix) == FlattenSeq([i \in DOMAIN matrix |-> stringify(matrix[i][2])])
=============================================================================
