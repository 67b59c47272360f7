---------------------------- MODULE MCCommandIO ----------------------------
(* Up to two options in any order, of those that wire output or fail.      *)
EXTENDS CommandIO

MCOptions ==
  [option : {"Quiet", "NoFail", "Write", "fails"}]
    \cup {[option |-> s, writer |-> w] : s \in Stream, w \in {"os.Stderr", "callers"}}

MCOptionLists == UNION {[1..n -> MCOptions] : n \in 0..2}
=============================================================================
