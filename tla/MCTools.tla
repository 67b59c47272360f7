------------------------------ MODULE MCTools ------------------------------
(* Versions that agree in part and one that is a branch; a tool that       *)
(* go-make has a version of, others that are not managed.                  *)
EXTENDS Tools, TLC

MCTokens == ("0.13.0" :> <<0, 13, 0>>) @@ ("0.13" :> <<0, 13>>) @@ ("0.14.0" :> <<0, 14, 0>>)
            @@ ("main" :> <<>>)

MCEmbedded == [c \in Cmd |-> IF c \in {CMD, "syft"} THEN "0.13.0" ELSE None]

Of(v) == [version |-> v, module |-> FALSE]
BinnySpecs == {Of(v) : v \in {None, "0.13", "0.14.0", "main"}} \cup {[version |-> None, module |-> TRUE]}

MCConfigs == {[c \in Cmd |-> CASE c = CMD -> b [] c = "syft" -> s [] OTHER -> Of(None)] :
                b \in BinnySpecs, s \in {Of(v) : v \in {None, "0.13.0", "0.14.0"}}}
=============================================================================
