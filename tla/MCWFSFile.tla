------------------------------ MODULE MCWFSFile ------------------------------
(* Instances of WFSFile for TLC: "e" stands for the escape character, and  *)
(* one of the names is the letter that ends an escape sequence.            *)
EXTENDS WFSFile

MCChars == {"e", "[", "m", "o"}
MCNames == {<<"m">>, <<"o">>}
MCAnsi == [c \in {"none", "red"} |-> IF c = "none" THEN <<>> ELSE <<"e", "[", "m">>]
MCReset == <<"e", "[", "m">>
MCData == {<<1>>, <<1, 2, 1>>}
MCPaths == MCNames \cup {<<"e", "[", "m", "o", "e", "[", "m">>}
MCOffs == {1, 2}
MCLens == {2, 4}
==============================================================================
