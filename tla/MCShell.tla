------------------------------- MODULE MCShell -------------------------------
(* Instances of Shell for TLC: the batch files and the words in them.      *)
EXTENDS Shell

MCWords == {"", "ls", "ls -l", "-l", "dir", "nope", "./x", "a", "b", "x", "y", "=", "1", "3", "'"}
             \union Builtins
MCHash  == [w \in MCWords |-> 1]
MCParse == [w \in MCWords |-> CASE w = ""      -> <<>>
                                [] w = "ls -l" -> <<"ls", "-l">>
                                [] OTHER       -> <<w>>]
MCLocal    == {"./x"}
MCBadQuote == <<"'">>

MCLookup == [p \in {"/bin", ""} |-> [w \in MCWords |->
                CASE w = "dir" -> "directory"
                  [] w = "ls" /\ p # "" -> "program"
                  [] OTHER -> "none"]]
MCNumber == "1" :> 1 @@ "3" :> 3

C(w) == <<w>>                       \* a line of one command
AliasTo(n, w) == C(<<"alias", n, "=", w>>)

\* Aliases: chains, updates, expansion once, empty and recursive aliases.
MCAliases == {
    <<AliasTo("a", "ls"), AliasTo("b", "ls -l"), C(<<"a">>), C(<<"unalias", "b">>),
      C(<<"a", "x">>), C(<<"b">>)>>,
    <<AliasTo("a", "b"), AliasTo("b", "a"), AliasTo("a", "ls"), C(<<"which", "a">>),
      C(<<"unalias", "a">>), C(<<"a">>)>>,
    <<C(<<"alias", "a", "=">>), C(<<"a", "ls">>), C(<<"a">>), C(<<"ls">>)>>,
    <<AliasTo("a", "exit"), C(<<"alias", "a", "b">>), C(<<"exit", "x">>), C(<<"a">>)>>}

\* Pipelines: programs, builtins, refused segments, what they leave behind.
MCPipelines == {
    <<C(<<"history">>), <<<<"ls">>, <<"ls">>, <<"ls">>>>, C(<<"history", "1">>)>>,
    <<<<<<"ls">>, <<"nope">>>>, AliasTo("a", "ls"), <<<<"a">>, <<"alias", "b", "=", "a">>>>,
      C(<<"b">>)>>,
    <<C(<<"cd">>), <<<<"unalias", "a">>, <<"ls">>>>, <<<<"ls">>, <<>>>>, C(<<"ls">>)>>,
    <<C(<<"alias", "a", "=">>), <<<<"ls">>, <<"a">>>>, <<<<"ls">>, <<"dir">>>>, C(<<>>)>>}

\* Errors: quotes, PATH, directories.
MCErrors == {
    <<C(MCBadQuote), C(<<"path", "">>), C(<<"ls">>), C(<<"path">>), C(<<"history", "3">>)>>,
    <<C(<<"dir">>), C(<<"ls">>), <<<<"ls">>, <<"exit">>>>>>,
    <<C(<<"./x">>), C(<<"path", "">>), C(<<"./x">>), <<<<"ls">>, <<"./x">>>>>>,
    <<C(<<"nope">>), C(<<"cd", "x", "y">>), C(<<"history", "nope">>), C(<<"exit">>), C(<<"ls">>)>>}

\* Every script of three of these lines with at most one pipeline, of which
\* at most one segment ends by exit(): with two of them a script can be
\* repeated for ever (see EachLineOnce).
Pool == {AliasTo("a", "ls"), AliasTo("b", "a"), AliasTo("a", ""), AliasTo("a", "b"), C(<<"a">>),
         C(<<"unalias", "a">>), C(<<"b", "x">>), C(<<"history">>), C(<<"dir">>), C(<<"path", "">>),
         <<<<"ls">>, <<"a">>>>, <<<<"which", "a">>, <<"ls">>>>, <<<<"ls">>, <<"dir">>>>, <<<<"a">>, <<"history">>, <<"ls">>>>}

MCPool == {s \in [1..3 -> Pool] :
             /\ Cardinality({l \in 1..3 : Len(s[l]) > 1}) <= 1
             /\ Cardinality({l \in 1..3 : s[l] = C(<<"dir">>)}) <= 1}

MCScripts  == MCAliases \union MCPipelines \union MCErrors \union MCPool

\* A pipeline whose first segment is a builtin, and a line after it.
MCTwice    == {<<<<<<"which", "a">>, <<"ls">>>>, C(<<"ls">>)>>}

\* A pipeline that runs before there is a history.
MCHistory  == {<<<<<<"ls">>, <<"ls">>>>, C(<<"history">>), C(<<"history", "1">>)>>}
MCPids     == 1..6
==============================================================================
