------------------------------- MODULE MCShellJobs -------------------------------
(* ShellJobs with one line of every shape: "a" is a program that ends, "e"  *)
(* is one that does not, "d" is a directory and "x" neither.  The buffer    *)
(* may start with every line of at most MaxTokens tokens, so that every     *)
(* such line is parsed and carried out by a shell without any input.        *)
EXTENDS ShellJobs

CONSTANT MaxTokens

MCLines == {
    << >>, <<" ">>, <<"quit">>, <<"quit", " ">>,
    <<" ", "a">>, <<"a", " ", "&">>, <<"e">>, <<"e", "&", "a">>, <<"x">>, <<Tab, " ", "&">>,
    <<"a", "|", "a">>, <<"a", "|", "e", "&">>, <<"x", "|", "<", "|", "a">>,
    <<"<", "a", "|", "a">>, <<"<", "a">>, <<"|", "a">>, <<Tab, "|", "a">>, <<"&", "a">>,
    <<"a", " ", "x", " ", "d", " ", "e">>,
    <<"a", "<", " ", "x", ">", "a", "<", "d", " ", "x", "|", "x", ">", "a", ">">>,
    <<"cd">>, <<"cd", " ", "d", ">", "a", "&">>, <<"cd", " ", "x">>, <<"cd", " ", "d", " ", "d">>}

ShortLines ==
    LET tokens == (Tokens \ {"\n"}) \cap {"a", "x", Tab, " ", "<", ">", "|", "&"}
    IN  {s \in UNION {[1 .. n -> tokens] : n \in 0 .. MaxTokens} :
            \A i \in 1 .. Len(s) - 1 : ~ (IsWord(s[i]) /\ IsWord(s[i + 1]))}

==================================================================================
