------------------------------ MODULE MCByteTools ------------------------------
(* ByteTools with command lines in which options follow each other in every *)
(* way that matters: with and without a number, with "-r" at the end or     *)
(* before another option, and with "-o".                                    *)
EXTENDS ByteTools

MCCommandLines == {
    << >>, <<"-t">>, <<"-k", "1">>, <<"-k", "-1">>, <<"-k", "2", "-t">>,
    <<"-r">>, <<"-r", "1">>, <<"-r", "2">>, <<"-r", "-1">>, <<"-k", "1", "-r">>,
    <<"-k", "1", "-r", "2">>, <<"-r", "2", "-k", "1">>, <<"-r", "1", "-t">>,
    <<"-o", "f", "-r">>, <<"-r", "-o", "f">>, <<"-k">>, <<"-o">>}

MCNumberOf == ("1" :> 1) @@ ("2" :> 2) @@ ("-1" :> -1)

MCText == <<97, 10>>

=================================================================================
