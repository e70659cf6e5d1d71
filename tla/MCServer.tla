------------------------------ MODULE MCServer ------------------------------
(* Small instances of Server for TLC.                                      *)
EXTENDS Server, TLC

\* Texts of up to three characters, where there is room for two of a path or of
\* a token and for two digits; INT_MAX is 31 and LONG_MAX 90 in these runs.
MCTokens      == BoundedSeq({0, 1, 3, 9, BLANK, PLUS, MINUS, 24}, 3)
MCAdminTokens == {<<24>>, <<1>>, <<24, 24, 24>>, <<>>}
MCRequests    == [method : {21}, path : {<<24>>, <<24, 1>>, <<24, 1, 24>>},
                  token : BoundedSeq({1, 9, 24}, 3), number : BoundedSeq({0, 3}, 3)]

MCNumberOf == "1" :> 1 @@ "0" :> 0 @@ "65536" :> 65536 @@ "-1" :> -1
MCWords    == DOMAIN MCNumberOf \cup {"", "word", "--port", "--db", "--backlog"}
MCEnvs     == {[f \in Flags |-> w] : w \in {Unset, "", "1", "65536"}}
MCArgvs    == BoundedSeq(MCWords, 3) \cup [1..4 -> {"--port", "--db", "1", "0"}]
=============================================================================
