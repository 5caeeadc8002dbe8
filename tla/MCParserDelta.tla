--------------------------- MODULE MCParserDelta ---------------------------
(* Instances of ParserDelta for TLC: a tool with a string and an integer    *)
(* parameter, and one whose name extends its name and that has no schema.   *)
EXTENDS ParserDelta

TwoTools == (<<"f">> :> ("k" :> "integer" @@ "s" :> "string"))
            @@ (<<"f", "f">> :> [k \in {} |-> "string"])

WithAndWithoutTools == {[include_reasoning |-> TRUE, tool_choice |-> "auto"],
                        [include_reasoning |-> FALSE, tool_choice |-> "none"]}
=============================================================================
