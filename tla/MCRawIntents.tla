----------------------------- MODULE MCRawIntents -----------------------------
EXTENDS RawIntents

\* "__raw_intent__" abstracted to a prefix that itself holds separators
MCPrefix == <<"_", "r", "_">>

\* owner names around the separator: empty, plain, ending in "_", holding
\* "_1", and the prefix itself
MCNames == {<<>>, <<"a">>, <<"a", "_">>, <<"a", "_", "1">>, <<"_", "r", "_">>}

\* priorities whose decimal forms continue a name ("a_" 12 against "a_1" 2), and a negative
MCPriorities == {-1, 2, 12}

MCCharCode == [c \in {"_", "a", "r", "-", "+", "0", "1", "2", "3", "4", "5", "6", "7", "8", "9"} |->
                  CASE c = "_" -> 95 [] c = "a" -> 97 [] c = "r" -> 114
                    [] c = "-" -> 45 [] c = "+" -> 43
                    [] OTHER -> 48 + DigitValue(c)]
=============================================================================
