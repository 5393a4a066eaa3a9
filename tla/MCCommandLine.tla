--------------------------- MODULE MCCommandLine ---------------------------
(* CommandLine for TLC: a handful of texts, folders and models. *)
EXTENDS CommandLine

MCChar == {"a", "b", "O", "R", "o", "r", " ", "\"", "0"}
MCAlone == {"\""}
MCQuote == "\""
MCLower == [c \in MCChar |-> CASE c = "O" -> "o" [] c = "R" -> "r" [] OTHER -> c]
MCBytes == [c \in MCChar |-> IF c = "b" THEN 3 ELSE 1]
MCOr == <<"O", "R">>

\* "aab", "ab" and "o" can be put together; no piece begins with "##r".
MCVocab ==
    { [inner |-> FALSE, chars |-> <<"a">>], [inner |-> FALSE, chars |-> <<"a", "a">>],
      [inner |-> FALSE, chars |-> <<"o">>], [inner |-> FALSE, chars |-> <<"\"">>],
      [inner |-> TRUE, chars |-> <<"b">>], [inner |-> TRUE, chars |-> <<"a">>] }

file(name, readable, text) == [name |-> name, readable |-> readable, text |-> text]

\* aab a " OR a ab
long == <<"a", "a", "b", " ", "a", "\"", " ", "O", "R", " ", "a", " ", "a", "b">>
\* a, a NUL inside the second word, and the word bb of six bytes
nul == <<" ", "a", " ", "a", "0", "a", " ", "b", "b">>

MCFolder == {"empty", "notes", "again", "more", "mixed"}
MCFilesIn ==
    [f \in MCFolder |->
        CASE f = "empty" -> << >>
          [] f = "notes" -> << file("x", TRUE, long), file("y", TRUE, << >>) >>
          [] f = "again" -> << file("y", TRUE, nul) >>
          [] f = "more"  -> << file("z", TRUE, <<"a", "b">>) >>
          [] f = "mixed" -> << file("w", TRUE, <<"a">>), file("u", FALSE, << >>) >>]

\* A word with two quotes; a quote that nothing closes, before OR; a quote and then
\* a NUL; only spaces.
MCQuery ==
    { <<"a", "\"", "\"">>, <<"\"", "b", " ", "O", "R">>, <<"\"", "0", "b">>, <<" ", " ">> }

MCModel ==
    { [format |-> "onnx", dim |-> 2, vocab |-> TRUE],
      [format |-> "mock", dim |-> 1, vocab |-> FALSE],
      [format |-> "other", dim |-> 2, vocab |-> FALSE] }
=============================================================================
