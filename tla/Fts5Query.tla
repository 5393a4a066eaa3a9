------------------------------ MODULE Fts5Query ------------------------------
(***************************************************************************)
(* BuildSafeFts5MatchQuery: any text becomes a query that FTS5 reads as    *)
(* the words of the text, none of them as syntax.                          *)
(*                                                                         *)
(* How FTS5 reads a query is modelled as fts5_query.hpp describes it.      *)
(***************************************************************************)
EXTENDS Text

CONSTANTS
    Or,     \* the letters of OR
    Nul     \* the character that ends a C string

ASSUME QueryAssumption ==
    /\ Or \in Seq(Char \ (Space \cup {Quote, Nul})) /\ Or # <<>>
    /\ Nul \in Char \ (Space \cup Alone)

Blank == CHOOSE c \in Space : TRUE

\* Mutant: an embedded quote is not doubled.
EscapedAsItIs(word) == word

\* "" is FTS5's escape for a literal quote.
Escaped(word) ==
    FlattenSeq([i \in DOMAIN word |->
        IF word[i] = Quote THEN <<Quote, Quote>> ELSE <<word[i]>>])

Quoted(word) == <<Quote>> \o Escaped(word) \o <<Quote>>

BuildSafeFts5MatchQuery(text) ==
    LET words == Words(text)
    IN  FlattenSeq([n \in DOMAIN words |->
            IF n = 1 THEN Quoted(words[n])
            ELSE <<Blank>> \o Or \o <<Blank>> \o Quoted(words[n])])

\* What sqlite3_bind_text reads of std::string::c_str() when it is given no
\* length.
CString(text) ==
    LET ends == {i \in DOMAIN text : text[i] = Nul}
    IN  IF ends = {} THEN text
        ELSE SubSeq(text, 1, (CHOOSE i \in ends : \A j \in ends : i <= j) - 1)

-----------------------------------------------------------------------------
\* FTS5 reads a query character by character: outside of quotes ("bare"),
\* inside ("phrase"), or after a quote that closes the phrase unless another
\* one follows ("closing").
Phrase(chars) == [kind |-> "phrase", chars |-> chars]
Bareword(chars) == [kind |-> "bareword", chars |-> chars]

ReadBare(state, c) ==
    LET ended == IF state.chars = <<>> THEN state.tokens
                 ELSE Append(state.tokens, Bareword(state.chars))
    IN  CASE c = Quote   -> [mode |-> "phrase", chars |-> <<>>, tokens |-> ended]
          [] c \in Space -> [mode |-> "bare", chars |-> <<>>, tokens |-> ended]
          [] OTHER       -> [state EXCEPT !.chars = Append(@, c)]

ReadPhrase(state, c) ==
    IF c = Quote THEN [state EXCEPT !.mode = "closing"]
    ELSE [state EXCEPT !.chars = Append(@, c)]

ReadClosing(state, c) ==
    IF c = Quote THEN [state EXCEPT !.mode = "phrase", !.chars = Append(@, c)]
    ELSE ReadBare([mode |-> "bare", chars |-> <<>>,
                   tokens |-> Append(state.tokens, Phrase(state.chars))], c)

ReadCharacter(state, c) ==
    CASE state.mode = "bare"   -> ReadBare(state, c)
      [] state.mode = "phrase" -> ReadPhrase(state, c)
      [] OTHER                 -> ReadClosing(state, c)

\* The end of the query ends its last word, as a space does.
Fts5Reads(query) ==
    FoldLeft(ReadCharacter, [mode |-> "bare", chars |-> <<>>, tokens |-> <<>>],
             query \o <<Blank>>)

\* A query that ends inside a phrase, after an odd number of quotes, is an
\* "unterminated string": FTS5 refuses it.
Accepted(query) == Cardinality({ i \in DOMAIN query : query[i] = Quote }) % 2 = 0

\* A query that asks for any of the words, literally.
MeansAnyOf(query, words) ==
    LET read == Fts5Reads(query)
    IN  /\ read.mode = "bare"
        /\ Len(read.tokens) = IF words = <<>> THEN 0 ELSE 2 * Len(words) - 1
        /\ \A n \in DOMAIN read.tokens :
            read.tokens[n] = IF n % 2 = 1 THEN Phrase(words[(n + 1) \div 2])
                             ELSE Bareword(Or)
=============================================================================
