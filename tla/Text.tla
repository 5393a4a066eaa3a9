-------------------------------- MODULE Text --------------------------------
(***************************************************************************)
(* Strings, and the scan for whitespace that chunk_text,                   *)
(* BuildSafeFts5MatchQuery and the tokenizer share.                        *)
(*                                                                         *)
(* A character is a code point as NextCodepoint returns it, or a byte that *)
(* is not well-formed UTF-8.  Only what the code asks about it is kept:    *)
(* whether it separates words, stands alone as a word, how it is           *)
(* lowercased and how many bytes it takes.                                 *)
(***************************************************************************)
EXTENDS Integers, SequencesExt

CONSTANTS
    Char,       \* characters
    Space,      \* the six characters of kWhitespace
    Alone,      \* ASCII punctuation and CJK code points
    Quote,      \* the double quote
    Lower,      \* AsciiLower, for every character
    Bytes       \* length of every character in UTF-8

ASSUME TextAssumption ==
    /\ Space \subseteq Char /\ Alone \subseteq Char
    /\ Space # {} /\ Space \cap Alone = {}
    /\ Quote \in Alone
    /\ Lower \in [Char -> Char]
    /\ Bytes \in [Char -> 1..4]

\* A word ends between two characters if one of them separates words, or is
\* one of those that stand alone.
Border(text, alone, i) ==
    {text[i - 1], text[i]} \cap (Space \cup alone) # {}

RunStarts(text, alone) ==
    { i \in DOMAIN text : text[i] \notin Space /\ (i > 1 => Border(text, alone, i)) }

RunEnd(text, alone, i) ==
    CHOOSE j \in i..Len(text) :
        /\ \A k \in (i + 1)..j : ~Border(text, alone, k)
        /\ j < Len(text) => Border(text, alone, j + 1)

\* The n-th member of a set of numbers.
Nth(S, n) == CHOOSE i \in S : Cardinality({ j \in S : j <= i }) = n

\* The maximal runs of text between borders, in order.
Runs(text, alone) ==
    LET starts == RunStarts(text, alone)
    IN  [n \in 1..Cardinality(starts) |->
            SubSeq(text, Nth(starts, n), RunEnd(text, alone, Nth(starts, n)))]

\* What lies between spaces.
Words(text) == Runs(text, {})

\* Words with one separator between them, as chunk_text joins a window.
Joined(words) ==
    LET sp == CHOOSE c \in Space : TRUE
    IN  FlattenSeq([n \in DOMAIN words |->
            IF n = 1 THEN words[n] ELSE <<sp>> \o words[n]])
=============================================================================
